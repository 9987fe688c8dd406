--------------------------- MODULE StorageProofs ----------------------------
(***************************************************************************)
(* For any number of threads and segments: the stack a thread runs on      *)
(* stays mapped until the kernel has done with it, is no other thread's,   *)
(* and no stack is left that no object knows.  What makes it hold is that  *)
(* the object keeps the stack of the kernel's thread for as long as there  *)
(* is one, and that on macOS, where a join returns before that, the object *)
(* has a port to wait on by then.                                          *)
(*                                                                         *)
(* A segment is in one run, in the cache or without pages, and the budget  *)
(* counts each page once.  What makes that hold is that a commit, which    *)
(* takes several steps, is of a segment of the client's own: nobody else   *)
(* changes how many pages it has, and the sweep looks at none but cached   *)
(* ones.  A run is free because the scan finds the first that fits, which  *)
(* is shown for every bitmap from the bit a counterexample would begin at. *)
(*                                                                         *)
(* For any number of indices, generations and types: the world accounts    *)
(* for its places and implements the map of entities.  A handle is new     *)
(* because a place on the free list has a generation nobody has seen, and  *)
(* a new entity has nothing because no flag is set at a dead place; these  *)
(* need that a place is on the list once, and never while it is in use.    *)
(***************************************************************************)
EXTENDS SegmentAllocator, Threads, World, FiniteSetTheorems, SequenceTheorems, WellFoundedInduction, TLAPS

-----------------------------------------------------------------------------
(* The threads and their stacks.                                           *)

\* Where the kernel's thread is on a stack of its own.
OnStack == {"entering", "waiting", "routine", "leaving"}

\* The types of the state.
ThreadsTypeOK ==
  /\ threadBuild \in {"linux", "macos", "windows"}
  /\ state \in [Objects -> {"notStarted", "running", "suspended", "adopted", "joined"}]
  /\ id \in [Objects -> Nat \cup {NoThread}]
  /\ stack \in [Objects -> Nat \cup {NoStack}]
  /\ stackOf \in [Objects -> Nat \cup {NoStack}]
  /\ port \in [Objects -> BOOLEAN]
  /\ kernel \in [Objects -> {"none", "creating", "gone"} \cup OnStack]
  /\ stacks \subseteq Nat
  /\ nextId \in Nat /\ nextStack \in Nat /\ threadRefusals \in Nat

\* Stacks are numbered in the order they are mapped.
StacksAreOld ==
  /\ \A s \in stacks : s < nextStack
  /\ \A o \in Objects : stack[o] < nextStack

\* An object has a stack only once it was started, the kernel's thread runs
\* on the one its object has, and on macOS it has handed its port over first.
ObjectKeepsStack ==
  \A o \in Objects :
    /\ state[o] = "notStarted" => kernel[o] = "none" /\ stack[o] = NoStack
    /\ kernel[o] \in OnStack => stackOf[o] = stack[o]
    /\ kernel[o] \notin OnStack => stackOf[o] = NoStack
    /\ threadBuild = "macos" /\ kernel[o] \in OnStack \ {"entering"} => port[o]

\* What every step keeps.
StackInv == ThreadsTypeOK /\ StacksAreOld /\ ObjectKeepsStack /\ StacksOutliveThreads

\* At first there are no threads and no stacks.
LEMMA ThreadsStart == ThreadsInit => StackInv
<1> SUFFICES ASSUME ThreadsInit PROVE StackInv
  OBVIOUS
<1>1. ThreadsTypeOK /\ StacksAreOld
  BY ThreadsAssumption DEF ThreadsInit, ThreadsTypeOK, StacksAreOld, OnStack, NoStack, NoThread
<1>2. ObjectKeepsStack /\ StacksOutliveThreads
  BY DEF ThreadsInit, ObjectKeepsStack, StacksOutliveThreads, OnStack, NoStack
<1> QED BY <1>1, <1>2 DEF StackInv

\* Every step keeps the types.
LEMMA ThreadsKeepTypes ==
  ASSUME ThreadsTypeOK, ThreadsNext
  PROVE  ThreadsTypeOK'
<1> USE DEF ThreadsTypeOK, given, object, memory, At, OnStack, NoStack, NoThread
<1>1. ASSUME NEW o \in Objects, TakeId(o)
      PROVE  id' \in [Objects -> Nat \cup {NoThread}] /\ nextId' \in Nat
  BY <1>1 DEF TakeId
<1>2. ASSUME NEW o \in Objects, NoStackForIt(o) \/ WindowsRefuses(o) \/ AdoptCurrentThread(o)
      PROVE  ThreadsTypeOK'
  <2>1. CASE NoStackForIt(o) \/ WindowsRefuses(o)
    <3>1. TakeId(o) /\ UNCHANGED <<threadBuild, object, kernel, memory>>
      BY <2>1 DEF NoStackForIt, WindowsRefuses
    <3>2. threadRefusals' \in Nat
      BY <2>1 DEF NoStackForIt, WindowsRefuses
    <3> QED BY <1>1, <3>1, <3>2
  <2>2. CASE AdoptCurrentThread(o)
    BY <1>1, <2>2 DEF AdoptCurrentThread
  <2> QED BY <1>2, <2>1, <2>2
<1>3. ASSUME NEW o \in Objects, NEW suspended \in BOOLEAN,
             AllocateStack(o, suspended) \/ CreateOnWindows(o, suspended)
      PROVE  ThreadsTypeOK'
  <2>1. CASE AllocateStack(o, suspended)
    BY <1>1, <2>1 DEF AllocateStack
  <2>2. CASE CreateOnWindows(o, suspended)
    BY <1>1, <2>2 DEF CreateOnWindows
  <2> QED BY <1>3, <2>1, <2>2
<1>4. ASSUME NEW o \in Objects, CreateKernelThread(o) \/ CreateFails(o) \/ Join(o)
      PROVE  ThreadsTypeOK'
  <2>1. CASE CreateKernelThread(o)
    BY <2>1 DEF CreateKernelThread
  <2>2. CASE CreateFails(o)
    <3>1. threadRefusals' \in Nat
      BY <2>2 DEF CreateFails
    <3>2. /\ stack' \in [Objects -> Nat \cup {NoStack}] /\ stacks' \subseteq Nat
          /\ state' = [state EXCEPT ![o] = "notStarted"] /\ kernel' = [kernel EXCEPT ![o] = "none"]
          /\ UNCHANGED <<given, port, stackOf, nextStack>>
      BY <2>2 DEF CreateFails
    <3> QED BY <3>1, <3>2
  <2>3. CASE Join(o)
    BY <2>3 DEF Join
  <2> QED BY <1>4, <2>1, <2>2, <2>3
<1>5. ASSUME NEW o \in Objects,
             Enter(o) \/ SeeResumed(o) \/ Resume(o) \/ EndRoutine(o) \/ LeaveKernel(o)
      PROVE  ThreadsTypeOK'
  BY <1>5 DEF Enter, SeeResumed, Resume, EndRoutine, LeaveKernel
<1> QED BY <1>2, <1>3, <1>4, <1>5 DEF ThreadsNext

\* A stack that is allocated is a new one, and the object's from then on.
LEMMA AllocateStackKeeps ==
  ASSUME StackInv, NEW o \in Objects, NEW suspended \in BOOLEAN, AllocateStack(o, suspended)
  PROVE  (StacksAreOld /\ ObjectKeepsStack /\ StacksOutliveThreads)'
<1> USE DEF StackInv, ThreadsTypeOK, AllocateStack, TakeId, At, NoStack
<1>1. StacksAreOld'
  BY DEF StacksAreOld
<1>2. kernel[o] = "none" /\ stack[o] = NoStack
  BY DEF ObjectKeepsStack
<1>3. ObjectKeepsStack'
  BY <1>2 DEF ObjectKeepsStack, OnStack
<1>4. StacksOutliveThreads'
  <2>1. \A p \in Objects : stackOf'[p] # NoStack => stackOf'[p] \in stacks'
    BY DEF StacksOutliveThreads
  <2>2. stacks' = {stack'[p] : p \in Objects} \ {NoStack}
    <3>1. \A p \in Objects : p # o => stack'[p] = stack[p]
      OBVIOUS
    <3>2. stack'[o] = nextStack /\ nextStack # NoStack
      OBVIOUS
    <3>3. stacks = {stack[p] : p \in Objects} \ {NoStack}
      BY DEF StacksOutliveThreads
    <3> QED BY <1>2, <3>1, <3>2, <3>3
  <2>3. \A p, q \in Objects : p # q /\ stack'[p] = stack'[q] => stack'[p] = NoStack
    BY DEF StacksOutliveThreads, StacksAreOld
  <2> QED BY <2>1, <2>2, <2>3 DEF StacksOutliveThreads
<1> QED BY <1>1, <1>3, <1>4

\* A stack that is unmapped is one nobody runs on: the creation has failed,
\* or the kernel has done with the thread.
LEMMA GiveStackBackKeeps ==
  ASSUME StackInv, NEW o \in Objects, CreateFails(o) \/ Join(o)
  PROVE  (StacksAreOld /\ ObjectKeepsStack /\ StacksOutliveThreads)'
<1> USE DEF StackInv, ThreadsTypeOK, At, NoStack
<1>1. kernel[o] \notin OnStack
  BY DEF CreateFails, Join, ReturnsFromJoin, OnStack, ObjectKeepsStack
<1>2. /\ stacks' = stacks \ {stack[o]}
      /\ stack' = [stack EXCEPT ![o] = NoStack]
      /\ kernel'[o] \notin OnStack
      /\ state'[o] = "notStarted" => kernel'[o] = "none"
      /\ \A p \in Objects \ {o} : /\ state'[p] = state[p] /\ port'[p] = port[p]
                                  /\ kernel'[p] = kernel[p]
      /\ UNCHANGED <<threadBuild, stackOf, nextStack>>
  BY <1>1 DEF CreateFails, Join, given, OnStack
<1>3. StacksAreOld'
  <2>1. stacks' \in SUBSET Nat /\ nextStack' = nextStack
    BY <1>2
  <2>2. \A other \in stacks' : other < nextStack
    BY <1>2 DEF StacksAreOld
  <2>3. \A p \in Objects : stack'[p] = NoStack \/ stack'[p] = stack[p]
    BY <1>2
  <2>4. \A p \in Objects : stack'[p] < nextStack
    BY <2>3 DEF StacksAreOld
  <2> QED BY <2>1, <2>2, <2>4 DEF StacksAreOld
<1>4. ObjectKeepsStack'
  BY <1>1, <1>2 DEF ObjectKeepsStack
<1>5. StacksOutliveThreads'
  <2>1. \A p \in Objects : stackOf[p] # NoStack => p # o /\ stackOf[p] = stack[p]
    BY <1>1 DEF ObjectKeepsStack
  <2>2. \A p \in Objects : stackOf'[p] # NoStack => stackOf'[p] \in stacks'
    BY <1>2, <2>1 DEF StacksOutliveThreads
  <2>3. stacks' = {stack'[p] : p \in Objects} \ {NoStack}
    <3>1. stacks = {stack[p] : p \in Objects} \ {NoStack}
      BY DEF StacksOutliveThreads
    <3>2. \A p \in Objects \ {o} : stack'[p] = stack[p] /\ (stack[p] = stack[o] => stack[p] = NoStack)
      BY <1>2 DEF StacksOutliveThreads
    <3>3. stack'[o] = NoStack
      BY <1>2
    <3> QED BY <1>2, <3>1, <3>2, <3>3
  <2>4. \A p, q \in Objects : p # q /\ stack'[p] = stack'[q] => stack'[p] = NoStack
    BY <1>2 DEF StacksOutliveThreads
  <2> QED BY <2>2, <2>3, <2>4 DEF StacksOutliveThreads
<1> QED BY <1>3, <1>4, <1>5

\* The other steps map and unmap nothing.
LEMMA OtherStepsKeep ==
  ASSUME StackInv, NEW o \in Objects,
         \/ NoStackForIt(o) \/ WindowsRefuses(o) \/ AdoptCurrentThread(o)
         \/ \E suspended \in BOOLEAN : CreateOnWindows(o, suspended)
         \/ CreateKernelThread(o) \/ Enter(o) \/ SeeResumed(o) \/ Resume(o)
         \/ EndRoutine(o) \/ LeaveKernel(o)
  PROVE  (StacksAreOld /\ ObjectKeepsStack /\ StacksOutliveThreads)'
<1> USE DEF StackInv, ThreadsTypeOK, given, object, memory, At
<1>1. UNCHANGED <<stack, stacks, nextStack>>
  BY DEF NoStackForIt, WindowsRefuses, AdoptCurrentThread, CreateOnWindows, CreateKernelThread, Enter,
         SeeResumed, Resume, EndRoutine, LeaveKernel
<1>2. StacksAreOld'
  BY <1>1 DEF StacksAreOld
<1>3. /\ UNCHANGED threadBuild
      /\ \A p \in Objects \ {o} :
           /\ state'[p] = state[p] /\ port'[p] = port[p] /\ kernel'[p] = kernel[p]
           /\ stackOf'[p] = stackOf[p]
  BY DEF NoStackForIt, WindowsRefuses, AdoptCurrentThread, CreateOnWindows, CreateKernelThread, Enter,
         SeeResumed, Resume, EndRoutine, LeaveKernel, TakeId
<1>4. /\ state'[o] = "notStarted" => kernel'[o] = "none" /\ stack[o] = NoStack
      /\ kernel'[o] \in OnStack => stackOf'[o] = stack[o]
      /\ kernel'[o] \notin OnStack => stackOf'[o] = NoStack
      /\ threadBuild = "macos" /\ kernel'[o] \in OnStack \ {"entering"} => port'[o]
  <2>1. CASE \/ NoStackForIt(o) \/ WindowsRefuses(o) \/ AdoptCurrentThread(o)
             \/ \E suspended \in BOOLEAN : CreateOnWindows(o, suspended)
    BY <2>1 DEF NoStackForIt, WindowsRefuses, AdoptCurrentThread, CreateOnWindows, TakeId,
                ObjectKeepsStack, OnStack, OwnStacks
  <2>2. CASE CreateKernelThread(o) \/ Enter(o) \/ SeeResumed(o) \/ Resume(o)
    BY <2>2 DEF CreateKernelThread, Enter, SeeResumed, Resume, ObjectKeepsStack, OnStack
  <2>3. CASE EndRoutine(o) \/ LeaveKernel(o)
    BY <2>3 DEF EndRoutine, LeaveKernel, ObjectKeepsStack, OnStack
  <2> QED BY <2>1, <2>2, <2>3
<1>5. ObjectKeepsStack'
  BY <1>1, <1>3, <1>4 DEF ObjectKeepsStack
<1>6. StacksOutliveThreads'
  <2>1. \A p \in Objects : stackOf'[p] # NoStack => stackOf'[p] \in stacks
    <3>1. \A p \in Objects : stackOf'[p] # NoStack => stackOf'[p] = stack[p]
      BY <1>1, <1>5 DEF ObjectKeepsStack
    <3> QED BY <3>1 DEF StacksOutliveThreads
  <2> QED BY <1>1, <2>1 DEF StacksOutliveThreads
<1> QED BY <1>2, <1>5, <1>6

\* On each platform, and whichever creations fail: a thread's stack is mapped
\* as long as the kernel's thread runs on it, is nobody else's, and is given
\* back when the object is joined (thread.cpp, thread_stack_allocator.cpp).
THEOREM StacksAreKeptAndGivenBack == ThreadsSpec => []StacksOutliveThreads
<1>1. StackInv /\ [ThreadsNext]_threadVars => StackInv'
  <2> SUFFICES ASSUME StackInv, [ThreadsNext]_threadVars PROVE StackInv'
    OBVIOUS
  <2>1. CASE UNCHANGED threadVars
    BY <2>1 DEF StackInv, ThreadsTypeOK, StacksAreOld, ObjectKeepsStack, StacksOutliveThreads,
                threadVars, given, object, memory
  <2>2. CASE ThreadsNext
    <3>1. ThreadsTypeOK'
      BY <2>2, ThreadsKeepTypes DEF StackInv
    <3>2. (StacksAreOld /\ ObjectKeepsStack /\ StacksOutliveThreads)'
      BY <2>2, AllocateStackKeeps, GiveStackBackKeeps, OtherStepsKeep DEF ThreadsNext
    <3> QED BY <3>1, <3>2 DEF StackInv
  <2> QED BY <2>1, <2>2
<1>2. StackInv => StacksOutliveThreads
  BY DEF StackInv
<1> QED BY ThreadsStart, <1>1, <1>2, PTL DEF ThreadsSpec
-----------------------------------------------------------------------------
(* Sums, of a function over a finite set.                                  *)

\* The least of a set of naturals, by which lemmas are proved step by step.
LEMMA LeastNatural ==
  ASSUME NEW S \in SUBSET Nat, S # {}
  PROVE  \E n \in S : \A m \in S : n <= m
<1>1. PICK n \in S : \A m \in S : ~ (<<m, n>> \in OpToRel(<, Nat))
  BY NatLessThanWellFounded, WFMin
<1>2. ASSUME NEW m \in S PROVE n <= m
  <2>1. m \in Nat /\ n \in Nat /\ ~ (m < n)
    BY <1>1 DEF OpToRel
  <2> QED BY <2>1
<1> QED BY <1>2

\* A smallest one of some subsets of a finite set.
LEMMA SmallestSet ==
  ASSUME NEW S, IsFiniteSet(S), NEW F \in SUBSET SUBSET S, F # {}
  PROVE  \E T \in F : \A U \in F : U \subseteq T => U = T
<1>1. FiniteSubsetsOf(S) = SUBSET S
  BY FS_FiniteSubsetsOfFinite
<1>2. PICK T \in F : \A U \in F : ~ (<<U, T>> \in StrictSubsetOrdering(S))
  <2>1. IsWellFoundedOn(StrictSubsetOrdering(S), SUBSET S)
    BY <1>1, FS_StrictSubsetOrderingWellFounded
  <2> QED BY <2>1, WFMin
<1> QED BY <1>2 DEF StrictSubsetOrdering

\* The element the folds take out of a set first.
Some(s) == CHOOSE x \in s : TRUE

\* iter is the sum of f over each set in S, as the folds work it out.
Folded(iter, f, S) ==
  iter = [s \in S |-> IF s = {} THEN 0 ELSE f[Some(s)] + iter[s \ {Some(s)}]]

\* A sum is the one over the whole set, if there is a sum over each subset.
LEMMA SumIsFold ==
  ASSUME NEW f, NEW S
  PROVE  \E iter : /\ (\E it : Folded(it, f, SUBSET S)) => Folded(iter, f, SUBSET S)
                   /\ SumFunctionOnSet(f, S) = iter[S]
<1> DEFINE iter == CHOOSE iter : Folded(iter, f, SUBSET S)
<1>1. SumFunctionOnSet(f, S) = iter[S]
  BY DEF SumFunctionOnSet, FoldFunctionOnSet, MapThenFoldSet, Folded, Some
<1>2. (\E it : Folded(it, f, SUBSET S)) => Folded(iter, f, SUBSET S)
  OBVIOUS
<1> QED BY <1>1, <1>2

\* There is such a sum.
LEMMA FoldExists ==
  ASSUME NEW f, NEW S, IsFiniteSet(S)
  PROVE  \E iter : Folded(iter, f, SUBSET S)
<1> DEFINE Small(n) == {T \in SUBSET S : Cardinality(T) <= n}
           Follow(it, s) == IF s = {} THEN 0 ELSE f[Some(s)] + it[s \ {Some(s)}]
           B == {n \in Nat : \A it : ~Folded(it, f, Small(n))}
<1>1. \A T \in SUBSET S : IsFiniteSet(T) /\ Cardinality(T) \in Nat
  BY FS_Subset, FS_CardinalityType
<1>2. B = {}
  <2>1. SUFFICES ASSUME B # {} PROVE FALSE
    OBVIOUS
  <2>2. PICK n \in B : \A m \in B : n <= m
    BY <2>1, LeastNatural
  <2>3. n \in Nat /\ \A it : ~Folded(it, f, Small(n))
    OBVIOUS
  <2>4. n # 0
    <3>1. SUFFICES ASSUME n = 0 PROVE FALSE
      OBVIOUS
    <3>2. \A T \in Small(n) : T = {}
      BY <1>1, <3>1, FS_EmptySet
    <3> DEFINE it == [T \in Small(n) |-> 0]
    <3>3. Folded(it, f, Small(n))
      BY <3>2 DEF Folded
    <3> QED BY <2>3, <3>3
  <2>5. n - 1 \in Nat /\ n - 1 \notin B
    <3> HIDE DEF B
    <3> QED BY <2>2, <2>3, <2>4
  <2>6. PICK before : Folded(before, f, Small(n - 1))
    BY <2>5
  <2> DEFINE it == [s \in Small(n) |-> Follow(before, s)]
  <2>7. ASSUME NEW s \in Small(n - 1) PROVE before[s] = it[s]
    <3>1. s \in Small(n)
      BY <1>1, <2>3
    <3> QED BY <2>6, <3>1 DEF Folded
  <2>8. ASSUME NEW s \in Small(n) PROVE it[s] = Follow(it, s)
    <3>1. CASE s # {}
      <4> DEFINE r == s \ {Some(s)}
      <4>1. Some(s) \in s
        BY <3>1 DEF Some
      <4>2. r \in SUBSET S /\ Cardinality(r) = Cardinality(s) - 1
        BY <1>1, <4>1, FS_RemoveElement
      <4>3. r \in Small(n - 1)
        BY <1>1, <2>3, <4>2
      <4> HIDE DEF r
      <4>4. before[r] = it[r]
        BY <2>7, <4>3
      <4> QED BY <4>4 DEF r
    <3> QED BY <3>1
  <2>9. Folded(it, f, Small(n))
    BY <2>8 DEF Folded
  <2> QED BY <2>3, <2>9
<1>3. Cardinality(S) \in Nat /\ SUBSET S = Small(Cardinality(S))
  BY <1>1, FS_Subset
<1>4. \E it : Folded(it, f, Small(Cardinality(S)))
  <2> HIDE DEF Small
  <2> QED BY <1>2, <1>3
<1>5. \A it : Folded(it, f, Small(Cardinality(S))) => Folded(it, f, SUBSET S)
  <2> HIDE DEF Small
  <2> QED BY <1>3
<1> QED BY <1>4, <1>5

\* A sum over a set is that of any fold on its subsets.
LEMMA FoldsAgree ==
  ASSUME NEW f, NEW S, NEW T, NEW one, NEW two, IsFiniteSet(S), T \subseteq S,
         Folded(one, f, SUBSET S), Folded(two, f, SUBSET T)
  PROVE  one[T] = two[T]
<1> DEFINE F == {U \in SUBSET T : one[U] # two[U]}
<1>1. SUFFICES ASSUME F # {} PROVE FALSE
  BY DEF F
<1>2. IsFiniteSet(T)
  BY FS_Subset
<1>3. PICK U \in F : \A V \in F : V \subseteq U => V = U
  <2>1. F \in SUBSET SUBSET T
    OBVIOUS
  <2> HIDE DEF F
  <2> QED BY <1>1, <1>2, <2>1, SmallestSet
<1>4. U \in SUBSET T /\ U \in SUBSET S /\ one[U] # two[U]
  OBVIOUS
<1>5. U # {}
  BY <1>4 DEF Folded
<1> DEFINE r == U \ {Some(U)}
<1>6. Some(U) \in U
  BY <1>5 DEF Some
<1>7. one[r] = two[r]
  BY <1>3, <1>4, <1>6
<1>8. one[U] = f[Some(U)] + one[r] /\ two[U] = f[Some(U)] + two[r]
  BY <1>4, <1>5 DEF Folded
<1> QED BY <1>4, <1>7, <1>8

\* How a sum is worked out.
LEMMA SumUnfolds ==
  ASSUME NEW f, NEW S, IsFiniteSet(S)
  PROVE  SumFunctionOnSet(f, S) =
           IF S = {} THEN 0 ELSE f[Some(S)] + SumFunctionOnSet(f, S \ {Some(S)})
<1> DEFINE r == S \ {Some(S)}
<1>1. IsFiniteSet(r) /\ r \in SUBSET S
  BY FS_Subset
<1> HIDE DEF r
<1>2. PICK one : Folded(one, f, SUBSET S) /\ SumFunctionOnSet(f, S) = one[S]
  BY FoldExists, SumIsFold
<1>3. PICK two : Folded(two, f, SUBSET r) /\ SumFunctionOnSet(f, r) = two[r]
  BY <1>1, FoldExists, SumIsFold
<1>4. one[r] = two[r]
  <2>1. Folded(one, f, SUBSET S) /\ Folded(two, f, SUBSET r) /\ r \subseteq S
    BY <1>1, <1>2, <1>3
  <2> QED BY <2>1, FoldsAgree, Zenon
<1>5. one[S] = IF S = {} THEN 0 ELSE f[Some(S)] + one[r]
  BY <1>2 DEF Folded, r
<1> QED BY <1>2, <1>3, <1>4, <1>5 DEF r

\* A sum of naturals is one.
LEMMA SumIsNatural ==
  ASSUME NEW f, NEW S, IsFiniteSet(S), \A x \in S : f[x] \in Nat
  PROVE  SumFunctionOnSet(f, S) \in Nat
<1> DEFINE F == {U \in SUBSET S : SumFunctionOnSet(f, U) \notin Nat}
<1>1. SUFFICES ASSUME F # {} PROVE FALSE
  BY DEF F
<1>2. PICK U \in F : \A V \in F : V \subseteq U => V = U
  <2>1. F \in SUBSET SUBSET S
    OBVIOUS
  <2> HIDE DEF F
  <2> QED BY <1>1, <2>1, SmallestSet
<1>3. U \in SUBSET S /\ IsFiniteSet(U) /\ SumFunctionOnSet(f, U) \notin Nat
  BY FS_Subset
<1>4. SumFunctionOnSet(f, U) = IF U = {} THEN 0 ELSE f[Some(U)] + SumFunctionOnSet(f, U \ {Some(U)})
  BY <1>3, SumUnfolds
<1>5. U # {} 
  BY <1>3, <1>4
<1>6. Some(U) \in U
  BY <1>5 DEF Some
<1>7. SumFunctionOnSet(f, U \ {Some(U)}) \in Nat
  BY <1>2, <1>3, <1>6
<1> QED BY <1>3, <1>4, <1>5, <1>6, <1>7

\* Any element may be taken out of a sum.
LEMMA SumTakesOut ==
  ASSUME NEW f, NEW S, IsFiniteSet(S), \A x \in S : f[x] \in Nat, NEW y \in S
  PROVE  SumFunctionOnSet(f, S) = f[y] + SumFunctionOnSet(f, S \ {y})
<1> DEFINE Out(U, x) == SumFunctionOnSet(f, U) = f[x] + SumFunctionOnSet(f, U \ {x})
           F == {U \in SUBSET S : \E x \in U : ~Out(U, x)}
<1>1. SUFFICES ASSUME F # {} PROVE FALSE
  BY DEF F
<1>2. PICK U \in F : \A V \in F : V \subseteq U => V = U
  <2>1. F \in SUBSET SUBSET S
    OBVIOUS
  <2> HIDE DEF F
  <2> QED BY <1>1, <2>1, SmallestSet
<1>3. PICK x \in U : ~Out(U, x)
  OBVIOUS
<1>4. U \in SUBSET S /\ IsFiniteSet(U)
  BY FS_Subset
<1> DEFINE z == Some(U)
<1>5. z \in U /\ Out(U, z)
  BY <1>3, <1>4, SumUnfolds DEF Some
<1>6. z # x
  BY <1>3, <1>5
<1>7. Out(U \ {x}, z) /\ Out(U \ {z}, x)
  <2>1. \A V \in SUBSET U : V # U => \A v \in V : Out(V, v)
    BY <1>2, <1>4
  <2>2. U \ {x} \in SUBSET U /\ U \ {z} \in SUBSET U /\ U \ {x} # U /\ U \ {z} # U
    BY <1>3, <1>5
  <2> HIDE DEF Out, z
  <2> QED BY <1>3, <1>5, <1>6, <2>1, <2>2
<1>8. (U \ {x}) \ {z} = (U \ {z}) \ {x}
  OBVIOUS
<1>9. SumFunctionOnSet(f, (U \ {z}) \ {x}) \in Nat /\ f[x] \in Nat /\ f[z] \in Nat
  <2>1. IsFiniteSet((U \ {z}) \ {x}) /\ \A u \in (U \ {z}) \ {x} : f[u] \in Nat
    BY <1>4, FS_Subset
  <2> QED BY <1>4, <1>5, <2>1, SumIsNatural
<1> DEFINE rest == SumFunctionOnSet(f, (U \ {z}) \ {x})
           a == SumFunctionOnSet(f, U \ {x})
           b == SumFunctionOnSet(f, U \ {z})
<1>10. /\ SumFunctionOnSet(f, U) = f[z] + b /\ b = f[x] + rest /\ a = f[z] + rest
       /\ SumFunctionOnSet(f, U) # f[x] + a
  BY <1>3, <1>5, <1>7, <1>8
<1>11. rest \in Nat /\ f[x] \in Nat /\ f[z] \in Nat
  BY <1>9
<1> HIDE DEF z, rest, a, b
<1> QED BY <1>10, <1>11

\* Two sums of the same numbers are the same.
LEMMA SumsAgree ==
  ASSUME NEW f, NEW g, NEW S, IsFiniteSet(S), \A x \in S : f[x] = g[x]
  PROVE  SumFunctionOnSet(f, S) = SumFunctionOnSet(g, S)
<1> DEFINE F == {U \in SUBSET S : SumFunctionOnSet(f, U) # SumFunctionOnSet(g, U)}
<1>1. SUFFICES ASSUME F # {} PROVE FALSE
  BY DEF F
<1>2. PICK U \in F : \A V \in F : V \subseteq U => V = U
  <2>1. F \in SUBSET SUBSET S
    OBVIOUS
  <2> HIDE DEF F
  <2> QED BY <1>1, <2>1, SmallestSet
<1>3. U \in SUBSET S /\ IsFiniteSet(U) /\ SumFunctionOnSet(f, U) # SumFunctionOnSet(g, U)
  BY FS_Subset
<1>4. /\ SumFunctionOnSet(f, U) = IF U = {} THEN 0 ELSE f[Some(U)] + SumFunctionOnSet(f, U \ {Some(U)})
      /\ SumFunctionOnSet(g, U) = IF U = {} THEN 0 ELSE g[Some(U)] + SumFunctionOnSet(g, U \ {Some(U)})
  BY <1>3, SumUnfolds
<1>5. U # {}
  BY <1>3, <1>4
<1>6. Some(U) \in U
  BY <1>5 DEF Some
<1>7. SumFunctionOnSet(f, U \ {Some(U)}) = SumFunctionOnSet(g, U \ {Some(U)})
  BY <1>2, <1>3, <1>6
<1>8. f[Some(U)] = g[Some(U)]
  BY <1>3, <1>6
<1> QED BY <1>3, <1>4, <1>5, <1>7, <1>8

\* When one number changes, so does the sum.
LEMMA SumChanges ==
  ASSUME NEW f, NEW g, NEW S, IsFiniteSet(S), NEW y \in S,
         \A x \in S : f[x] \in Nat, \A x \in S : g[x] \in Nat, \A x \in S \ {y} : f[x] = g[x]
  PROVE  SumFunctionOnSet(g, S) = SumFunctionOnSet(f, S) + g[y] - f[y]
<1> DEFINE rest == S \ {y}
<1>1. IsFiniteSet(rest) /\ rest \in SUBSET S
  BY FS_Subset
<1>2. /\ SumFunctionOnSet(f, S) = f[y] + SumFunctionOnSet(f, rest)
      /\ SumFunctionOnSet(g, S) = g[y] + SumFunctionOnSet(g, rest)
  BY SumTakesOut
<1>3. SumFunctionOnSet(f, rest) = SumFunctionOnSet(g, rest)
  BY <1>1, SumsAgree
<1>4. SumFunctionOnSet(f, rest) \in Nat
  BY <1>1, SumIsNatural
<1> HIDE DEF rest
<1> QED BY <1>2, <1>3, <1>4

\* When some numbers become zero, the sum goes down by theirs.
LEMMA SumDrops ==
  ASSUME NEW f, NEW g, NEW S, IsFiniteSet(S), NEW T \in SUBSET S,
         \A x \in S : f[x] \in Nat, \A x \in T : g[x] = 0, \A x \in S \ T : f[x] = g[x]
  PROVE  SumFunctionOnSet(g, S) = SumFunctionOnSet(f, S) - SumFunctionOnSet(f, T)
<1> DEFINE Drops(U) == SumFunctionOnSet(g, U) = SumFunctionOnSet(f, U) - SumFunctionOnSet(f, U \cap T)
           F == {U \in SUBSET S : ~Drops(U)}
<1>0. S \cap T = T
  OBVIOUS
<1>1. SUFFICES ASSUME F # {} PROVE FALSE
  <2>1. Drops(S) => SumFunctionOnSet(g, S) = SumFunctionOnSet(f, S) - SumFunctionOnSet(f, T)
    BY <1>0
  <2> HIDE DEF Drops
  <2> QED BY <2>1
<1>2. PICK U \in F : \A V \in F : V \subseteq U => V = U
  <2>1. F \in SUBSET SUBSET S
    OBVIOUS
  <2> HIDE DEF F
  <2> QED BY <1>1, <2>1, SmallestSet
<1>3. U \in SUBSET S /\ IsFiniteSet(U) /\ IsFiniteSet(U \cap T) /\ ~Drops(U)
  BY FS_Subset
<1>4. U # {}
  <2>1. SUFFICES ASSUME U = {} PROVE FALSE
    OBVIOUS
  <2>2. U \cap T = {}
    BY <2>1
  <2>3. SumFunctionOnSet(g, {}) = 0 /\ SumFunctionOnSet(f, {}) = 0
    BY SumUnfolds, FS_EmptySet
  <2> QED BY <1>3, <2>1, <2>2, <2>3
<1>5. PICK x \in U : TRUE
  BY <1>4
<1> DEFINE V == U \ {x}
<1>6. IsFiniteSet(V) /\ IsFiniteSet(V \cap T) /\ V \in SUBSET S /\ V \subseteq U /\ V # U
  BY <1>3, <1>5, FS_Subset
<1>7. Drops(V)
  BY <1>2, <1>6
<1>8. /\ SumFunctionOnSet(f, U) = f[x] + SumFunctionOnSet(f, V)
      /\ SumFunctionOnSet(g, U) = g[x] + SumFunctionOnSet(g, V)
  <2>1. \A u \in U : f[u] \in Nat /\ g[u] \in Nat
    BY <1>3
  <2> QED BY <1>3, <2>1, SumTakesOut
<1>9. SumFunctionOnSet(f, V) \in Nat /\ SumFunctionOnSet(f, V \cap T) \in Nat /\ f[x] \in Nat
  <2>1. \A u \in V : f[u] \in Nat
    BY <1>6
  <2> QED BY <1>3, <1>6, <2>1, SumIsNatural
<1>10. CASE x \in T
  <2>1. x \in U \cap T /\ (U \cap T) \ {x} = V \cap T /\ \A u \in U \cap T : f[u] \in Nat
    BY <1>3, <1>10
  <2>2. SumFunctionOnSet(f, U \cap T) = f[x] + SumFunctionOnSet(f, V \cap T)
    BY <1>3, <2>1, SumTakesOut
  <2>3. g[x] = 0
    BY <1>10
  <2> HIDE DEF V
  <2> QED BY <1>3, <1>7, <1>8, <1>9, <2>2, <2>3
<1>11. CASE x \notin T
  <2>1. U \cap T = V \cap T /\ f[x] = g[x]
    BY <1>3, <1>11
  <2> HIDE DEF V
  <2> QED BY <1>3, <1>7, <1>8, <1>9, <2>1
<1> QED BY <1>10, <1>11

\* Where there is nothing, the sum is zero.
LEMMA SumOfZeros ==
  ASSUME NEW f, NEW S, IsFiniteSet(S), \A x \in S : f[x] = 0
  PROVE  SumFunctionOnSet(f, S) = 0
<1>1. SumFunctionOnSet(f, S) = SumFunctionOnSet(f, S) - SumFunctionOnSet(f, S)
  BY SumDrops
<1>2. SumFunctionOnSet(f, S) \in Nat
  BY SumIsNatural
<1> QED BY <1>1, <1>2

-----------------------------------------------------------------------------
(* The scan of the bitmap.                                                 *)

\* What the scan finds at a bit, with so many bits of a run behind it.
ScanAt(scan, wanted, bitCount, count, i, behind) ==
  IF i >= bitCount THEN None
  ELSE IF i % BitsPerWord = 0 /\ i..((i + BitsPerWord) - 1) \cap wanted = {}
       THEN scan[i + BitsPerWord][0]
  ELSE IF i \notin wanted THEN scan[i + 1][0]
  ELSE IF behind + 1 = count THEN i + 1 - count
  ELSE scan[i + 1][behind + 1]

\* The scan of the bits in D, which goes from one bit to later ones.
Scanned(scan, wanted, bitCount, count, D) ==
  scan = [i \in D |-> [behind \in 0..count |-> ScanAt(scan, wanted, bitCount, count, i, behind)]]

\* There is such a scan.
LEMMA ScanExists ==
  ASSUME NEW wanted, NEW bitCount \in Nat, NEW count \in Nat
  PROVE  \E scan : Scanned(scan, wanted, bitCount, count, 0..(bitCount + BitsPerWord))
<1> DEFINE top == bitCount + BitsPerWord
           From(n) == (top - n)..top
           Found(scan, n) == Scanned(scan, wanted, bitCount, count, From(n))
           B == {n \in 0..top : \A scan : ~Found(scan, n)}
<1>1. BitsPerWord \in Nat \ {0} /\ top \in Nat /\ bitCount < top /\ From(top) = 0..top
  BY SegmentAllocatorAssumption
<1>2. B = {}
  <2>1. SUFFICES ASSUME B # {} PROVE FALSE
    OBVIOUS
  <2>2. PICK n \in B : \A m \in B : n <= m
    <3>1. B \in SUBSET Nat
      BY <1>1
    <3> HIDE DEF B
    <3> QED BY <2>1, <3>1, LeastNatural
  <2>3. n \in 0..top /\ \A scan : ~Found(scan, n)
    OBVIOUS
  <2>4. n # 0
    <3>1. SUFFICES ASSUME n = 0 PROVE FALSE
      OBVIOUS
    <3> DEFINE scan == [i \in From(n) |-> [behind \in 0..count |-> None]]
    <3>2. \A i \in From(n) : i >= bitCount
      BY <1>1, <3>1
    <3>3. Found(scan, n)
      BY <3>2 DEF Scanned, ScanAt
    <3> QED BY <2>3, <3>3
  <2>5. n - 1 \in 0..top /\ n - 1 \notin B
    <3>1. n - 1 \in 0..top /\ ~(n <= n - 1)
      BY <1>1, <2>3, <2>4
    <3> HIDE DEF B
    <3> QED BY <2>2, <3>1
  <2>6. PICK before : Found(before, n - 1)
    BY <2>5
  <2> DEFINE scan == [i \in From(n) |-> [behind \in 0..count |->
                        ScanAt(before, wanted, bitCount, count, i, behind)]]
  <2>7. ASSUME NEW i \in From(n - 1) PROVE before[i] = scan[i]
    <3>1. i \in From(n)
      BY <1>1, <2>3
    <3> QED BY <2>6, <3>1 DEF Scanned
  <2>8. ASSUME NEW i \in From(n), NEW behind \in 0..count
        PROVE  ScanAt(before, wanted, bitCount, count, i, behind) = ScanAt(scan, wanted, bitCount, count, i, behind)
    <3>1. CASE i >= bitCount
      BY <3>1 DEF ScanAt
    <3>2. CASE i < bitCount
      <4>1. i + 1 \in From(n - 1) /\ i + BitsPerWord \in From(n - 1) /\ ~(i >= bitCount)
        BY <1>1, <2>3, <2>4, <3>2
      <4>2. before[i + 1] = scan[i + 1] /\ before[i + BitsPerWord] = scan[i + BitsPerWord]
        BY <2>7, <4>1
      <4> HIDE DEF scan, From
      <4> QED BY <4>1, <4>2 DEF ScanAt
    <3> QED BY <1>1, <2>3, <3>1, <3>2
  <2>9. Found(scan, n)
    BY <2>8 DEF Scanned
  <2> QED BY <2>3, <2>9
<1>3. \E scan : Found(scan, top)
  <2>1. top \in 0..top
    BY <1>1
  <2> HIDE DEF Found, top
  <2> QED BY <1>2, <2>1
<1> QED BY <1>1, <1>3

\* A run of count bits from i on is wanted.
Fits(wanted, bitCount, count, i) == i \in 0..(bitCount - count) /\ i..(i + count - 1) \subseteq wanted

\* r is the first of those from k on, or there is none.
IsFirst(r, wanted, bitCount, count, k) ==
  \/ r = None /\ \A i \in 0..(bitCount - count) : i >= k => ~Fits(wanted, bitCount, count, i)
  \/ /\ r >= k /\ Fits(wanted, bitCount, count, r)
     /\ \A i \in 0..(bitCount - count) : i >= k /\ Fits(wanted, bitCount, count, i) => r <= i

\* With so many bits of a run behind bit i, the scan finds the first that fits.
LEMMA ScanFindsFirst ==
  ASSUME NEW wanted, NEW bitCount \in Nat, NEW count \in Nat, 0 < count, count <= bitCount,
         NEW scan, Scanned(scan, wanted, bitCount, count, 0..(bitCount + BitsPerWord))
  PROVE  IsFirst(scan[0][0], wanted, bitCount, count, 0)
<1> DEFINE top == bitCount + BitsPerWord
           First(i, behind) ==
             behind <= i /\ (i - behind)..(i - 1) \subseteq wanted
               => IsFirst(scan[i][behind], wanted, bitCount, count, i - behind)
           B == {n \in 0..top : \E behind \in 0..(count - 1) : ~First(top - n, behind)}
<1>1. BitsPerWord \in Nat \ {0} /\ top \in Nat /\ bitCount < top
  BY SegmentAllocatorAssumption
<1>2. B = {}
  <2>1. SUFFICES ASSUME B # {} PROVE FALSE
    OBVIOUS
  <2>2. PICK n \in B : \A m \in B : n <= m
    <3>1. B \in SUBSET Nat
      BY <1>1
    <3> HIDE DEF B
    <3> QED BY <2>1, <3>1, LeastNatural
  <2>3. PICK behind \in 0..(count - 1) : ~First(top - n, behind)
    OBVIOUS
  <2> DEFINE i == top - n
  <2>4. i \in 0..top /\ behind \in Nat /\ behind \in 0..count
    BY <1>1
  <2>0. n \in 0..top
    OBVIOUS
  <2>5. ASSUME NEW j \in 0..top, i < j, NEW l \in 0..(count - 1) PROVE First(j, l)
    <3>1. top - j \in 0..top /\ ~(n <= top - j) /\ top - (top - j) = j
      <4> HIDE DEF First, B
      <4>1. j \in 0..top /\ top - n < j
        BY <2>5
      <4> HIDE DEF top
      <4> QED BY <1>1, <2>0, <4>1
    <3>2. top - j \notin B
      <4> HIDE DEF B
      <4> QED BY <2>2, <3>1
    <3> HIDE DEF First
    <3> QED BY <3>1, <3>2
  <2>6. /\ behind <= i /\ (i - behind)..(i - 1) \subseteq wanted
        /\ ~IsFirst(scan[i][behind], wanted, bitCount, count, i - behind)
    BY <2>3
  <2>7. scan[i][behind] = ScanAt(scan, wanted, bitCount, count, i, behind)
    <3>1. scan[i] = [l \in 0..count |-> ScanAt(scan, wanted, bitCount, count, i, l)]
      <4> HIDE DEF i, B
      <4> QED BY <2>4 DEF Scanned
    <3> HIDE DEF i, B
    <3> QED BY <2>4, <3>1
  <2> HIDE DEF i, B, top
  <2>8. i < bitCount
    <3>1. SUFFICES ASSUME i >= bitCount PROVE FALSE
      BY <1>1, <2>4
    <3>2. scan[i][behind] = None
      BY <2>7, <3>1 DEF ScanAt
    <3>3. \A k \in 0..(bitCount - count) : ~(k >= i - behind)
      BY <1>1, <2>4, <3>1
    <3> QED BY <2>6, <3>2, <3>3 DEF IsFirst
  <2>9. i + 1 \in 0..top /\ i + BitsPerWord \in 0..top /\ i < i + 1 /\ i < i + BitsPerWord
    BY <1>1, <2>4, <2>8 DEF top
  \* No run over a bit that is not wanted fits: the scan goes on behind it.
  <2>10. ASSUME NEW j \in Nat, i < j, j \in 0..top, scan[i][behind] = scan[j][0], \A k \in i..(j - 1) : k \notin wanted
         PROVE  FALSE
    <3>1. IsFirst(scan[j][0], wanted, bitCount, count, j)
      <4>1. First(j, 0)
        BY <2>5, <2>10
      <4>2. j - 0 = j /\ (j - 0)..(j - 1) \subseteq wanted /\ 0 <= j
        BY <2>10
      <4> QED BY <4>1, <4>2
    <3>2. ASSUME NEW k \in 0..(bitCount - count), k >= i - behind, k < j PROVE ~Fits(wanted, bitCount, count, k)
      <4>1. CASE k <= i
        <5>1. i \in k..(k + count - 1) /\ i \in i..(j - 1)
          BY <1>1, <2>4, <2>10, <3>2, <4>1
        <5> QED BY <2>10, <5>1 DEF Fits
      <4>2. CASE k > i
        <5>1. k \in k..(k + count - 1) /\ k \in i..(j - 1)
          BY <1>1, <2>4, <2>10, <3>2, <4>2
        <5> QED BY <2>10, <5>1 DEF Fits
      <4> QED BY <1>1, <2>4, <3>2, <4>1, <4>2
    <3>3. \A k \in 0..(bitCount - count) : k >= i - behind /\ Fits(wanted, bitCount, count, k) => k >= j
      BY <2>10, <3>2
    <3>4. j >= i - behind
      BY <2>4, <2>10
    <3>5. IsFirst(scan[j][0], wanted, bitCount, count, i - behind)
      <4>1. CASE scan[j][0] = None /\ \A k \in 0..(bitCount - count) : k >= j => ~Fits(wanted, bitCount, count, k)
        BY <3>3, <4>1 DEF IsFirst
      <4>2. ASSUME scan[j][0] >= j, Fits(wanted, bitCount, count, scan[j][0]),
                   \A k \in 0..(bitCount - count) : k >= j /\ Fits(wanted, bitCount, count, k) => scan[j][0] <= k
            PROVE  IsFirst(scan[j][0], wanted, bitCount, count, i - behind)
        <5>1. scan[j][0] \in Nat
          BY <4>2 DEF Fits
        <5>2. scan[j][0] >= i - behind
          BY <2>4, <2>10, <4>2, <5>1
        <5> QED BY <3>3, <4>2, <5>2 DEF IsFirst
      <4> QED BY <3>1, <4>1, <4>2 DEF IsFirst
    <3> QED BY <2>6, <2>10, <3>5
  <2>11. i \in wanted
    <3>1. SUFFICES ASSUME i \notin wanted PROVE FALSE
      OBVIOUS
    <3>2. CASE i % BitsPerWord = 0 /\ i..((i + BitsPerWord) - 1) \cap wanted = {}
      <4>1. scan[i][behind] = scan[i + BitsPerWord][0]
        BY <2>4, <2>7, <2>8, <3>2 DEF ScanAt
      <4>2. \A k \in i..((i + BitsPerWord) - 1) : k \notin wanted
        BY <3>2
      <4>3. i + BitsPerWord \in Nat
        BY <1>1, <2>4
      <4> QED BY <2>9, <2>10, <4>1, <4>2, <4>3
    <3>3. CASE ~(i % BitsPerWord = 0 /\ i..((i + BitsPerWord) - 1) \cap wanted = {})
      <4>1. scan[i][behind] = scan[i + 1][0]
        BY <2>4, <2>7, <2>8, <3>1, <3>3 DEF ScanAt
      <4>2. \A k \in i..((i + 1) - 1) : k \notin wanted
        BY <2>4, <3>1
      <4>3. i + 1 \in Nat
        BY <2>4
      <4> QED BY <2>9, <2>10, <4>1, <4>2, <4>3
    <3> QED BY <3>2, <3>3
  <2>12. i \in i..((i + BitsPerWord) - 1)
    BY <1>1, <2>4
  <2>13. CASE behind + 1 = count
    <3>1. scan[i][behind] = i - behind
      BY <2>4, <2>7, <2>8, <2>11, <2>12, <2>13 DEF ScanAt
    <3>2. i - behind \in 0..(bitCount - count)
      BY <2>4, <2>6, <2>8, <2>13
    <3>3. (i - behind)..((i - behind) + count - 1) \subseteq wanted
      <4>1. \A k \in (i - behind)..((i - behind) + count - 1) : k = i \/ k \in (i - behind)..(i - 1)
        BY <2>4, <2>13
      <4> QED BY <2>6, <2>11, <4>1
    <3> QED BY <2>6, <3>1, <3>2, <3>3 DEF IsFirst, Fits
  <2>14. CASE behind + 1 # count
    <3>1. scan[i][behind] = scan[i + 1][behind + 1]
      BY <2>4, <2>7, <2>8, <2>11, <2>12, <2>14 DEF ScanAt
    <3>2. First(i + 1, behind + 1)
      <4>1. behind + 1 \in 0..(count - 1)
        BY <2>4, <2>14
      <4> HIDE DEF First
      <4> QED BY <2>5, <2>9, <4>1
    <3>3. /\ (i + 1) - (behind + 1) = i - behind /\ behind + 1 <= i + 1
          /\ \A k \in (i - behind)..((i + 1) - 1) : k = i \/ k \in (i - behind)..(i - 1)
      BY <2>4, <2>6
    <3>4. ((i + 1) - (behind + 1))..((i + 1) - 1) \subseteq wanted
      BY <2>6, <2>11, <3>3
    <3> QED BY <2>6, <3>1, <3>2, <3>3, <3>4
  <2> QED BY <2>13, <2>14
<1>3. First(0, 0)
  <2>1. top \in 0..top /\ top - top = 0 /\ 0 \in 0..(count - 1)
    BY <1>1
  <2> HIDE DEF First, top
  <2> QED BY <1>2, <2>1
<1>4. 0..(0 - 1) \subseteq wanted /\ 0 - 0 = 0
  OBVIOUS
<1> QED BY <1>3, <1>4

\* The scan finds the first run that fits.
LEMMA ScanIsFirstFitFor ==
  ASSUME NEW wanted, NEW bitCount \in Nat, NEW count \in Nat
  PROVE  ScanForRun(wanted, bitCount, count) = FirstFit(wanted, bitCount, count)
<1> DEFINE scan == CHOOSE scan : Scanned(scan, wanted, bitCount, count, 0..(bitCount + BitsPerWord))
           fits == {i \in 0..(bitCount - count) : i..(i + count - 1) \subseteq wanted}
<1>1. ScanForRun(wanted, bitCount, count) = IF count = 0 \/ count > bitCount THEN None ELSE scan[0][0]
  BY DEF ScanForRun, Scanned, ScanAt
<1>2. Scanned(scan, wanted, bitCount, count, 0..(bitCount + BitsPerWord))
  BY ScanExists
<1> HIDE DEF scan
<1>3. FirstFit(wanted, bitCount, count) =
        IF count = 0 \/ fits = {} THEN None ELSE CHOOSE i \in fits : \A k \in fits : i <= k
  BY DEF FirstFit
<1>4. CASE count = 0 \/ count > bitCount
  <2>1. count > bitCount => fits = {}
    OBVIOUS
  <2> QED BY <1>1, <1>3, <1>4, <2>1
<1>5. CASE ~(count = 0 \/ count > bitCount)
  <2>1. IsFirst(scan[0][0], wanted, bitCount, count, 0)
    BY <1>2, <1>5, ScanFindsFirst
  <2>2. CASE scan[0][0] = None /\ \A i \in 0..(bitCount - count) : i >= 0 => ~Fits(wanted, bitCount, count, i)
    <3>1. ASSUME NEW i \in 0..(bitCount - count) PROVE ~(i..(i + count - 1) \subseteq wanted)
      <4>1. i >= 0
        BY <3>1
      <4> QED BY <2>2, <4>1 DEF Fits
    <3> QED BY <1>1, <1>3, <1>5, <2>2, <3>1
  <2>3. ASSUME Fits(wanted, bitCount, count, scan[0][0]),
               \A i \in 0..(bitCount - count) : i >= 0 /\ Fits(wanted, bitCount, count, i) => scan[0][0] <= i
        PROVE  ScanForRun(wanted, bitCount, count) = FirstFit(wanted, bitCount, count)
    <3>1. scan[0][0] \in fits /\ \A k \in fits : scan[0][0] <= k
      BY <2>3 DEF Fits
    <3>2. \A i \in fits : (\A k \in fits : i <= k) => i = scan[0][0]
      <4>1. fits \subseteq Int
        OBVIOUS
      <4>2. ASSUME NEW i \in fits, \A k \in fits : i <= k PROVE i = scan[0][0]
        <5>1. i <= scan[0][0] /\ scan[0][0] <= i /\ i \in Int /\ scan[0][0] \in Int
          <6> HIDE DEF fits
          <6> QED BY <3>1, <4>1, <4>2
        <5> QED BY <5>1
      <4> HIDE DEF fits
      <4> QED BY <4>2
    <3> HIDE DEF fits
    <3>3. (CHOOSE i \in fits : \A k \in fits : i <= k) = scan[0][0]
      BY <3>1, <3>2
    <3> QED BY <1>1, <1>3, <1>5, <3>1, <3>3
  <2> QED BY <2>1, <2>2, <2>3 DEF IsFirst
<1> QED BY <1>4, <1>5

\* The words of the bitmap have a bit for each segment.
LEMMA WordsCover ==
  ASSUME NEW bitCount \in Nat
  PROVE  0..(bitCount - 1) \subseteq WordsOf(bitCount)
<1> DEFINE n == (bitCount + BitsPerWord - 1) \div BitsPerWord
           r == (bitCount + BitsPerWord - 1) % BitsPerWord
<1>1. BitsPerWord \in Nat \ {0}
  BY SegmentAllocatorAssumption
<1>2. bitCount + BitsPerWord - 1 = BitsPerWord * n + r /\ r \in 0..(BitsPerWord - 1) /\ n \in Int
  BY <1>1
<1> DEFINE bits == n * BitsPerWord
<1>3. bits = BitsPerWord * n /\ bits \in Int
  BY <1>1, <1>2
<1> HIDE DEF n, r, bits
<1>4. bits >= bitCount
  BY <1>1, <1>2, <1>3
<1>5. 0..(bitCount - 1) \subseteq 0..(bits - 1)
  BY <1>3, <1>4
<1>6. WordsOf(bitCount) = 0..(bits - 1)
  BY DEF WordsOf, bits, n
<1> QED BY <1>5, <1>6

\* findCachedRun and findFreeRun find the first run of count bits that are set, or
\* unset, for every bitmap, size of a word and count: also where a run goes over the
\* end of a word, and never a bit behind the last segment (segment_allocator.cpp).
THEOREM ScansFindTheFirstRun ==
  ASSUME NEW bits, NEW bitCount \in Nat, NEW count \in Nat
  PROVE  /\ FindCachedRun(bits, bitCount, count) = FirstFit(bits, bitCount, count)
         /\ FindFreeRun(bits, bitCount, count) = FirstFit((0..(bitCount - 1)) \ bits, bitCount, count)
<1>1. FindCachedRun(bits, bitCount, count) = FirstFit(bits, bitCount, count)
  BY ScanIsFirstFitFor DEF FindCachedRun
<1>2. FindFreeRun(bits, bitCount, count) = FirstFit(WordsOf(bitCount) \ bits, bitCount, count)
  BY ScanIsFirstFitFor DEF FindFreeRun
<1>3. ASSUME NEW i \in 0..(bitCount - count)
      PROVE  i..(i + count - 1) \subseteq WordsOf(bitCount) \ bits
               <=> i..(i + count - 1) \subseteq (0..(bitCount - 1)) \ bits
  <2>1. i..(i + count - 1) \subseteq 0..(bitCount - 1)
    OBVIOUS
  <2> QED BY <2>1, WordsCover
<1>4. {i \in 0..(bitCount - count) : i..(i + count - 1) \subseteq WordsOf(bitCount) \ bits}
        = {i \in 0..(bitCount - count) : i..(i + count - 1) \subseteq (0..(bitCount - 1)) \ bits}
  BY <1>3
<1>5. FirstFit(WordsOf(bitCount) \ bits, bitCount, count) = FirstFit((0..(bitCount - 1)) \ bits, bitCount, count)
  <2> DEFINE A == {i \in 0..(bitCount - count) : i..(i + count - 1) \subseteq WordsOf(bitCount) \ bits}
             B == {i \in 0..(bitCount - count) : i..(i + count - 1) \subseteq (0..(bitCount - 1)) \ bits}
             FirstOf(F) == IF count = 0 \/ F = {} THEN None ELSE CHOOSE i \in F : \A k \in F : i <= k
  <2>1. /\ FirstFit(WordsOf(bitCount) \ bits, bitCount, count) = FirstOf(A)
        /\ FirstFit((0..(bitCount - 1)) \ bits, bitCount, count) = FirstOf(B)
    BY DEF FirstFit
  <2>2. A = B
    BY <1>4
  <2> HIDE DEF A, B, FirstOf
  <2> QED BY <2>1, <2>2
<1> QED BY <1>1, <1>2, <1>5

-----------------------------------------------------------------------------
(* What is reserved.                                                       *)

\* What is left out in front of a raw address ends at the next multiple.
LEMMA OffsetReachesAMultiple ==
  ASSUME NEW raw \in Nat, NEW alignment \in Nat \ {0}
  PROVE  /\ Offset(raw, alignment) \in 0..(alignment - 1)
         /\ (raw + Offset(raw, alignment)) % alignment = 0
<1> DEFINE part == raw % alignment
           times == raw \div alignment
<1>1. part \in 0..(alignment - 1) /\ times \in Nat /\ raw = alignment * times + part
  OBVIOUS
<1> HIDE DEF part, times
<1>2. ASSUME NEW k \in Nat PROVE (alignment * k) % alignment = 0
  OBVIOUS
<1>3. CASE part = 0
  <2>1. alignment - part = alignment * 1
    BY <1>3
  <2>2. Offset(raw, alignment) = 0
    BY <2>1, <1>2 DEF Offset, part
  <2> QED BY <2>2, <1>1, <1>2, <1>3
<1>4. CASE part # 0
  <2>1. alignment - part \in 0..(alignment - 1)
    BY <1>1, <1>4
  <2>2. ASSUME NEW n \in 0..(alignment - 1) PROVE n % alignment = n
    OBVIOUS
  <2>3. Offset(raw, alignment) = alignment - part
    BY <2>1, <2>2 DEF Offset, part
  <2>4. raw + Offset(raw, alignment) = alignment * (times + 1)
    BY <2>3, <1>1
  <2> QED BY <2>1, <2>3, <2>4, <1>1, <1>2
<1> QED BY <1>1, <1>3, <1>4

\* Wherever the system puts what it reserves, the range cut out of it is aligned and of its full
\* length, and what is before and after it is given back whole (virtual_memory_linux.cpp:62).
THEOREM ReservationsAreAligned ==
  ASSUME NEW raw \in Nat, NEW span \in Nat, NEW alignment \in Nat \ {0}
  PROVE  ReservationIsAligned(raw, span, alignment)
<1> DEFINE head == Offset(raw, alignment)
<1>1. head \in 0..(alignment - 1) /\ (raw + head) % alignment = 0
  BY OffsetReachesAMultiple
<1> HIDE DEF head
<1>2. /\ (raw + head) - head = raw /\ head >= 0 /\ (span + alignment) - head - span >= 0
      /\ (raw + head) + span + ((span + alignment) - head - span) = raw + span + alignment
  BY <1>1
<1> QED BY <1>1, <1>2 DEF ReservationIsAligned, ReserveAligned, head

-----------------------------------------------------------------------------
(* The segments: what every step of the allocator keeps.                   *)

\* What a page of address space may be.
PageStates == {"closed", "sealed", "open"}

\* The allocator's own state, and the pages of each segment.
Heaps ==
  [allocated : SUBSET Segments, cached : SUBSET Segments, pinned : SUBSET Segments,
   cachedCount : Nat, committed : [Segments -> 0..PagesPerSegment],
   lastFree : [Segments -> Nat], page : [Segments -> [Pages -> PageStates]]]

\* A run is of segments there are.
Runs == {NoRun} \cup { r \in [first : Nat, count : Nat \ {0}] : r.first + r.count <= Capacity }

\* The locals of a commit that is under way.
Jobs ==
  {NoJob} \cup [step : {"claim", "commit", "record", "giveBack"}, segment : Nat,
                large : BOOLEAN, from : Nat, to : 0..PagesPerSegment]

\* The types of the state, but for the cursor, which only says where the sweep begins.
SegmentsTypeOK ==
  /\ host \in Hosts
  /\ lifetime \in {"fresh", "up", "over"}
  /\ heap \in Heaps
  /\ bytes \in Int /\ tick \in Nat /\ refusals \in Nat
  /\ run \in [Clients -> Runs]
  /\ job \in [Clients -> Jobs]

\* A commit is of a segment of the client's own, and from where its pages end; the
\* pages are open once they are to be recorded.
JobsAreOnRuns ==
  \A c \in Clients : job[c].step # "none" =>
    /\ job[c].segment \in RunOf(run[c])
    /\ job[c].from = heap.committed[job[c].segment] /\ job[c].from < job[c].to
    /\ job[c].step = "record" =>
         \A p \in job[c].from..(job[c].to - 1) : heap.page[job[c].segment][p] = "open"

\* Runs are held, and pages sealed, only where that can be.
OnlyWhere ==
  /\ ~Up => \A c \in Clients : run[c] = NoRun
  /\ build = "windows" => \A s \in Segments : \A p \in Pages : heap.page[s][p] # "sealed"

\* The budget is kept from the start: nothing is committed before init.
BudgetIsKept == lifetime # "over" =>
  /\ bytes = PagesOf(heap, Segments) + SumFunction(InFlight)
  /\ CommitBudget # 0 => bytes <= CommitBudget

\* What every step keeps.
SegmentsInv == SegmentsTypeOK /\ JobsAreOnRuns /\ OnlyWhere /\ EverySegmentHasItsPlace /\ BudgetIsKept

\* What a behaviour runs on does not change.
LEMMA HostIsKept ==
  ASSUME SegmentsTypeOK
  PROVE  /\ build \in Builds /\ Capacity \in Nat \ {0}
         /\ IsFiniteSet(Segments) /\ Segments \subseteq Nat
         /\ PagesPerSegment \in Nat \ {0} /\ Pages \subseteq Nat
<1>1. host \in [build : Builds, segments : Nat \ {0}, largePages : BOOLEAN, refusals : Nat]
  BY SegmentAllocatorAssumption DEF SegmentsTypeOK
<1>2. build \in Builds /\ Capacity \in Nat \ {0}
  BY <1>1 DEF build, Capacity
<1>3. IsFiniteSet(0..(Capacity - 1))
  BY <1>2, FS_Interval
<1> QED BY <1>2, <1>3, SegmentAllocatorAssumption DEF Segments, Pages

\* A run is of segments, and the one nobody holds of none.
LEMMA RunsAreSegments ==
  ASSUME SegmentsTypeOK
  PROVE  /\ \A r \in Runs : RunOf(r) \subseteq Segments
         /\ RunOf(NoRun) = {}
         /\ \A r \in Runs : r # NoRun => r.count > 0 /\ r.first \in RunOf(r)
<1>1. Capacity \in Nat \ {0}
  BY HostIsKept
<1>2. RunOf(NoRun) = {}
  BY DEF RunOf, NoRun, None
<1>3. ASSUME NEW r \in Runs, r # NoRun PROVE RunOf(r) \subseteq Segments /\ r.count > 0 /\ r.first \in RunOf(r)
  <2>1. r.first \in Nat /\ r.count \in Nat \ {0} /\ r.first + r.count <= Capacity
    BY <1>3 DEF Runs
  <2> QED BY <1>1, <2>1 DEF RunOf, Segments
<1> QED BY <1>2, <1>3

\* A job has a step, and is one of a segment unless it is none.
LEMMA JobsHaveSteps ==
  ASSUME SegmentsTypeOK, NEW c \in Clients
  PROVE  /\ job[c] = NoJob <=> job[c].step = "none"
         /\ job[c].step # "none" =>
              job[c] \in [step : {"claim", "commit", "record", "giveBack"}, segment : Nat,
                          large : BOOLEAN, from : Nat, to : 0..PagesPerSegment]
BY DEF SegmentsTypeOK, Jobs, NoJob

\* What is in flight is a number of pages.
InFlightNatural == \A c \in Clients : InFlight[c] \in Nat

\* It is, with the types and the jobs in order, in this state and in the next.
LEMMA InFlightIsNatural == SegmentsTypeOK /\ JobsAreOnRuns => InFlightNatural
<1> SUFFICES ASSUME SegmentsTypeOK, JobsAreOnRuns, NEW c \in Clients PROVE InFlight[c] \in Nat
  BY DEF InFlightNatural
<1>1. CASE job[c].step = "none"
  BY <1>1 DEF InFlight
<1>2. CASE job[c].step # "none"
  <2>1. job[c].from \in Nat /\ job[c].to \in Nat /\ job[c].from < job[c].to
    BY <1>2, JobsHaveSteps, HostIsKept DEF JobsAreOnRuns
  <2> QED BY <2>1 DEF InFlight, Wanted
<1> QED BY <1>1, <1>2

\* The budget, when the job of one client changes, and the pages of one segment.
LEMMA TotalsChange ==
  ASSUME SegmentsTypeOK, JobsAreOnRuns, SegmentsTypeOK', JobsAreOnRuns', host' = host
  PROVE  /\ \A c \in Clients :
              (\A d \in Clients \ {c} : job'[d] = job[d]) =>
                SumFunction(InFlight') = SumFunction(InFlight) + InFlight'[c] - InFlight[c]
         /\ \A s \in Segments :
              (\A o \in Segments \ {s} : heap'.committed[o] = heap.committed[o]) =>
                PagesOf(heap', Segments) =
                  PagesOf(heap, Segments) + heap'.committed[s] - heap.committed[s]
         /\ PagesOf(heap, Segments) \in Nat /\ SumFunction(InFlight) \in Nat
<1>1. DOMAIN InFlight = Clients /\ DOMAIN InFlight' = Clients /\ IsFiniteSet(Clients)
  BY SegmentAllocatorAssumption DEF InFlight
<1>2. (\A c \in Clients : InFlight[c] \in Nat) /\ (\A c \in Clients : InFlight'[c] \in Nat)
  <2>1. InFlightNatural /\ InFlightNatural'
    BY InFlightIsNatural, PTL
  <2> QED BY <2>1 DEF InFlightNatural
<1>3. ASSUME NEW c \in Clients, \A d \in Clients \ {c} : job'[d] = job[d]
      PROVE  SumFunction(InFlight') = SumFunction(InFlight) + InFlight'[c] - InFlight[c]
  <2>1. \A d \in Clients \ {c} : InFlight[d] = InFlight'[d]
    BY <1>3 DEF InFlight, Wanted
  <2> QED BY <1>1, <1>2, <2>1, SumChanges DEF SumFunction
<1>4. Segments' = Segments /\ IsFiniteSet(Segments)
  BY HostIsKept DEF Segments, Capacity
<1>5. (\A s \in Segments : heap.committed[s] \in Nat) /\ (\A s \in Segments : heap'.committed[s] \in Nat)
  BY <1>4, HostIsKept DEF SegmentsTypeOK, Heaps
<1>6. ASSUME NEW s \in Segments, \A o \in Segments \ {s} : heap'.committed[o] = heap.committed[o]
      PROVE  PagesOf(heap', Segments) = PagesOf(heap, Segments) + heap'.committed[s] - heap.committed[s]
  <2>1. \A o \in Segments \ {s} : heap.committed[o] = heap'.committed[o]
    BY <1>6
  <2> QED BY <1>4, <1>5, <2>1, SumChanges DEF PagesOf
<1>7. PagesOf(heap, Segments) \in Nat /\ SumFunction(InFlight) \in Nat
  BY <1>1, <1>2, <1>4, <1>5, SumIsNatural DEF PagesOf, SumFunction
<1> QED BY <1>3, <1>6, <1>7

\* At first nothing is reserved.
LEMMA SegmentsStart == SegmentsInit => SegmentsInv
<1> SUFFICES ASSUME SegmentsInit PROVE SegmentsInv
  OBVIOUS
<1>1. /\ host \in Hosts /\ lifetime = "fresh" /\ mapped = {} /\ heap = EmptyHeap /\ bytes = 0
      /\ tick = 0 /\ refusals = host.refusals
      /\ run = [c \in Clients |-> NoRun] /\ job = [c \in Clients |-> NoJob]
  BY DEF SegmentsInit
<1>2. SegmentsTypeOK
  <2>1. host.refusals \in Nat /\ PagesPerSegment \in Nat
    BY <1>1, SegmentAllocatorAssumption
  <2>2. heap \in Heaps
    BY <1>1, <2>1 DEF EmptyHeap, Heaps, PageStates
  <2> QED BY <1>1, <2>1, <2>2 DEF SegmentsTypeOK, Runs, Jobs
<1>3. /\ \A s \in Segments : heap.committed[s] = 0 /\ \A p \in Pages : heap.page[s][p] = "closed"
      /\ heap.allocated = {} /\ heap.cached = {} /\ heap.cachedCount = 0
  BY <1>1 DEF EmptyHeap
<1>4. JobsAreOnRuns /\ OnlyWhere
  BY <1>1, <1>3 DEF JobsAreOnRuns, OnlyWhere, NoJob, Up
<1>5. EverySegmentHasItsPlace
  <2>1. \A c \in Clients : RunOf(run[c]) = {}
    BY <1>1, <1>2, RunsAreSegments
  <2>2. mapped = IF Up THEN {"segments", "metadata"} ELSE {}
    BY <1>1 DEF Up
  <2>3. heap.allocated = UNION {RunOf(run[c]) : c \in Clients}
    BY <1>3, <2>1
  <2>4. heap.cached = {s \in Segments \ heap.allocated : heap.committed[s] > 0}
    BY <1>3
  <2>5. heap.cachedCount = Cardinality(heap.cached) /\ heap.cachedCount <= MaxCached
    BY <1>3, FS_EmptySet, SegmentAllocatorAssumption
  <2>6. \A s \in Segments : \A p \in Pages : p < heap.committed[s] => heap.page[s][p] = "open"
    BY <1>2, <1>3, HostIsKept
  <2> QED BY <2>1, <2>2, <2>3, <2>4, <2>5, <2>6 DEF EverySegmentHasItsPlace
<1>6. BudgetIsKept
  <2>1. PagesOf(heap, Segments) = 0
    BY <1>2, <1>3, HostIsKept, SumOfZeros DEF PagesOf
  <2>2. SumFunction(InFlight) = 0
    <3>1. DOMAIN InFlight = Clients /\ \A c \in Clients : InFlight[c] = 0
      BY <1>1 DEF InFlight, NoJob
    <3> QED BY <3>1, SegmentAllocatorAssumption, SumOfZeros DEF SumFunction
  <2> QED BY <1>1, <2>1, <2>2, SegmentAllocatorAssumption DEF BudgetIsKept
<1> QED BY <1>2, <1>4, <1>5, <1>6 DEF SegmentsInv

\* Where the heap and the runs stay, so do the segments' places.
LEMMA PlacesStay ==
  ASSUME EverySegmentHasItsPlace, UNCHANGED <<heap, run>>, Segments' = Segments,
         mapped' = IF Up' THEN {"segments", "metadata"} ELSE {}
  PROVE  EverySegmentHasItsPlace'
<1>1. heap' = heap /\ run' = run
  OBVIOUS
<1>2. heap'.allocated = UNION {RunOf(run'[c]) : c \in Clients}
  BY <1>1 DEF EverySegmentHasItsPlace
<1>3. \A c, d \in Clients : c # d => RunOf(run'[c]) \cap RunOf(run'[d]) = {}
  BY <1>1 DEF EverySegmentHasItsPlace
<1>4. heap'.cached = {s \in Segments' \ heap'.allocated : heap'.committed[s] > 0}
  BY <1>1 DEF EverySegmentHasItsPlace
<1>5. heap'.cachedCount = Cardinality(heap'.cached) /\ heap'.cachedCount <= MaxCached
  BY <1>1 DEF EverySegmentHasItsPlace
<1>6. \A s \in Segments' : \A p \in Pages : p < heap'.committed[s] => heap'.page[s][p] = "open"
  BY <1>1 DEF EverySegmentHasItsPlace
<1> QED BY <1>2, <1>3, <1>4, <1>5, <1>6 DEF EverySegmentHasItsPlace

\* The allocator is set up and shut down as a whole.
LEMMA SettingUpKeeps ==
  ASSUME SegmentsInv, InitAllocator \/ Shutdown \/ EnableLargePages \/ DisableLargePages
  PROVE  SegmentsInv'
<1>1. CASE EnableLargePages \/ DisableLargePages
  <2>1. /\ UNCHANGED <<host, lifetime, mapped, heap, bytes, tick, run, job>>
        /\ refusals' \in Nat
    BY <1>1 DEF EnableLargePages, DisableLargePages, SegmentsInv, SegmentsTypeOK
  <2>2. Segments' = Segments /\ Heaps' = Heaps /\ Runs' = Runs /\ build' = build
    BY <2>1 DEF Segments, Capacity, Heaps, Runs, build
  <2>3. SegmentsTypeOK' /\ JobsAreOnRuns'
    BY <2>1, <2>2 DEF SegmentsInv, SegmentsTypeOK, JobsAreOnRuns
  <2>4. OnlyWhere'
    BY <2>1, <2>2 DEF SegmentsInv, OnlyWhere, Up
  <2>5. EverySegmentHasItsPlace'
    <3>1. mapped' = IF Up' THEN {"segments", "metadata"} ELSE {}
      BY <2>1 DEF SegmentsInv, EverySegmentHasItsPlace, Up
    <3> QED BY <2>1, <2>2, <3>1, PlacesStay DEF SegmentsInv
  <2>6. BudgetIsKept'
    <3>1. InFlight' = InFlight
      BY <2>1 DEF InFlight, Wanted
    <3>2. SumFunction(InFlight') = SumFunction(InFlight) /\ PagesOf(heap', Segments') = PagesOf(heap, Segments)
      BY <2>1, <2>2, <3>1
    <3> QED BY <2>1, <3>2 DEF SegmentsInv, BudgetIsKept
  <2> QED BY <2>3, <2>4, <2>5, <2>6 DEF SegmentsInv
<1>2. CASE InitAllocator
  <2>1. /\ UNCHANGED <<host, heap, bytes, tick, run, job>>
        /\ refusals' \in Nat /\ lifetime = "fresh" /\ lifetime' \in {"fresh", "up"}
        /\ mapped' = IF Up' THEN {"segments", "metadata"} ELSE {}
    BY <1>2 DEF InitAllocator, MapMetadata, MapMetadataOnPosix, MapMetadataOnWindows, Up,
                SegmentsInv, SegmentsTypeOK
  <2>2. Segments' = Segments /\ Heaps' = Heaps /\ Runs' = Runs /\ build' = build
    BY <2>1 DEF Segments, Capacity, Heaps, Runs, build
  <2>3. SegmentsTypeOK' /\ JobsAreOnRuns'
    BY <2>1, <2>2 DEF SegmentsInv, SegmentsTypeOK, JobsAreOnRuns
  <2>4. OnlyWhere'
    BY <2>1, <2>2 DEF SegmentsInv, OnlyWhere, Up
  <2>5. EverySegmentHasItsPlace'
    <3>1. mapped' = IF Up' THEN {"segments", "metadata"} ELSE {}
      BY <2>1 DEF SegmentsInv, EverySegmentHasItsPlace, Up
    <3> QED BY <2>1, <2>2, <3>1, PlacesStay DEF SegmentsInv
  <2>6. BudgetIsKept'
    <3>1. InFlight' = InFlight
      BY <2>1 DEF InFlight, Wanted
    <3>2. SumFunction(InFlight') = SumFunction(InFlight) /\ PagesOf(heap', Segments') = PagesOf(heap, Segments)
      BY <2>1, <2>2, <3>1
    <3> QED BY <2>1, <3>2 DEF SegmentsInv, BudgetIsKept
  <2> QED BY <2>3, <2>4, <2>5, <2>6 DEF SegmentsInv
<1>3. CASE Shutdown
  <2>1. /\ UNCHANGED <<host, bytes, run, job, refusals>> /\ lifetime' = "over" /\ mapped' = {}
        /\ heap' = EmptyHeap /\ tick' = 0 /\ \A c \in Clients : run[c] = NoRun
    BY <1>3 DEF Shutdown
  <2>2. \A c \in Clients : RunOf(run[c]) = {} /\ job[c].step = "none"
    BY <2>1, RunsAreSegments DEF SegmentsInv, JobsAreOnRuns
  <2>3. /\ \A s \in Segments : heap'.committed[s] = 0 /\ \A p \in Pages : heap'.page[s][p] = "closed"
        /\ heap'.allocated = {} /\ heap'.cached = {} /\ heap'.cachedCount = 0
    BY <2>1 DEF EmptyHeap
  <2>4. SegmentsTypeOK'
    <3>1. heap' \in Heaps
      BY <2>1, SegmentAllocatorAssumption DEF EmptyHeap, Heaps, PageStates
    <3> QED BY <2>1, <3>1 DEF SegmentsInv, SegmentsTypeOK, Heaps, Segments, Capacity, Runs
  <2>5. JobsAreOnRuns' /\ OnlyWhere' /\ BudgetIsKept'
    BY <2>1, <2>2, <2>3 DEF JobsAreOnRuns, OnlyWhere, BudgetIsKept, Up, build, Segments, Capacity
  <2>6. EverySegmentHasItsPlace'
    <3>1. /\ Segments' = Segments /\ run' = run /\ ~Up' /\ mapped' = {}
      BY <2>1 DEF Segments, Capacity, Up
    <3>2. heap'.cachedCount = Cardinality(heap'.cached) /\ heap'.cachedCount <= MaxCached
      BY <2>3, FS_EmptySet, SegmentAllocatorAssumption
    <3>3. \A s \in Segments : \A p \in Pages : ~(p < heap'.committed[s])
      BY <2>3, HostIsKept DEF SegmentsInv
    <3>4. heap'.allocated = UNION {RunOf(run[c]) : c \in Clients}
      BY <2>2, <2>3
    <3>5. heap'.cached = {s \in Segments \ heap'.allocated : heap'.committed[s] > 0}
      BY <2>3
    <3> QED BY <2>2, <3>1, <3>2, <3>3, <3>4, <3>5 DEF EverySegmentHasItsPlace
  <2> QED BY <2>4, <2>5, <2>6 DEF SegmentsInv
<1> QED BY <1>1, <1>2, <1>3

\* The first steps of a commit read and claim, and the heap is as it was.
LEMMA ClaimingKeeps ==
  ASSUME SegmentsInv, NEW c \in Clients,
         \/ \E s \in Segments, pages \in 1..PagesPerSegment, large \in BOOLEAN : Begin(c, s, pages, large)
         \/ ClaimCommitBudget(c) \/ ExceedBudget(c) \/ ReleaseCommitBudget(c)
  PROVE  SegmentsInv'
<1>1. /\ UNCHANGED <<setup, heap, tick, run, refusals>>
      /\ \A d \in Clients \ {c} : job'[d] = job[d]
      /\ bytes' \in Int
  <2>1. Wanted(c) \in Int \/ job[c].step = "none"
    BY JobsHaveSteps DEF SegmentsInv, Wanted
  <2>2. UNCHANGED <<setup, heap, tick, run, refusals>>
    BY DEF Begin, ClaimCommitBudget, ExceedBudget, ReleaseCommitBudget
  <2>3. \A d \in Clients \ {c} : job'[d] = job[d]
    BY DEF Begin, ClaimCommitBudget, ExceedBudget, ReleaseCommitBudget, Go, EndJob,
           SegmentsInv, SegmentsTypeOK
  <2>4. bytes' \in Int
    BY <2>1 DEF Begin, ClaimCommitBudget, ExceedBudget, ReleaseCommitBudget, SegmentsInv, SegmentsTypeOK
  <2> QED BY <2>2, <2>3, <2>4
<1>2. UNCHANGED <<host, lifetime, mapped, largePages>>
  BY <1>1 DEF setup
<1>3. Segments' = Segments /\ Capacity' = Capacity /\ Heaps' = Heaps /\ Runs' = Runs /\ Up' = Up /\ build' = build
  BY <1>2 DEF Segments, Capacity, Heaps, Runs, Up, build
\* The job is begun, goes on or ends.
<1>4. \/ /\ job[c].step = "none" /\ bytes' = bytes
         /\ \E s \in RunOf(run[c]), pages \in 1..PagesPerSegment, large \in BOOLEAN :
              /\ heap.committed[s] < pages
              /\ job' = [job EXCEPT ![c] = [step |-> "claim", segment |-> s, large |-> large,
                                            from |-> heap.committed[s], to |-> pages]]
      \/ /\ job[c].step = "claim" /\ job' = [job EXCEPT ![c].step = "commit"]
         /\ bytes' = bytes + Wanted(c) /\ (CommitBudget # 0 => bytes' <= CommitBudget)
      \/ job[c].step = "claim" /\ job' = [job EXCEPT ![c] = NoJob] /\ bytes' = bytes
      \/ /\ job[c].step = "giveBack" /\ job' = [job EXCEPT ![c] = NoJob]
         /\ bytes' = bytes - Wanted(c)
  <2>1. CASE \E s \in Segments, pages \in 1..PagesPerSegment, large \in BOOLEAN : Begin(c, s, pages, large)
    BY <2>1, JobsHaveSteps DEF Begin, SegmentsInv
  <2>2. CASE ClaimCommitBudget(c)
    BY <2>2 DEF ClaimCommitBudget, Go
  <2>3. CASE ExceedBudget(c) \/ ReleaseCommitBudget(c)
    BY <2>3 DEF ExceedBudget, ReleaseCommitBudget, EndJob
  <2> QED BY <2>1, <2>2, <2>3
<1> DEFINE Sound ==
      /\ job' \in [Clients -> Jobs]
      /\ job'[c].step # "none" =>
           /\ job'[c].segment \in RunOf(run[c])
           /\ job'[c].from = heap.committed[job'[c].segment] /\ job'[c].from < job'[c].to
           /\ job'[c].step # "record"
<1>5. Sound
  <2>0. job \in [Clients -> Jobs] /\ run[c] \in Runs
    BY DEF SegmentsInv, SegmentsTypeOK
  <2>1. ASSUME NEW s \in RunOf(run[c]), NEW pages \in 1..PagesPerSegment, NEW large \in BOOLEAN,
               heap.committed[s] < pages,
               job' = [job EXCEPT ![c] = [step |-> "claim", segment |-> s, large |-> large,
                                          from |-> heap.committed[s], to |-> pages]]
        PROVE  Sound
    <3>1. s \in Segments /\ s \in Nat /\ pages \in 0..PagesPerSegment /\ heap.committed[s] \in Nat
      BY <2>0, RunsAreSegments, HostIsKept DEF SegmentsInv, SegmentsTypeOK, Heaps
    <3> QED BY <2>0, <2>1, <3>1 DEF Jobs
  <2>2. CASE job[c].step = "claim" /\ job' = [job EXCEPT ![c].step = "commit"]
    <3>1. job[c] \in [step : {"claim", "commit", "record", "giveBack"}, segment : Nat,
                          large : BOOLEAN, from : Nat, to : 0..PagesPerSegment]
      BY <2>2, JobsHaveSteps DEF SegmentsInv
    <3>2. job'[c] = [job[c] EXCEPT !.step = "commit"]
      BY <2>0, <2>2
    <3>3. job'[c] \in Jobs
      BY <3>1, <3>2 DEF Jobs
    <3>4. job' \in [Clients -> Jobs]
      BY <2>0, <2>2, <3>2, <3>3
    <3>5. /\ job[c].segment \in RunOf(run[c])
          /\ job[c].from = heap.committed[job[c].segment] /\ job[c].from < job[c].to
      BY <2>2 DEF SegmentsInv, JobsAreOnRuns
    <3> QED BY <3>1, <3>2, <3>4, <3>5
  <2>3. CASE job' = [job EXCEPT ![c] = NoJob]
    BY <2>0, <2>3 DEF Jobs, NoJob
  <2> QED BY <1>4, <2>1, <2>2, <2>3
<1>6. SegmentsTypeOK' /\ JobsAreOnRuns'
  BY <1>1, <1>2, <1>3, <1>5 DEF SegmentsInv, SegmentsTypeOK, JobsAreOnRuns
<1>7. OnlyWhere' /\ EverySegmentHasItsPlace'
  <2>1. UNCHANGED <<heap, run, mapped>>
    BY <1>1, <1>2
  <2>2. OnlyWhere'
    BY <1>3, <2>1 DEF SegmentsInv, OnlyWhere
  <2>3. EverySegmentHasItsPlace'
    <3>1. mapped' = IF Up' THEN {"segments", "metadata"} ELSE {}
      BY <1>3, <2>1 DEF SegmentsInv, EverySegmentHasItsPlace
    <3> QED BY <1>3, <2>1, <3>1, PlacesStay DEF SegmentsInv
  <2> QED BY <2>2, <2>3
<1>8. BudgetIsKept'
  <2>1. SumFunction(InFlight') = SumFunction(InFlight) + InFlight'[c] - InFlight[c]
    BY <1>1, <1>2, <1>6, TotalsChange DEF SegmentsInv
  <2>2. PagesOf(heap', Segments') = PagesOf(heap, Segments)
    BY <1>1, <1>3
  <2>3. PagesOf(heap, Segments) \in Nat /\ SumFunction(InFlight) \in Nat
    BY <1>2, <1>6, TotalsChange DEF SegmentsInv
  <2>4. InFlight[c] \in Nat /\ bytes \in Int /\ CommitBudget \in Nat
    BY InFlightIsNatural, SegmentAllocatorAssumption DEF InFlightNatural, SegmentsInv, SegmentsTypeOK
  <2>5. /\ InFlight'[c] - InFlight[c] = bytes' - bytes /\ InFlight'[c] \in Nat
        /\ bytes' <= bytes \/ (CommitBudget # 0 => bytes' <= CommitBudget)
    <3>0. job \in [Clients -> Jobs] /\ InFlight'[c] \in Nat
      <4>1. InFlightNatural'
        BY <1>6, InFlightIsNatural, PTL
      <4> QED BY <4>1 DEF InFlightNatural, SegmentsInv, SegmentsTypeOK
    <3>1. CASE job[c].step = "claim" /\ job' = [job EXCEPT ![c].step = "commit"] /\ bytes' = bytes + Wanted(c)
                 /\ (CommitBudget # 0 => bytes' <= CommitBudget)
      <4>1. InFlight[c] = 0 /\ InFlight'[c] = Wanted(c)'
        BY <3>0, <3>1 DEF InFlight
      <4>2. Wanted(c)' = Wanted(c)
        BY <3>0, <3>1 DEF Wanted
      <4> QED BY <2>4, <3>0, <3>1, <4>1, <4>2
    <3>2. CASE job[c].step \in {"none", "claim"} /\ job'[c].step \in {"none", "claim"} /\ bytes' = bytes
      <4>1. InFlight[c] = 0 /\ InFlight'[c] = 0
        BY <3>2 DEF InFlight
      <4> QED BY <2>4, <3>0, <3>2, <4>1
    <3>3. CASE job[c].step = "giveBack" /\ job' = [job EXCEPT ![c] = NoJob] /\ bytes' = bytes - Wanted(c)
      <4>1. InFlight[c] = Wanted(c) /\ InFlight'[c] = 0
        BY <3>0, <3>3 DEF InFlight, NoJob
      <4> QED BY <2>4, <3>0, <3>3, <4>1
    <3> QED BY <1>4, <3>0, <3>1, <3>2, <3>3 DEF NoJob
  <2> QED BY <1>1, <1>2, <2>1, <2>2, <2>3, <2>4, <2>5 DEF BudgetIsKept, SegmentsInv
<1> QED BY <1>6, <1>7, <1>8 DEF SegmentsInv

\* What a commit can come to: pages outside the range stay as they are, no page
\* is sealed by it, and when it succeeds the range is open.
LEMMA CommitOpensRange ==
  ASSUME NEW b \in Builds, NEW large \in BOOLEAN, NEW page \in [Pages -> PageStates],
         NEW range \in SUBSET Pages, b = "windows" => \A p \in Pages : page[p] # "sealed",
         NEW outcome \in IF large THEN CommitLarge(b, page, range) ELSE Commit(b, page, range)
  PROVE  /\ outcome.ok \in BOOLEAN /\ outcome.page \in [Pages -> PageStates]
         /\ \A p \in Pages \ range : outcome.page[p] = page[p]
         /\ b = "windows" => \A p \in Pages : outcome.page[p] # "sealed"
         /\ outcome.ok => \A p \in range : outcome.page[p] = "open"
<1> DEFINE opened == [p \in Pages |-> IF p \in range THEN "open" ELSE page[p]]
           allocated == [p \in Pages |-> IF p \in range /\ page[p] = "closed" THEN "open" ELSE page[p]]
<1>1. DOMAIN page = Pages /\ Allocated(page, range) = allocated
  BY DEF Allocated
<1>2. opened \in [Pages -> PageStates] /\ allocated \in [Pages -> PageStates]
  BY DEF PageStates
<1>3. \/ outcome.ok = FALSE /\ outcome.page \in {page, opened, allocated}
      \/ outcome.ok = TRUE /\ outcome.page = opened
      \/ /\ outcome.ok = TRUE /\ outcome.page = allocated
         /\ b = "windows" \/ \A p \in range : page[p] = "closed"
  <2>1. ASSUME outcome \in CommitOnLinux(page, range)
        PROVE  \/ outcome.ok = FALSE /\ outcome.page = page
               \/ outcome.ok = TRUE /\ outcome.page = opened
    BY <1>1, <2>1 DEF CommitOnLinux
  <2>2. ASSUME outcome \in CommitOnMacos(page, range)
        PROVE  \/ outcome.ok = FALSE /\ outcome.page \in {page, opened}
               \/ outcome.ok = TRUE /\ outcome.page = opened
    <3>1. CASE outcome \in CommitOnLinux(page, range)
      BY <2>1, <3>1
    <3>2. CASE outcome \in {[o EXCEPT !.ok = FALSE] : o \in CommitOnLinux(page, range)}
      <4>1. PICK o \in CommitOnLinux(page, range) : outcome = [o EXCEPT !.ok = FALSE]
        BY <3>2
      <4>2. o = [ok |-> TRUE, page |-> opened] \/ o = [ok |-> FALSE, page |-> page]
        BY <1>1 DEF CommitOnLinux
      <4> QED BY <4>1, <4>2
    <3> QED BY <2>2, <3>1, <3>2 DEF CommitOnMacos
  <2>3. ASSUME NEW lazily \in BOOLEAN, outcome \in CommitOnWindows(page, range, lazily)
        PROVE  \/ outcome.ok = FALSE /\ outcome.page \in {page, allocated}
               \/ outcome.ok = TRUE /\ outcome.page = IF lazily THEN opened ELSE allocated
    BY <1>1, <2>3 DEF CommitOnWindows
  <2>4. CASE large
    <3>1. CASE b \in {"linux", "macos"}
      BY <2>1, <2>4, <3>1 DEF CommitLarge
    <3>2. CASE b \notin {"linux", "macos"}
      <4>1. /\ outcome \in CommitOnWindows(page, range, FALSE)
            /\ outcome.ok => \A p \in range : page[p] = "closed"
        BY <2>4, <3>2 DEF CommitLarge
      <4> QED BY <2>3, <4>1
    <3> QED BY <3>1, <3>2
  <2>5. CASE ~large
    <3>1. CASE b = "linux"
      BY <2>1, <2>5, <3>1 DEF Commit
    <3>2. CASE b = "macos"
      BY <2>2, <2>5, <3>2 DEF Commit
    <3>3. CASE b \in {"windows", "lazyWindows"}
      <4>1. outcome \in CommitOnWindows(page, range, b = "lazyWindows")
        BY <2>5, <3>3 DEF Commit
      <4>2. CASE b = "windows"
        <5>1. outcome \in CommitOnWindows(page, range, FALSE)
          BY <4>1, <4>2
        <5> QED BY <2>3, <4>2, <5>1
      <4>3. CASE b = "lazyWindows"
        <5>1. outcome \in CommitOnWindows(page, range, TRUE)
          BY <4>1, <4>3
        <5> QED BY <2>3, <5>1
      <4> QED BY <3>3, <4>2, <4>3
    <3> QED BY <3>1, <3>2, <3>3 DEF Builds
  <2> QED BY <2>4, <2>5
<1>4. /\ \A p \in Pages \ range : opened[p] = page[p] /\ allocated[p] = page[p]
      /\ \A p \in range : opened[p] = "open"
      /\ \A p \in range : page[p] = "closed" => allocated[p] = "open"
      /\ \A p \in Pages : opened[p] = "sealed" \/ allocated[p] = "sealed" => page[p] = "sealed"
  OBVIOUS
<1>5. b = "windows" => \A p \in range : allocated[p] = "open"
  BY DEF PageStates
<1> HIDE DEF opened, allocated
<1> QED BY <1>2, <1>3, <1>4, <1>5

\* When the pages of one segment change that is in a run, the places stay.
LEMMA PlacesStayBut ==
  ASSUME SegmentsInv, NEW s \in heap.allocated,
         UNCHANGED <<host, lifetime, mapped, run>>,
         heap'.allocated = heap.allocated, heap'.cached = heap.cached,
         heap'.cachedCount = heap.cachedCount,
         \A o \in Segments \ {s} : /\ heap'.committed[o] = heap.committed[o]
                                   /\ heap'.page[o] = heap.page[o],
         \A p \in Pages : p < heap'.committed[s] => heap'.page[s][p] = "open"
  PROVE  EverySegmentHasItsPlace'
<1>1. Segments' = Segments /\ run' = run /\ Up' = Up
  BY DEF Segments, Capacity, Up
<1>2. mapped' = IF Up' THEN {"segments", "metadata"} ELSE {}
  BY <1>1 DEF SegmentsInv, EverySegmentHasItsPlace
<1>3. heap'.allocated = UNION {RunOf(run'[c]) : c \in Clients}
  BY <1>1 DEF SegmentsInv, EverySegmentHasItsPlace
<1>4. \A c, d \in Clients : c # d => RunOf(run'[c]) \cap RunOf(run'[d]) = {}
  BY <1>1 DEF SegmentsInv, EverySegmentHasItsPlace
<1>5. heap'.cached = {o \in Segments' \ heap'.allocated : heap'.committed[o] > 0}
  BY <1>1 DEF SegmentsInv, EverySegmentHasItsPlace
<1>6. heap'.cachedCount = Cardinality(heap'.cached) /\ heap'.cachedCount <= MaxCached
  BY DEF SegmentsInv, EverySegmentHasItsPlace
<1>7. \A o \in Segments' : \A p \in Pages : p < heap'.committed[o] => heap'.page[o][p] = "open"
  BY <1>1 DEF SegmentsInv, EverySegmentHasItsPlace
<1> QED BY <1>2, <1>3, <1>4, <1>5, <1>6, <1>7 DEF EverySegmentHasItsPlace

\* A client's segments are allocated, and nobody else's.
LEMMA RunsAreApart ==
  ASSUME SegmentsInv, NEW c \in Clients
  PROVE  /\ RunOf(run[c]) \subseteq heap.allocated /\ RunOf(run[c]) \subseteq Segments
         /\ heap.allocated \subseteq Segments
         /\ \A d \in Clients \ {c} : \A s \in RunOf(run[c]) :
              job[d].step # "none" => job[d].segment # s
<1>1. RunOf(run[c]) \subseteq heap.allocated
  BY DEF SegmentsInv, EverySegmentHasItsPlace
<1>2. heap.allocated \subseteq Segments
  BY DEF SegmentsInv, SegmentsTypeOK, Heaps
<1>3. ASSUME NEW d \in Clients \ {c}, job[d].step # "none", NEW s \in RunOf(run[c])
      PROVE  job[d].segment # s
  BY <1>3 DEF SegmentsInv, JobsAreOnRuns, EverySegmentHasItsPlace
<1> QED BY <1>1, <1>2, <1>3

\* What is committed outside the mutex are pages nobody else is at.
LEMMA CommitMemoryKeeps ==
  ASSUME SegmentsInv, NEW c \in Clients, CommitMemory(c)
  PROVE  SegmentsInv'
<1> DEFINE s == job[c].segment
           range == job[c].from..(job[c].to - 1)
<1>1. /\ job[c].step = "commit" /\ UNCHANGED <<host, lifetime, mapped, bytes, tick, run>>
  BY DEF CommitMemory, setup
<1>2. PICK outcome \in IF job[c].large THEN CommitLarge(build, heap.page[s], range)
                       ELSE Commit(build, heap.page[s], range) :
           /\ ~outcome.ok => refusals > 0
           /\ refusals' = IF outcome.ok THEN refusals ELSE refusals - 1
           /\ heap' = [heap EXCEPT !.page[s] = outcome.page]
           /\ job' = [job EXCEPT ![c].step = IF outcome.ok THEN "record" ELSE "giveBack"]
  BY DEF CommitMemory, Go
<1>3. /\ s \in RunOf(run[c]) /\ s \in Segments /\ s \in heap.allocated /\ job[c].large \in BOOLEAN
      /\ job[c].from = heap.committed[s] /\ job[c].from < job[c].to
      /\ job[c].from \in Nat /\ job[c].to \in 0..PagesPerSegment
  BY <1>1, RunsAreApart, JobsHaveSteps DEF SegmentsInv, JobsAreOnRuns
<1>4. range \in SUBSET Pages /\ \A p \in range : ~(p < heap.committed[s])
  BY <1>3, HostIsKept DEF SegmentsInv, Pages
<1>5. heap \in Heaps /\ heap.page[s] \in [Pages -> PageStates] /\ job \in [Clients -> Jobs]
      /\ refusals \in Nat
  BY <1>3 DEF SegmentsInv, SegmentsTypeOK, Heaps
<1>6. /\ outcome.ok \in BOOLEAN /\ outcome.page \in [Pages -> PageStates]
      /\ \A p \in Pages \ range : outcome.page[p] = heap.page[s][p]
      /\ build = "windows" => \A p \in Pages : outcome.page[p] # "sealed"
      /\ outcome.ok => \A p \in range : outcome.page[p] = "open"
  <2>1. build = "windows" => \A p \in Pages : heap.page[s][p] # "sealed"
    BY <1>3 DEF SegmentsInv, OnlyWhere
  <2>2. build \in Builds
    BY HostIsKept DEF SegmentsInv
  <2> HIDE DEF s, range
  <2> QED BY <1>3, <1>4, <1>5, <2>1, <2>2, CommitOpensRange
<1> HIDE DEF s, range
<1>7. /\ heap' \in Heaps /\ heap'.allocated = heap.allocated /\ heap'.cached = heap.cached
      /\ heap'.cachedCount = heap.cachedCount /\ heap'.committed = heap.committed
      /\ \A o \in Segments \ {s} : heap'.page[o] = heap.page[o]
      /\ heap'.page[s] = outcome.page
  BY <1>2, <1>3, <1>5, <1>6 DEF Heaps
<1>8. /\ job' \in [Clients -> Jobs] /\ \A d \in Clients \ {c} : job'[d] = job[d]
      /\ job'[c] = [job[c] EXCEPT !.step = IF outcome.ok THEN "record" ELSE "giveBack"]
  <2>1. job[c] \in [step : {"claim", "commit", "record", "giveBack"}, segment : Nat,
                      large : BOOLEAN, from : Nat, to : 0..PagesPerSegment]
    BY <1>1, JobsHaveSteps DEF SegmentsInv
  <2>2. job'[c] = [job[c] EXCEPT !.step = IF outcome.ok THEN "record" ELSE "giveBack"]
    BY <1>2, <1>5
  <2>3. job'[c] \in Jobs
    BY <2>1, <2>2 DEF Jobs
  <2> QED BY <1>2, <1>5, <2>2, <2>3
<1>9. Segments' = Segments /\ Heaps' = Heaps /\ Runs' = Runs /\ Up' = Up /\ build' = build
  BY <1>1 DEF Segments, Capacity, Heaps, Runs, Up, build
<1>10. SegmentsTypeOK'
  <2>1. refusals' \in Nat
    BY <1>2, <1>5, <1>6
  <2> QED BY <1>1, <1>7, <1>8, <1>9, <2>1 DEF SegmentsInv, SegmentsTypeOK
<1>11. JobsAreOnRuns'
  <2>1. ASSUME NEW d \in Clients \ {c}, job'[d].step # "none"
        PROVE  /\ job'[d].segment \in RunOf(run'[d])
               /\ job'[d].from = heap'.committed[job'[d].segment] /\ job'[d].from < job'[d].to
               /\ job'[d].step = "record" =>
                    \A p \in job'[d].from..(job'[d].to - 1) : heap'.page[job'[d].segment][p] = "open"
    <3>1. /\ job'[d] = job[d] /\ run' = run /\ job[d].segment \in Segments \ {s}
      <4>1. job'[d] = job[d] /\ run' = run
        BY <1>1, <1>8
      <4>2. job[d].segment \in RunOf(run[d]) /\ job[d].step # "none"
        BY <2>1, <4>1 DEF SegmentsInv, JobsAreOnRuns
      <4>3. job[d].segment \in Segments /\ job[d].segment # s
        BY <1>3, <4>2, RunsAreApart
      <4> QED BY <4>1, <4>3
    <3> QED BY <1>7, <2>1, <3>1 DEF SegmentsInv, JobsAreOnRuns
  <2>2. /\ job'[c].segment = s /\ job'[c].from = job[c].from /\ job'[c].to = job[c].to
        /\ job'[c].step = IF outcome.ok THEN "record" ELSE "giveBack"
    <3>1. job[c] \in [step : {"claim", "commit", "record", "giveBack"}, segment : Nat,
                        large : BOOLEAN, from : Nat, to : 0..PagesPerSegment]
      BY <1>1, JobsHaveSteps DEF SegmentsInv
    <3> QED BY <1>8, <3>1 DEF s
  <2>3. job'[c].step = "record" =>
          \A p \in job'[c].from..(job'[c].to - 1) : heap'.page[s][p] = "open"
    BY <1>6, <1>7, <2>2 DEF range
  <2> QED BY <1>1, <1>3, <1>7, <2>1, <2>2, <2>3 DEF JobsAreOnRuns
<1>12. OnlyWhere'
  BY <1>1, <1>6, <1>7, <1>9 DEF SegmentsInv, OnlyWhere
<1>13. EverySegmentHasItsPlace'
  <2>1. \A p \in Pages : p < heap.committed[s] => heap.page[s][p] = "open"
    BY <1>3 DEF SegmentsInv, EverySegmentHasItsPlace
  <2>2. \A p \in Pages : p < heap'.committed[s] => heap'.page[s][p] = "open"
    BY <1>4, <1>6, <1>7, <2>1
  <2> QED BY <1>1, <1>3, <1>7, <2>2, PlacesStayBut
<1>14. BudgetIsKept'
  <2>1. InFlight' = InFlight
    <3>1. job[c].step = "commit" /\ job'[c].step \in {"record", "giveBack"}
          /\ job'[c].from = job[c].from /\ job'[c].to = job[c].to
      <4>1. job[c] \in [step : {"claim", "commit", "record", "giveBack"}, segment : Nat,
                          large : BOOLEAN, from : Nat, to : 0..PagesPerSegment]
        BY <1>1, JobsHaveSteps DEF SegmentsInv
      <4> QED BY <1>1, <1>8, <4>1
    <3> QED BY <1>8, <3>1 DEF InFlight, Wanted
  <2>2. SumFunction(InFlight') = SumFunction(InFlight) /\ PagesOf(heap', Segments') = PagesOf(heap, Segments)
    BY <1>7, <1>9, <2>1 DEF PagesOf
  <2> QED BY <1>1, <2>2 DEF SegmentsInv, BudgetIsKept
<1> QED BY <1>10, <1>11, <1>12, <1>13, <1>14 DEF SegmentsInv

\* Once committed, the pages are recorded: they are open, and were counted already.
LEMMA RecordKeeps ==
  ASSUME SegmentsInv, NEW c \in Clients, RecordCommit(c) \/ RecordLargeCommit(c)
  PROVE  SegmentsInv'
<1> DEFINE s == job[c].segment
<1>1. /\ job[c].step = "record" /\ UNCHANGED <<host, lifetime, mapped, bytes, tick, run, refusals>>
      /\ job' = [job EXCEPT ![c] = NoJob]
  BY DEF RecordCommit, RecordLargeCommit, setup, EndJob
<1>2. /\ s \in RunOf(run[c]) /\ s \in Segments /\ s \in heap.allocated
      /\ job[c].from = heap.committed[s] /\ job[c].from < job[c].to
      /\ job[c].from \in Nat /\ job[c].to \in 0..PagesPerSegment
      /\ \A p \in job[c].from..(job[c].to - 1) : heap.page[s][p] = "open"
  BY <1>1, RunsAreApart, JobsHaveSteps DEF SegmentsInv, JobsAreOnRuns
<1>3. heap \in Heaps /\ job \in [Clients -> Jobs]
  BY DEF SegmentsInv, SegmentsTypeOK
<1>4. Recorded(c) = [heap EXCEPT !.committed = [heap.committed EXCEPT ![s] = job[c].to]]
  <2>1. (IF heap.committed[s] < job[c].to THEN job[c].to ELSE heap.committed[s]) = job[c].to
    BY <1>2
  <2> QED BY <1>2, <1>3, <2>1 DEF Recorded, Heaps
<1> HIDE DEF s
<1>5. /\ heap' \in Heaps /\ heap'.allocated = heap.allocated /\ heap'.cached = heap.cached
      /\ heap'.cachedCount = heap.cachedCount /\ heap'.page = heap.page
      /\ heap'.committed = [heap.committed EXCEPT ![s] = job[c].to]
  <2> DEFINE r == Recorded(c)
  <2>1. /\ r \in Heaps /\ r.allocated = heap.allocated /\ r.cached = heap.cached
        /\ r.cachedCount = heap.cachedCount /\ r.page = heap.page
        /\ r.committed = [heap.committed EXCEPT ![s] = job[c].to]
    <3> DEFINE more == [heap.committed EXCEPT ![s] = job[c].to]
    <3>1. more \in [Segments -> 0..PagesPerSegment]
      BY <1>2, <1>3 DEF Heaps
    <3>2. r = [heap EXCEPT !.committed = more]
      BY <1>4
    <3> HIDE DEF more, r
    <3>3. /\ r \in Heaps /\ r.allocated = heap.allocated /\ r.cached = heap.cached
          /\ r.cachedCount = heap.cachedCount /\ r.page = heap.page /\ r.committed = more
      BY <1>3, <3>1, <3>2 DEF Heaps
    <3> QED BY <3>3 DEF more
  <2>2. heap' = r \/ heap' = [r EXCEPT !.pinned = @ \cup {s}]
    BY DEF RecordCommit, RecordLargeCommit, s
  <2> HIDE DEF r
  <2>3. CASE heap' = r
    BY <2>1, <2>3
  <2>4. CASE heap' = [r EXCEPT !.pinned = @ \cup {s}]
    <3> DEFINE pinned == r.pinned \cup {s}
    <3>1. pinned \in SUBSET Segments
      BY <1>2, <2>1 DEF Heaps
    <3>2. heap' = [r EXCEPT !.pinned = pinned]
      BY <2>4
    <3> HIDE DEF pinned
    <3>3. /\ heap' \in Heaps /\ heap'.allocated = r.allocated /\ heap'.cached = r.cached
          /\ heap'.cachedCount = r.cachedCount /\ heap'.page = r.page /\ heap'.committed = r.committed
      BY <2>1, <3>1, <3>2 DEF Heaps
    <3> QED BY <2>1, <3>3
  <2> QED BY <2>2, <2>3, <2>4
<1>6. heap.committed \in [Segments -> 0..PagesPerSegment]
  BY <1>3 DEF Heaps
<1>7. /\ job' \in [Clients -> Jobs] /\ \A d \in Clients \ {c} : job'[d] = job[d]
      /\ job'[c].step = "none"
  BY <1>1, <1>3 DEF Jobs, NoJob
<1>8. /\ Segments' = Segments /\ Heaps' = Heaps /\ Runs' = Runs /\ Up' = Up /\ build' = build
      /\ run' = run
  BY <1>1 DEF Segments, Capacity, Heaps, Runs, Up, build
<1>9. SegmentsTypeOK'
  BY <1>1, <1>5, <1>7, <1>8 DEF SegmentsInv, SegmentsTypeOK
<1>10. JobsAreOnRuns'
  <2>1. ASSUME NEW d \in Clients, job'[d].step # "none"
        PROVE  job'[d] = job[d] /\ job[d].segment \in Segments \ {s}
    <3>1. d # c /\ job'[d] = job[d] /\ job[d].step # "none"
      BY <1>7, <2>1
    <3>2. job[d].segment \in RunOf(run[d])
      BY <3>1 DEF SegmentsInv, JobsAreOnRuns
    <3>3. job[d].segment \in Segments /\ job[d].segment # s
      BY <1>2, <3>1, <3>2, RunsAreApart
    <3> QED BY <3>1, <3>3
  <2>2. \A d \in Clients : job'[d].step # "none" =>
          heap'.committed[job[d].segment] = heap.committed[job[d].segment]
    BY <1>5, <1>6, <2>1
  <2> QED BY <1>5, <1>8, <2>1, <2>2 DEF SegmentsInv, JobsAreOnRuns
<1>11. OnlyWhere'
  BY <1>5, <1>8 DEF SegmentsInv, OnlyWhere
<1>12. EverySegmentHasItsPlace'
  <2>1. /\ heap'.committed[s] = job[c].to
        /\ \A o \in Segments \ {s} : heap'.committed[o] = heap.committed[o] /\ heap'.page[o] = heap.page[o]
    BY <1>2, <1>5, <1>6
  <2>2. ASSUME NEW p \in Pages, p < job[c].to PROVE heap.page[s][p] = "open"
    <3>1. CASE p < heap.committed[s]
      BY <1>2, <3>1 DEF SegmentsInv, EverySegmentHasItsPlace
    <3>2. CASE ~(p < heap.committed[s])
      <4>1. p \in job[c].from..(job[c].to - 1)
        BY <1>2, <2>2, <3>2, HostIsKept DEF SegmentsInv
      <4> QED BY <1>2, <4>1
    <3> QED BY <3>1, <3>2
  <2> QED BY <1>1, <1>2, <1>5, <2>1, <2>2, PlacesStayBut
<1>13. BudgetIsKept'
  <2>1. SumFunction(InFlight') = SumFunction(InFlight) + InFlight'[c] - InFlight[c]
    BY <1>1, <1>7, <1>9, <1>10, TotalsChange DEF SegmentsInv
  <2>2. PagesOf(heap', Segments) = PagesOf(heap, Segments) + heap'.committed[s] - heap.committed[s]
    <3>1. \A o \in Segments \ {s} : heap'.committed[o] = heap.committed[o]
      BY <1>5, <1>6
    <3> QED BY <1>1, <1>2, <1>9, <1>10, <3>1, TotalsChange DEF SegmentsInv
  <2>3. PagesOf(heap, Segments) \in Nat /\ SumFunction(InFlight) \in Nat
    BY <1>1, <1>9, <1>10, TotalsChange DEF SegmentsInv
  <2>4. InFlight'[c] = 0 /\ InFlight[c] = job[c].to - job[c].from
    BY <1>1, <1>7 DEF InFlight, Wanted
  <2>5. heap'.committed[s] = job[c].to
    BY <1>2, <1>5, <1>6
  <2>6. PagesOf(heap', Segments) + SumFunction(InFlight') = PagesOf(heap, Segments) + SumFunction(InFlight)
    BY <1>2, <2>1, <2>2, <2>3, <2>4, <2>5
  <2> QED BY <1>1, <1>8, <2>6 DEF SegmentsInv, BudgetIsKept
<1> QED BY <1>9, <1>10, <1>11, <1>12, <1>13 DEF SegmentsInv

\* What pages are given back, and how: none is open that was not.
LEMMA DecommitLeaves ==
  ASSUME NEW b \in Builds, NEW page \in [Pages -> PageStates], NEW range, NEW reset \in BOOLEAN
  PROVE  /\ Decommit(b, page, range, reset) \in [Pages -> PageStates]
         /\ \A p \in Pages : p \notin range => Decommit(b, page, range, reset)[p] = page[p]
         /\ b = "windows" /\ (\A p \in Pages : page[p] # "sealed") =>
              \A p \in Pages : Decommit(b, page, range, reset)[p] # "sealed"
<1>1. DOMAIN page = Pages
  OBVIOUS
<1>2. CASE b \in {"linux", "macos"}
  BY <1>1, <1>2 DEF Decommit, DecommitOnPosix, PageStates
<1>3. CASE b \in {"windows", "lazyWindows"}
  BY <1>1, <1>3 DEF Decommit, DecommitOnWindows, PageStates
<1> QED BY <1>2, <1>3 DEF Builds

\* A client trims a segment of its own that it commits nothing of meanwhile.
LEMMA TrimKeeps ==
  ASSUME SegmentsInv, NEW c \in Clients, NEW s \in Segments, NEW pages \in Pages,
         TrimCommittedPagesTo(c, s, pages)
  PROVE  SegmentsInv'
<1>1. /\ s \in RunOf(run[c]) /\ job[c] = NoJob /\ heap.committed[s] > pages
      /\ bytes' = bytes - (heap.committed[s] - pages)
      /\ UNCHANGED <<host, lifetime, mapped, tick, run, job, refusals>>
  BY DEF TrimCommittedPagesTo, setup
<1>2. PICK reset \in BOOLEAN :
        heap' = [heap EXCEPT
          !.page[s] = Decommit(build, @, pages..(heap.committed[s] - 1), reset),
          !.committed[s] = pages]
  BY DEF TrimCommittedPagesTo, Resets
<1> DEFINE page == Decommit(build, heap.page[s], pages..(heap.committed[s] - 1), reset)
<1>3. /\ heap \in Heaps /\ heap.page[s] \in [Pages -> PageStates] /\ pages \in 0..PagesPerSegment
      /\ heap.committed \in [Segments -> 0..PagesPerSegment] /\ s \in heap.allocated
      /\ build \in Builds
  BY <1>1, RunsAreApart, HostIsKept DEF SegmentsInv, SegmentsTypeOK, Heaps, Pages
<1>4. /\ page \in [Pages -> PageStates]
      /\ \A p \in Pages : p \notin pages..(heap.committed[s] - 1) => page[p] = heap.page[s][p]
      /\ build = "windows" /\ (\A p \in Pages : heap.page[s][p] # "sealed") =>
           \A p \in Pages : page[p] # "sealed"
  BY <1>3, DecommitLeaves
<1>5. heap' = [heap EXCEPT !.page[s] = page, !.committed[s] = pages]
  BY <1>2
<1> HIDE DEF page
<1>6. /\ heap' \in Heaps /\ heap'.allocated = heap.allocated /\ heap'.cached = heap.cached
      /\ heap'.cachedCount = heap.cachedCount
      /\ heap'.page[s] = page /\ heap'.committed[s] = pages
      /\ \A o \in Segments \ {s} : heap'.committed[o] = heap.committed[o] /\ heap'.page[o] = heap.page[o]
  BY <1>3, <1>4, <1>5 DEF Heaps
<1>7. /\ Segments' = Segments /\ Heaps' = Heaps /\ Runs' = Runs /\ Up' = Up /\ build' = build
      /\ run' = run /\ job' = job
  BY <1>1 DEF Segments, Capacity, Heaps, Runs, Up, build
<1>8. bytes' \in Int
  <2>1. heap.committed[s] \in Int /\ pages \in Int /\ bytes \in Int
    BY <1>3 DEF SegmentsInv, SegmentsTypeOK
  <2> QED BY <1>1, <2>1
<1>9. SegmentsTypeOK'
  BY <1>1, <1>6, <1>7, <1>8 DEF SegmentsInv, SegmentsTypeOK
<1>10. JobsAreOnRuns'
  <2>1. ASSUME NEW d \in Clients, job[d].step # "none" PROVE job[d].segment \in Segments \ {s}
    <3>1. d # c /\ job[d].segment \in RunOf(run[d])
      BY <1>1, <2>1 DEF SegmentsInv, JobsAreOnRuns, NoJob
    <3>2. job[d].segment \in Segments /\ job[d].segment # s
      BY <1>1, <2>1, <3>1, RunsAreApart
    <3> QED BY <3>2
  <2> QED BY <1>6, <1>7, <2>1 DEF SegmentsInv, JobsAreOnRuns
<1>11. OnlyWhere'
  BY <1>4, <1>6, <1>7 DEF SegmentsInv, OnlyWhere
<1>12. EverySegmentHasItsPlace'
  <2>1. ASSUME NEW p \in Pages, p < pages PROVE page[p] = "open"
    <3>1. p \in Nat /\ pages \in Nat /\ heap.committed[s] \in Nat
      <4>1. SegmentsTypeOK /\ heap.committed[s] \in 0..PagesPerSegment
        BY <1>3 DEF SegmentsInv
      <4> QED BY <4>1, HostIsKept
    <3>2. p < heap.committed[s] /\ p \notin pages..(heap.committed[s] - 1)
      BY <1>1, <2>1, <3>1
    <3>3. heap.page[s][p] = "open"
      BY <3>2 DEF SegmentsInv, EverySegmentHasItsPlace
    <3> QED BY <1>4, <3>2, <3>3
  <2> QED BY <1>1, <1>3, <1>6, <2>1, PlacesStayBut
<1>13. BudgetIsKept'
  <2>1. InFlight' = InFlight
    BY <1>7 DEF InFlight, Wanted
  <2>2. PagesOf(heap', Segments) = PagesOf(heap, Segments) + heap'.committed[s] - heap.committed[s]
    BY <1>1, <1>6, <1>9, <1>10, TotalsChange DEF SegmentsInv
  <2>3. /\ PagesOf(heap, Segments) \in Nat /\ SumFunction(InFlight) \in Nat /\ CommitBudget \in Nat
        /\ bytes \in Int /\ heap.committed[s] \in Int /\ pages \in Int
    BY <1>1, <1>3, <1>9, <1>10, TotalsChange, SegmentAllocatorAssumption DEF SegmentsInv, SegmentsTypeOK
  <2>4. /\ bytes = PagesOf(heap, Segments) + SumFunction(InFlight) =>
             bytes' = PagesOf(heap', Segments) + SumFunction(InFlight)
        /\ bytes' <= bytes
    BY <1>1, <1>6, <2>2, <2>3
  <2>5. bytes <= CommitBudget => bytes' <= CommitBudget
    BY <1>8, <2>3, <2>4
  <2>6. SumFunction(InFlight') = SumFunction(InFlight) /\ PagesOf(heap', Segments') = PagesOf(heap', Segments)
    BY <1>7, <2>1
  <2> QED BY <1>1, <2>4, <2>5, <2>6 DEF SegmentsInv, BudgetIsKept
<1> QED BY <1>9, <1>10, <1>11, <1>12, <1>13 DEF SegmentsInv

\* A run that is chosen is of segments nobody has.
LEMMA ChosenRunIsFree ==
  ASSUME SegmentsInv, NEW count \in 1..Capacity, ChosenRun(count) # None
  PROVE  /\ ChosenRun(count) \in Nat /\ ChosenRun(count) + count <= Capacity
         /\ ChosenRun(count)..(ChosenRun(count) + count - 1) \subseteq Segments \ heap.allocated
<1> DEFINE first == ChosenRun(count)
<1>1. Capacity \in Nat \ {0} /\ count \in Nat \ {0}
  BY HostIsKept DEF SegmentsInv
<1>2. heap.cached \subseteq Segments \ heap.allocated
  BY DEF SegmentsInv, EverySegmentHasItsPlace
<1>3. ASSUME NEW wanted, FirstFit(wanted, Capacity, count) # None
      PROVE  /\ FirstFit(wanted, Capacity, count) \in 0..(Capacity - count)
             /\ FirstFit(wanted, Capacity, count)..(FirstFit(wanted, Capacity, count) + count - 1)
                  \subseteq wanted
  <2> DEFINE fits == {i \in 0..(Capacity - count) : i..(i + count - 1) \subseteq wanted}
  <2>1. FirstFit(wanted, Capacity, count) = CHOOSE i \in fits : \A k \in fits : i <= k
    BY <1>1, <1>3 DEF FirstFit
  <2>2. fits # {}
    BY <1>3 DEF FirstFit
  <2>3. \E i \in fits : \A k \in fits : i <= k
    <3>1. fits \in SUBSET Nat
      OBVIOUS
    <3> HIDE DEF fits
    <3> QED BY <2>2, <3>1, LeastNatural
  <2>4. FirstFit(wanted, Capacity, count) \in fits
    <3> HIDE DEF fits
    <3> QED BY <2>1, <2>3
  <2> QED BY <2>4
<1>4. ASSUME NEW wanted, first = FirstFit(wanted, Capacity, count),
             wanted \cap Segments \subseteq Segments \ heap.allocated
      PROVE  first \in Nat /\ first + count <= Capacity /\ first..(first + count - 1) \subseteq Segments \ heap.allocated
  <2>1. first \in 0..(Capacity - count) /\ first..(first + count - 1) \subseteq wanted
    BY <1>3, <1>4
  <2>2. PICK n \in 0..(Capacity - count) : n = first
    BY <2>1
  <2>3. n..(n + count - 1) \subseteq Segments /\ n + count <= Capacity
    BY <1>1, <2>2 DEF Segments
  <2> QED BY <1>4, <2>1, <2>2, <2>3
<1>5. \/ first = FindCachedRun(heap.cached, Capacity, count)
      \/ first = FindFreeRun(heap.allocated, Capacity, count)
  BY DEF ChosenRun
<1>6. CASE first = FindCachedRun(heap.cached, Capacity, count)
  <2>1. first = FirstFit(heap.cached, Capacity, count)
    BY <1>1, <1>6, ScanIsFirstFitFor DEF FindCachedRun
  <2> HIDE DEF first
  <2> QED BY <1>2, <1>4, <2>1 DEF first
<1>7. CASE first = FindFreeRun(heap.allocated, Capacity, count)
  <2> DEFINE free == WordsOf(Capacity) \ heap.allocated
  <2>1. first = FirstFit(free, Capacity, count)
    BY <1>1, <1>7, ScanIsFirstFitFor DEF FindFreeRun
  <2>2. free \cap Segments \subseteq Segments \ heap.allocated
    OBVIOUS
  <2> HIDE DEF first, free
  <2> QED BY <1>4, <2>1, <2>2 DEF first
<1> QED BY <1>5, <1>6, <1>7

\* What of a run is kept fits into the cache.
LEMMA KeptFits ==
  ASSUME SegmentsInv, NEW R \in SUBSET Segments
  PROVE  /\ Kept(R) \subseteq R /\ IsFiniteSet(Kept(R)) /\ Cardinality(Kept(R)) \in Nat
         /\ heap.cachedCount + Cardinality(Kept(R)) <= MaxCached
         /\ \A s \in Kept(R) : heap.committed[s] > 0
<1> DEFINE paged == {s \in R : heap.committed[s] > 0}
           Below(s) == {o \in paged : o < s}
<1>1. Kept(R) = {s \in paged : heap.cachedCount + Cardinality(Below(s)) < MaxCached}
  BY DEF Kept
<1>2. Kept(R) \subseteq R /\ Kept(R) \subseteq paged /\ paged \subseteq Segments
  BY <1>1
<1>3. IsFiniteSet(Segments) /\ Segments \subseteq Nat /\ heap.cachedCount \in Nat /\ MaxCached \in Nat
      /\ Capacity \in Nat /\ heap.cachedCount <= MaxCached
  BY HostIsKept, SegmentAllocatorAssumption DEF SegmentsInv, SegmentsTypeOK, Heaps, EverySegmentHasItsPlace
<1>4. IsFiniteSet(Kept(R)) /\ Cardinality(Kept(R)) \in Nat
  BY <1>2, <1>3, FS_Subset, FS_CardinalityType
<1>5. CASE Kept(R) = {}
  <2>1. Cardinality(Kept(R)) = 0
    BY <1>5, FS_EmptySet
  <2> HIDE DEF paged
  <2> QED BY <1>2, <1>3, <1>4, <1>5, <2>1
<1>6. CASE Kept(R) # {}
  <2> DEFINE K == Kept(R)
             fromTop == {n \in 0..Capacity : Capacity - n \in K}
  <2>1. fromTop # {} /\ fromTop \in SUBSET Nat
    <3>1. PICK s \in K : TRUE
      BY <1>6
    <3>2. s \in 0..(Capacity - 1)
      BY <1>2, <3>1 DEF Segments
    <3>3. Capacity - s \in 0..Capacity /\ Capacity - (Capacity - s) = s
      BY <1>3, <3>2
    <3>4. Capacity - s \in fromTop
      <4> HIDE DEF K
      <4> QED BY <3>1, <3>3
    <3> QED BY <3>4
  <2>2. PICK n \in fromTop : \A m \in fromTop : n <= m
    <3> HIDE DEF fromTop
    <3> QED BY <2>1, LeastNatural
  <2> DEFINE last == Capacity - n
  <2>3. last \in K /\ n \in 0..Capacity
    OBVIOUS
  <2>4. ASSUME NEW s \in K PROVE s <= last
    <3>1. s \in 0..(Capacity - 1)
      BY <1>2 DEF Segments
    <3>2. Capacity - s \in fromTop
      <4>1. Capacity - s \in 0..Capacity /\ Capacity - (Capacity - s) = s
        BY <1>3, <3>1
      <4> HIDE DEF K
      <4> QED BY <2>4, <4>1
    <3>3. n <= Capacity - s
      <4> HIDE DEF fromTop
      <4> QED BY <2>2, <3>2
    <3> QED BY <1>3, <2>3, <3>1, <3>3
  <2> HIDE DEF last, fromTop
  <2>5. K \subseteq Below(last) \cup {last}
    <3>1. ASSUME NEW s \in K PROVE s < last \/ s = last
      <4>1. s \in Nat /\ last \in Nat /\ s <= last
        BY <1>2, <1>3, <2>3, <2>4
      <4> QED BY <4>1
    <3> QED BY <1>2, <3>1
  <2>6. IsFiniteSet(Below(last)) /\ Cardinality(Below(last)) \in Nat /\ last \notin Below(last)
    <3>1. Below(last) \subseteq Segments /\ last \notin Below(last)
      <4>1. last \in Nat
        BY <1>2, <1>3, <2>3
      <4> QED BY <1>2, <4>1
    <3> HIDE DEF Below
    <3> QED BY <1>3, <3>1, FS_Subset, FS_CardinalityType
  <2>7. heap.cachedCount + Cardinality(Below(last)) < MaxCached
    BY <1>1, <2>3
  <2> HIDE DEF Below
  <2>8. Cardinality(K) <= Cardinality(Below(last)) + 1
    <3>1. IsFiniteSet(Below(last) \cup {last}) /\ Cardinality(Below(last) \cup {last}) = Cardinality(Below(last)) + 1
      BY <2>6, FS_AddElement
    <3> HIDE DEF K
    <3> QED BY <2>5, <3>1, FS_Subset
  <2>9. heap.cachedCount + Cardinality(K) <= MaxCached
    BY <1>3, <1>4, <2>6, <2>7, <2>8
  <2> QED BY <1>2, <1>4, <2>9
<1> QED BY <1>2, <1>4, <1>5, <1>6

\* What purging the segments of S leaves of the heap.
Purged(h, S) ==
  /\ h \in Heaps /\ h.allocated = heap.allocated /\ h.cached = heap.cached \ S
  /\ h.cachedCount = Cardinality(heap.cached \ S)
  /\ \A s \in S : h.committed[s] = 0
  /\ \A s \in Segments \ S : h.committed[s] = heap.committed[s] /\ h.page[s] = heap.page[s]
  /\ build = "windows" => \A s \in Segments : \A p \in Pages : h.page[s][p] # "sealed"

\* Purged segments leave the cache, and no other page is touched.
LEMMA PurgeLeaves ==
  ASSUME SegmentsInv, NEW S, S \subseteq Segments, NEW reset \in BOOLEAN
  PROVE  Purged(PurgeSegments(heap, S, reset), S)
<1> DEFINE h == PurgeSegments(heap, S, reset)
<1>1. /\ heap \in Heaps /\ build \in Builds /\ heap.committed \in [Segments -> 0..PagesPerSegment]
      /\ heap.page \in [Segments -> [Pages -> PageStates]] /\ PagesPerSegment \in Nat
      /\ heap.lastFree \in [Segments -> Nat] /\ IsFiniteSet(heap.cached)
      /\ heap.cachedCount = Cardinality(heap.cached) /\ heap.cached \subseteq Segments
  <2>1. heap \in Heaps /\ build \in Builds /\ PagesPerSegment \in Nat /\ IsFiniteSet(Segments)
    BY HostIsKept DEF SegmentsInv, SegmentsTypeOK
  <2>2. heap.cached \subseteq Segments /\ heap.cachedCount = Cardinality(heap.cached)
    BY <2>1 DEF Heaps, SegmentsInv, EverySegmentHasItsPlace
  <2> QED BY <2>1, <2>2, FS_Subset DEF Heaps
<1> DEFINE page == [s \in Segments |->
                      IF s \in S THEN Decommit(build, heap.page[s], 0..(heap.committed[s] - 1), reset)
                      ELSE heap.page[s]]
           committed == [s \in Segments |-> IF s \in S THEN 0 ELSE heap.committed[s]]
           lastFree == [s \in Segments |-> IF s \in S THEN 0 ELSE heap.lastFree[s]]
           pinned == heap.pinned \ S
           cached == heap.cached \ S
           cachedCount == heap.cachedCount - Cardinality(S \cap heap.cached)
<1>2. h = [heap EXCEPT !.page = page, !.committed = committed, !.lastFree = lastFree,
                       !.pinned = pinned, !.cached = cached, !.cachedCount = cachedCount]
  BY DEF PurgeSegments
<1>3. /\ committed \in [Segments -> 0..PagesPerSegment]
      /\ \A s \in S : committed[s] = 0
      /\ \A s \in Segments \ S : committed[s] = heap.committed[s]
  BY <1>1
<1>4. page \in [Segments -> [Pages -> PageStates]] /\ \A s \in Segments \ S : page[s] = heap.page[s]
  <2>1. \A s \in S : Decommit(build, heap.page[s], 0..(heap.committed[s] - 1), reset) \in [Pages -> PageStates]
    BY <1>1, DecommitLeaves
  <2> QED BY <1>1, <2>1
<1>5. build = "windows" => \A s \in Segments : \A p \in Pages : page[s][p] # "sealed"
  <2> SUFFICES ASSUME build = "windows", NEW s \in Segments PROVE \A p \in Pages : page[s][p] # "sealed"
    OBVIOUS
  <2>1. \A p \in Pages : heap.page[s][p] # "sealed"
    BY DEF SegmentsInv, OnlyWhere
  <2>2. CASE s \in S
    <3>1. \A p \in Pages : Decommit(build, heap.page[s], 0..(heap.committed[s] - 1), reset)[p] # "sealed"
      BY <1>1, <2>1, DecommitLeaves
    <3> QED BY <2>2, <3>1
  <2> QED BY <2>1, <2>2
<1>6. lastFree \in [Segments -> Nat] /\ cached \in SUBSET Segments
  BY <1>1
<1>7. cachedCount = Cardinality(cached) /\ cachedCount \in Nat
  <2>1. heap.cached \cap S = S \cap heap.cached
    OBVIOUS
  <2>2. IsFiniteSet(cached) /\ Cardinality(cached) = Cardinality(heap.cached) - Cardinality(heap.cached \cap S)
    BY <1>1, FS_Difference
  <2> QED BY <1>1, <2>1, <2>2, FS_CardinalityType
<1>8. pinned \in SUBSET Segments
  BY <1>1 DEF Heaps
<1> HIDE DEF page, committed, lastFree, cachedCount, pinned, cached, h
<1>9. /\ h \in Heaps /\ h.allocated = heap.allocated /\ h.cached = cached
      /\ h.cachedCount = cachedCount /\ h.committed = committed /\ h.page = page
  BY <1>1, <1>2, <1>3, <1>4, <1>6, <1>7, <1>8 DEF Heaps
<1>10. Purged(h, S)
  BY <1>3, <1>4, <1>5, <1>7, <1>9 DEF cached, Purged
<1> QED BY <1>10 DEF h

\* Pages given back by a purge are given back to the budget.
LEMMA PurgePays ==
  ASSUME SegmentsInv, NEW S \in SUBSET Segments, NEW committed,
         \A s \in S : committed[s] = 0,
         \A s \in Segments \ S : committed[s] = heap.committed[s]
  PROVE  /\ SumFunctionOnSet(committed, Segments) = PagesOf(heap, Segments) - PagesOf(heap, S)
         /\ PagesOf(heap, Segments) \in Nat /\ PagesOf(heap, S) \in Nat
         /\ SumFunction(InFlight) \in Nat
<1>1. IsFiniteSet(Segments) /\ IsFiniteSet(S) /\ \A s \in Segments : heap.committed[s] \in Nat
  BY HostIsKept, FS_Subset DEF SegmentsInv, SegmentsTypeOK, Heaps
<1>2. SumFunctionOnSet(committed, Segments) = PagesOf(heap, Segments) - PagesOf(heap, S)
  BY <1>1, SumDrops DEF PagesOf
<1>3. PagesOf(heap, Segments) \in Nat /\ PagesOf(heap, S) \in Nat
  BY <1>1, SumIsNatural DEF PagesOf
<1>4. SumFunction(InFlight) \in Nat
  <2>1. DOMAIN InFlight = Clients /\ \A c \in Clients : InFlight[c] \in Nat
    BY InFlightIsNatural DEF InFlight, InFlightNatural, SegmentsInv
  <2> QED BY <2>1, SegmentAllocatorAssumption, SumIsNatural DEF SumFunction
<1> QED BY <1>2, <1>3, <1>4

\* A run that is handed out was nobody's.
LEMMA AllocKeeps ==
  ASSUME SegmentsInv, NEW c \in Clients, NEW count \in 1..Capacity, AllocSegments(c, count)
  PROVE  SegmentsInv'
<1> DEFINE first == ChosenRun(count)
           taken == first..(first + count - 1)
           new == [first |-> first, count |-> count]
           lastFree == [s \in Segments |-> IF s \in taken THEN 0 ELSE heap.lastFree[s]]
           allocated == heap.allocated \cup taken
           cached == heap.cached \ taken
           cachedCount == heap.cachedCount - Cardinality(taken \cap heap.cached)
<1>1. /\ Up /\ run[c] = NoRun /\ first # None
      /\ run' = [run EXCEPT ![c] = new]
      /\ heap' = [heap EXCEPT !.allocated = allocated, !.cached = cached,
                              !.cachedCount = cachedCount, !.lastFree = lastFree]
      /\ UNCHANGED <<host, lifetime, mapped, bytes, tick, job, refusals>>
  BY DEF AllocSegments, setup
<1>2. first \in Nat /\ first + count <= Capacity /\ taken \subseteq Segments \ heap.allocated /\ count \in Nat \ {0}
  BY <1>1, ChosenRunIsFree, HostIsKept DEF SegmentsInv
<1>3. heap \in Heaps /\ run \in [Clients -> Runs] /\ job \in [Clients -> Jobs]
  BY DEF SegmentsInv, SegmentsTypeOK
<1>4. /\ IsFiniteSet(heap.cached) /\ heap.cached \subseteq Segments
      /\ heap.cachedCount = Cardinality(heap.cached) /\ heap.cachedCount <= MaxCached /\ MaxCached \in Nat
  <2>1. heap.cached \subseteq Segments /\ IsFiniteSet(Segments)
    BY <1>3, HostIsKept DEF SegmentsInv, Heaps
  <2> QED BY <2>1, FS_Subset, SegmentAllocatorAssumption DEF SegmentsInv, EverySegmentHasItsPlace
<1>5. RunOf(new) = taken /\ new \in Runs /\ new # NoRun
  BY <1>2 DEF RunOf, Runs, NoRun
<1> HIDE DEF first, new
<1>6. /\ cachedCount = Cardinality(cached) /\ cachedCount \in Nat /\ cachedCount <= MaxCached
      /\ allocated \in SUBSET Segments /\ cached \in SUBSET Segments /\ lastFree \in [Segments -> Nat]
  <2>1. heap.cached \cap taken = taken \cap heap.cached
    OBVIOUS
  <2>2. IsFiniteSet(cached) /\ Cardinality(cached) = Cardinality(heap.cached) - Cardinality(heap.cached \cap taken)
    BY <1>4, FS_Difference
  <2>3. Cardinality(taken \cap heap.cached) \in Nat /\ Cardinality(cached) \in Nat /\ Cardinality(heap.cached) \in Nat
    BY <1>4, <2>1, <2>2, FS_Intersection, FS_CardinalityType
  <2>4. cachedCount = Cardinality(cached) /\ cachedCount \in Nat /\ cachedCount <= MaxCached
    <3>1. cachedCount = Cardinality(cached)
      BY <1>4, <2>1, <2>2
    <3>2. Cardinality(cached) <= Cardinality(heap.cached)
      <4>1. IsFiniteSet(heap.cached) /\ cached \subseteq heap.cached
        BY <1>4
      <4> HIDE DEF cached
      <4> QED BY <4>1, FS_Subset
    <3> HIDE DEF cached, cachedCount
    <3> QED BY <1>4, <2>3, <3>1, <3>2
  <2>5. allocated \in SUBSET Segments /\ cached \in SUBSET Segments /\ lastFree \in [Segments -> Nat]
    BY <1>2, <1>3, <1>4 DEF Heaps
  <2> QED BY <2>4, <2>5
<1> HIDE DEF taken, allocated, cached, cachedCount, lastFree
<1>7. /\ heap' \in Heaps /\ heap'.allocated = allocated /\ heap'.cached = cached
      /\ heap'.cachedCount = cachedCount /\ heap'.committed = heap.committed /\ heap'.page = heap.page
  BY <1>1, <1>3, <1>6 DEF Heaps
<1>8. /\ run' \in [Clients -> Runs] /\ run'[c] = new /\ \A d \in Clients \ {c} : run'[d] = run[d]
  BY <1>1, <1>3, <1>5
<1>9. /\ Segments' = Segments /\ Heaps' = Heaps /\ Runs' = Runs /\ Up' = Up /\ build' = build
      /\ job' = job
  BY <1>1 DEF Segments, Capacity, Heaps, Runs, Up, build
<1>10. SegmentsTypeOK'
  BY <1>1, <1>7, <1>8, <1>9 DEF SegmentsInv, SegmentsTypeOK
<1>11. JobsAreOnRuns'
  <2>1. job[c].step = "none"
    <3>1. RunOf(run[c]) = {}
      BY <1>1, RunsAreSegments DEF SegmentsInv
    <3> QED BY <3>1 DEF SegmentsInv, JobsAreOnRuns
  <2> QED BY <1>7, <1>8, <1>9, <2>1 DEF SegmentsInv, JobsAreOnRuns
<1>12. OnlyWhere'
  BY <1>1, <1>7, <1>9 DEF SegmentsInv, OnlyWhere
<1>13. EverySegmentHasItsPlace'
  <2>1. mapped' = IF Up' THEN {"segments", "metadata"} ELSE {}
    BY <1>1, <1>9 DEF SegmentsInv, EverySegmentHasItsPlace
  <2>2. heap'.allocated = UNION {RunOf(run'[d]) : d \in Clients}
    <3>1. heap.allocated = UNION {RunOf(run[d]) : d \in Clients} /\ RunOf(run[c]) = {}
      BY <1>1, RunsAreSegments DEF SegmentsInv, EverySegmentHasItsPlace
    <3>2. RunOf(run'[c]) = taken /\ \A d \in Clients \ {c} : RunOf(run'[d]) = RunOf(run[d])
      BY <1>5, <1>8
    <3> QED BY <1>7, <3>1, <3>2 DEF allocated
  <2>3. ASSUME NEW d \in Clients, NEW e \in Clients, d # e PROVE RunOf(run'[d]) \cap RunOf(run'[e]) = {}
    <3>1. \A f \in Clients \ {c} : RunOf(run'[f]) = RunOf(run[f]) /\ RunOf(run[f]) \cap taken = {}
      BY <1>2, <1>8, RunsAreApart
    <3>2. RunOf(run'[c]) = taken
      BY <1>5, <1>8
    <3>3. RunOf(run[d]) \cap RunOf(run[e]) = {}
      BY <2>3 DEF SegmentsInv, EverySegmentHasItsPlace
    <3> QED BY <2>3, <3>1, <3>2, <3>3
  <2>4. heap'.cached = {s \in Segments' \ heap'.allocated : heap'.committed[s] > 0}
    <3>1. heap.cached = {s \in Segments \ heap.allocated : heap.committed[s] > 0}
      BY DEF SegmentsInv, EverySegmentHasItsPlace
    <3> QED BY <1>7, <1>9, <3>1 DEF cached, allocated
  <2>5. heap'.cachedCount = Cardinality(heap'.cached) /\ heap'.cachedCount <= MaxCached
    BY <1>6, <1>7
  <2>6. \A s \in Segments' : \A p \in Pages : p < heap'.committed[s] => heap'.page[s][p] = "open"
    BY <1>7, <1>9 DEF SegmentsInv, EverySegmentHasItsPlace
  <2> QED BY <2>1, <2>2, <2>3, <2>4, <2>5, <2>6 DEF EverySegmentHasItsPlace
<1>14. BudgetIsKept'
  <2>1. InFlight' = InFlight
    BY <1>9 DEF InFlight, Wanted
  <2>2. SumFunction(InFlight') = SumFunction(InFlight) /\ PagesOf(heap', Segments') = PagesOf(heap, Segments)
    BY <1>7, <1>9, <2>1 DEF PagesOf
  <2> QED BY <1>1, <2>2 DEF SegmentsInv, BudgetIsKept
<1> QED BY <1>10, <1>11, <1>12, <1>13, <1>14 DEF SegmentsInv

\* What is freed goes to the cache or is purged.
LEMMA FreeKeeps ==
  ASSUME SegmentsInv, NEW c \in Clients, FreeSegments(c)
  PROVE  SegmentsInv'
<1> DEFINE freed == RunOf(run[c])
           kept == Kept(freed)
           S == freed \ kept
<1>1. /\ run[c] # NoRun /\ job[c] = NoJob /\ run' = [run EXCEPT ![c] = NoRun]
      /\ bytes' = bytes - PagesOf(heap, S)
      /\ UNCHANGED <<host, lifetime, mapped, tick, job, refusals>>
  BY DEF FreeSegments, setup
<1>2. PICK reset \in BOOLEAN :
        heap' = [PurgeSegments(heap, S, reset) EXCEPT
                   !.allocated = @ \ freed, !.cached = @ \cup kept,
                   !.cachedCount = @ + Cardinality(kept),
                   !.lastFree = [s \in Segments |-> IF s \in kept THEN tick ELSE @[s]]]
  BY DEF FreeSegments, Resets
<1> DEFINE h == PurgeSegments(heap, S, reset)
<1>3. /\ freed \subseteq heap.allocated /\ freed \subseteq Segments /\ S \in SUBSET Segments
      /\ kept \subseteq freed
      /\ run \in [Clients -> Runs] /\ job \in [Clients -> Jobs] /\ tick \in Nat /\ bytes \in Int
      /\ heap.cached \subseteq Segments \ heap.allocated
  BY RunsAreApart, KeptFits DEF SegmentsInv, SegmentsTypeOK, EverySegmentHasItsPlace
<1>4. /\ IsFiniteSet(kept) /\ Cardinality(kept) \in Nat
      /\ heap.cachedCount + Cardinality(kept) <= MaxCached
      /\ \A s \in kept : heap.committed[s] > 0
  BY <1>3, KeptFits
<1> HIDE DEF freed, kept, h
<1>5. /\ h \in Heaps /\ h.allocated = heap.allocated /\ h.cached = heap.cached \ S
      /\ h.cachedCount = Cardinality(heap.cached \ S)
      /\ \A s \in S : h.committed[s] = 0
      /\ \A s \in Segments \ S : h.committed[s] = heap.committed[s] /\ h.page[s] = heap.page[s]
      /\ build = "windows" => \A s \in Segments : \A p \in Pages : h.page[s][p] # "sealed"
  <2>1. Purged(PurgeSegments(heap, S, reset), S)
    BY <1>3, PurgeLeaves
  <2>2. Purged(h, S)
    BY <2>1 DEF h
  <2> HIDE DEF S
  <2> QED BY <2>2 DEF Purged
<1>6. heap.cached \ S = heap.cached
  BY <1>3
<1> DEFINE allocated == h.allocated \ freed
           cached == h.cached \cup kept
           cachedCount == h.cachedCount + Cardinality(kept)
           lastFree == [s \in Segments |-> IF s \in kept THEN tick ELSE h.lastFree[s]]
<1>7. heap' = [h EXCEPT !.allocated = allocated, !.cached = cached,
                        !.cachedCount = cachedCount, !.lastFree = lastFree]
  BY <1>2 DEF h
<1>8. /\ allocated \in SUBSET Segments /\ cached \in SUBSET Segments /\ lastFree \in [Segments -> Nat]
      /\ cachedCount = Cardinality(cached) /\ cachedCount \in Nat /\ cachedCount <= MaxCached
  <2>1. IsFiniteSet(heap.cached) /\ Cardinality(heap.cached) \in Nat
        /\ heap.cachedCount = Cardinality(heap.cached)
    <3>1. heap.cached \subseteq Segments /\ IsFiniteSet(Segments)
      BY <1>3, HostIsKept DEF SegmentsInv
    <3> QED BY <3>1, FS_Subset, FS_CardinalityType DEF SegmentsInv, EverySegmentHasItsPlace
  <2>2. heap.cached \cap kept = {}
    BY <1>3
  <2>3. Cardinality(heap.cached \cup kept) = Cardinality(heap.cached) + Cardinality(kept)
    BY <1>4, <2>1, <2>2, FS_Union, FS_EmptySet
  <2>4. cachedCount = Cardinality(heap.cached) + Cardinality(kept) /\ cached = heap.cached \cup kept
    BY <1>5, <1>6
  <2>5. allocated \in SUBSET Segments /\ cached \in SUBSET Segments /\ lastFree \in [Segments -> Nat]
    BY <1>3, <1>5 DEF Heaps
  <2> HIDE DEF cached, cachedCount
  <2> QED BY <1>4, <2>1, <2>3, <2>4, <2>5
<1> HIDE DEF allocated, cached, cachedCount, lastFree, S
<1>9. /\ heap' \in Heaps /\ heap'.allocated = allocated /\ heap'.cached = cached
      /\ heap'.cachedCount = cachedCount /\ heap'.committed = h.committed /\ heap'.page = h.page
  BY <1>5, <1>7, <1>8 DEF Heaps
<1>10. run' \in [Clients -> Runs] /\ run'[c] = NoRun /\ \A d \in Clients \ {c} : run'[d] = run[d]
  BY <1>1, <1>3 DEF Runs
<1>11. /\ Segments' = Segments /\ Heaps' = Heaps /\ Runs' = Runs /\ Up' = Up /\ build' = build
       /\ job' = job
  BY <1>1 DEF Segments, Capacity, Heaps, Runs, Up, build
<1>12. /\ SumFunctionOnSet(heap'.committed, Segments) = PagesOf(heap, Segments) - PagesOf(heap, S)
       /\ PagesOf(heap, Segments) \in Nat /\ PagesOf(heap, S) \in Nat
       /\ SumFunction(InFlight) \in Nat
  BY <1>3, <1>5, <1>9, PurgePays
<1>13. SegmentsTypeOK'
  <2>1. bytes' \in Int
    BY <1>1, <1>3, <1>12
  <2> QED BY <1>1, <1>9, <1>10, <1>11, <2>1 DEF SegmentsInv, SegmentsTypeOK
<1>14. JobsAreOnRuns'
  <2>1. ASSUME NEW d \in Clients, job[d].step # "none"
        PROVE  d # c /\ job[d].segment \in RunOf(run[d]) /\ job[d].segment \in Segments \ S
    <3>1. d # c /\ job[d].segment \in RunOf(run[d])
      BY <1>1, <2>1 DEF SegmentsInv, JobsAreOnRuns, NoJob
    <3>2. job[d].segment \in Segments /\ job[d].segment \notin freed
      BY <2>1, <3>1, RunsAreApart DEF freed
    <3> QED BY <3>1, <3>2 DEF S
  <2> QED BY <1>5, <1>9, <1>10, <1>11, <2>1 DEF SegmentsInv, JobsAreOnRuns
<1>15. OnlyWhere'
  BY <1>5, <1>9, <1>10, <1>11 DEF SegmentsInv, OnlyWhere
<1>16. EverySegmentHasItsPlace'
  <2>1. mapped' = IF Up' THEN {"segments", "metadata"} ELSE {}
    BY <1>1, <1>11 DEF SegmentsInv, EverySegmentHasItsPlace
  <2>2. heap'.allocated = UNION {RunOf(run'[d]) : d \in Clients}
    <3>1. heap.allocated = UNION {RunOf(run[d]) : d \in Clients}
      BY DEF SegmentsInv, EverySegmentHasItsPlace
    <3>2. RunOf(run'[c]) = {}
      BY <1>10, RunsAreSegments DEF SegmentsInv
    <3>3. \A d \in Clients \ {c} : RunOf(run'[d]) = RunOf(run[d]) /\ RunOf(run[d]) \cap freed = {}
      BY <1>10 DEF SegmentsInv, EverySegmentHasItsPlace, freed
    <3> QED BY <1>5, <1>9, <3>1, <3>2, <3>3 DEF allocated, freed
  <2>3. ASSUME NEW d \in Clients, NEW e \in Clients, d # e PROVE RunOf(run'[d]) \cap RunOf(run'[e]) = {}
    <3>1. RunOf(run'[c]) = {} /\ \A f \in Clients \ {c} : RunOf(run'[f]) = RunOf(run[f])
      BY <1>10, RunsAreSegments DEF SegmentsInv
    <3>2. RunOf(run[d]) \cap RunOf(run[e]) = {}
      BY <2>3 DEF SegmentsInv, EverySegmentHasItsPlace
    <3> QED BY <2>3, <3>1, <3>2
  <2>4. heap'.cached = {s \in Segments' \ heap'.allocated : heap'.committed[s] > 0}
    <3>1. heap.cached = {s \in Segments \ heap.allocated : heap.committed[s] > 0}
      BY DEF SegmentsInv, EverySegmentHasItsPlace
    <3>2. ASSUME NEW s \in Segments PROVE s \in cached <=> s \notin allocated /\ h.committed[s] > 0
      <4>1. CASE s \notin freed
        <5>1. s \in cached <=> s \in heap.cached
          BY <1>3, <1>5, <1>6, <4>1 DEF cached
        <5>2. h.committed[s] = heap.committed[s] /\ (s \in allocated <=> s \in heap.allocated)
          BY <1>5, <4>1 DEF S, allocated
        <5> QED BY <3>1, <5>1, <5>2
      <4>2. CASE s \in kept
        BY <1>3, <1>4, <1>5, <4>2 DEF S, cached, allocated
      <4>3. CASE s \in S
        <5>1. s \notin kept /\ s \in freed /\ s \notin heap.cached /\ h.committed[s] = 0
          BY <1>3, <1>5, <4>3 DEF S
        <5> QED BY <1>5, <5>1 DEF cached
      <4> QED BY <4>1, <4>2, <4>3 DEF S
    <3> QED BY <1>8, <1>9, <1>11, <3>2
  <2>5. heap'.cachedCount = Cardinality(heap'.cached) /\ heap'.cachedCount <= MaxCached
    BY <1>8, <1>9
  <2>6. ASSUME NEW s \in Segments, NEW p \in Pages, p < heap'.committed[s] PROVE heap'.page[s][p] = "open"
    <3>1. CASE s \in S
      BY <1>5, <1>9, <2>6, <3>1, HostIsKept DEF SegmentsInv
    <3>2. CASE s \notin S
      BY <1>5, <1>9, <2>6, <3>2 DEF SegmentsInv, EverySegmentHasItsPlace
    <3> QED BY <3>1, <3>2
  <2> QED BY <1>11, <2>1, <2>2, <2>3, <2>4, <2>5, <2>6 DEF EverySegmentHasItsPlace
<1>17. BudgetIsKept'
  <2>1. InFlight' = InFlight
    BY <1>11 DEF InFlight, Wanted
  <2>2. /\ SumFunction(InFlight') = SumFunction(InFlight)
        /\ PagesOf(heap', Segments') = PagesOf(heap, Segments) - PagesOf(heap, S)
    BY <1>11, <1>12, <2>1 DEF PagesOf
  <2>3. CommitBudget \in Nat
    BY SegmentAllocatorAssumption
  <2> QED BY <1>1, <1>3, <1>12, <2>2, <2>3 DEF SegmentsInv, BudgetIsKept
<1> QED BY <1>13, <1>14, <1>15, <1>16, <1>17 DEF SegmentsInv

\* The sweep purges cached segments alone.
LEMMA TickKeeps ==
  ASSUME SegmentsInv, Tick
  PROVE  SegmentsInv'
<1> DEFINE S == Swept(tick')
<1>1. /\ Up /\ tick' = (tick + 1) % TickWrap /\ bytes' = bytes - PagesOf(heap, S)
      /\ UNCHANGED <<host, lifetime, mapped, run, job, refusals>>
  BY DEF Tick, setup
<1>2. PICK reset \in BOOLEAN : heap' = PurgeSegments(heap, S, reset)
  BY DEF Tick, Resets
<1>3. /\ S \subseteq heap.cached /\ heap.cached \subseteq Segments \ heap.allocated
      /\ S \in SUBSET Segments /\ bytes \in Int /\ tick \in Nat
  BY DEF Swept, Old, SegmentsInv, SegmentsTypeOK, EverySegmentHasItsPlace
<1> HIDE DEF S
<1>4. /\ heap' \in Heaps /\ heap'.allocated = heap.allocated /\ heap'.cached = heap.cached \ S
      /\ heap'.cachedCount = Cardinality(heap.cached \ S)
      /\ \A s \in S : heap'.committed[s] = 0
      /\ \A s \in Segments \ S : heap'.committed[s] = heap.committed[s] /\ heap'.page[s] = heap.page[s]
      /\ build = "windows" => \A s \in Segments : \A p \in Pages : heap'.page[s][p] # "sealed"
  <2>1. Purged(PurgeSegments(heap, S, reset), S)
    BY <1>3, PurgeLeaves
  <2>2. Purged(heap', S)
    BY <1>2, <2>1
  <2> QED BY <2>2 DEF Purged
<1>5. /\ Segments' = Segments /\ Heaps' = Heaps /\ Runs' = Runs /\ Up' = Up /\ build' = build
      /\ job' = job /\ run' = run
  BY <1>1 DEF Segments, Capacity, Heaps, Runs, Up, build
<1>6. /\ SumFunctionOnSet(heap'.committed, Segments) = PagesOf(heap, Segments) - PagesOf(heap, S)
      /\ PagesOf(heap, Segments) \in Nat /\ PagesOf(heap, S) \in Nat
      /\ SumFunction(InFlight) \in Nat
  BY <1>3, <1>4, PurgePays
<1>7. SegmentsTypeOK'
  <2>1. bytes' \in Int
    BY <1>1, <1>3, <1>6
  <2>2. tick' \in Nat
    <3>1. TickWrap \in Nat \ {0}
      BY SegmentAllocatorAssumption
    <3> QED BY <1>1, <1>3, <3>1
  <2> QED BY <1>1, <1>4, <1>5, <2>1, <2>2 DEF SegmentsInv, SegmentsTypeOK
<1>8. JobsAreOnRuns'
  <2>1. ASSUME NEW d \in Clients, job[d].step # "none" PROVE job[d].segment \in Segments \ S
    <3>1. job[d].segment \in RunOf(run[d])
      BY <2>1 DEF SegmentsInv, JobsAreOnRuns
    <3>2. job[d].segment \in heap.allocated /\ job[d].segment \in Segments
      BY <3>1, RunsAreApart
    <3> QED BY <1>3, <3>2
  <2> QED BY <1>4, <1>5, <2>1 DEF SegmentsInv, JobsAreOnRuns
<1>9. OnlyWhere'
  BY <1>4, <1>5 DEF SegmentsInv, OnlyWhere
<1>10. EverySegmentHasItsPlace'
  <2>1. mapped' = IF Up' THEN {"segments", "metadata"} ELSE {}
    BY <1>1, <1>5 DEF SegmentsInv, EverySegmentHasItsPlace
  <2>2. /\ heap'.allocated = UNION {RunOf(run'[d]) : d \in Clients}
        /\ \A d, e \in Clients : d # e => RunOf(run'[d]) \cap RunOf(run'[e]) = {}
    BY <1>4, <1>5 DEF SegmentsInv, EverySegmentHasItsPlace
  <2>3. heap'.cached = {s \in Segments' \ heap'.allocated : heap'.committed[s] > 0}
    <3>1. heap.cached = {s \in Segments \ heap.allocated : heap.committed[s] > 0}
      BY DEF SegmentsInv, EverySegmentHasItsPlace
    <3> QED BY <1>3, <1>4, <1>5, <3>1
  <2>4. heap'.cachedCount = Cardinality(heap'.cached) /\ heap'.cachedCount <= MaxCached
    <3>1. IsFiniteSet(heap.cached) /\ heap.cachedCount = Cardinality(heap.cached) /\ heap.cachedCount <= MaxCached
      <4>1. heap.cached \in SUBSET Segments /\ IsFiniteSet(Segments)
        BY <1>3, HostIsKept DEF SegmentsInv
      <4> QED BY <4>1, FS_Subset DEF SegmentsInv, EverySegmentHasItsPlace
    <3>2. Cardinality(heap.cached \ S) <= Cardinality(heap.cached) /\ Cardinality(heap.cached \ S) \in Nat
          /\ Cardinality(heap.cached) \in Nat
      <4>1. IsFiniteSet(heap.cached \ S) /\ Cardinality(heap.cached \ S) <= Cardinality(heap.cached)
        BY <3>1, FS_Subset
      <4> QED BY <3>1, <4>1, FS_CardinalityType
    <3>3. MaxCached \in Nat
      BY SegmentAllocatorAssumption
    <3> QED BY <1>4, <3>1, <3>2, <3>3
  <2>5. ASSUME NEW s \in Segments, NEW p \in Pages, p < heap'.committed[s] PROVE heap'.page[s][p] = "open"
    <3>1. CASE s \in S
      BY <1>4, <2>5, <3>1, HostIsKept DEF SegmentsInv
    <3>2. CASE s \notin S
      BY <1>4, <2>5, <3>2 DEF SegmentsInv, EverySegmentHasItsPlace
    <3> QED BY <3>1, <3>2
  <2> QED BY <1>5, <2>1, <2>2, <2>3, <2>4, <2>5 DEF EverySegmentHasItsPlace
<1>11. BudgetIsKept'
  <2>1. InFlight' = InFlight
    BY <1>5 DEF InFlight, Wanted
  <2>2. /\ SumFunction(InFlight') = SumFunction(InFlight)
        /\ PagesOf(heap', Segments') = PagesOf(heap, Segments) - PagesOf(heap, S)
    BY <1>5, <1>6, <2>1 DEF PagesOf
  <2>3. CommitBudget \in Nat
    BY SegmentAllocatorAssumption
  <2> QED BY <1>1, <1>3, <1>6, <2>2, <2>3 DEF SegmentsInv, BudgetIsKept
<1> QED BY <1>7, <1>8, <1>9, <1>10, <1>11 DEF SegmentsInv

\* Every step of the allocator keeps the invariant.
LEMMA SegmentsStep == SegmentsInv /\ [SegmentsNext]_segmentVars => SegmentsInv'
<1> SUFFICES ASSUME SegmentsInv, [SegmentsNext]_segmentVars PROVE SegmentsInv'
  OBVIOUS
<1>1. CASE UNCHANGED segmentVars
  <2>1. /\ UNCHANGED <<host, lifetime, mapped, heap, bytes, tick, run, job, refusals>>
    BY <1>1 DEF segmentVars, setup
  <2>2. Segments' = Segments /\ Heaps' = Heaps /\ Runs' = Runs /\ build' = build /\ Up' = Up
    BY <2>1 DEF Segments, Capacity, Heaps, Runs, build, Up
  <2>3. SegmentsTypeOK' /\ JobsAreOnRuns' /\ OnlyWhere'
    BY <2>1, <2>2 DEF SegmentsInv, SegmentsTypeOK, JobsAreOnRuns, OnlyWhere
  <2>4. EverySegmentHasItsPlace'
    <3>1. mapped' = IF Up' THEN {"segments", "metadata"} ELSE {}
      BY <2>1, <2>2 DEF SegmentsInv, EverySegmentHasItsPlace
    <3> QED BY <2>1, <2>2, <3>1, PlacesStay DEF SegmentsInv
  <2>5. BudgetIsKept'
    <3>1. InFlight' = InFlight
      BY <2>1 DEF InFlight, Wanted
    <3>2. SumFunction(InFlight') = SumFunction(InFlight) /\ PagesOf(heap', Segments') = PagesOf(heap, Segments)
      BY <2>1, <2>2, <3>1
    <3> QED BY <2>1, <3>2 DEF SegmentsInv, BudgetIsKept
  <2> QED BY <2>3, <2>4, <2>5 DEF SegmentsInv
<1>2. CASE InitAllocator \/ Shutdown \/ EnableLargePages \/ DisableLargePages
  BY <1>2, SettingUpKeeps
<1>3. CASE Tick
  BY <1>3, TickKeeps
<1>4. ASSUME NEW c \in Clients, NEW count \in 1..Capacity, AllocSegments(c, count) PROVE SegmentsInv'
  BY <1>4, AllocKeeps
<1>5. ASSUME NEW c \in Clients, FreeSegments(c) PROVE SegmentsInv'
  BY <1>5, FreeKeeps
<1>6. ASSUME NEW c \in Clients, NEW s \in Segments, NEW pages \in 1..PagesPerSegment,
             EnsureCommittedPages(c, s, pages) \/ EnsureCommittedLargePages(c, s, pages)
      PROVE  SegmentsInv'
  <2>1. \E large \in BOOLEAN : Begin(c, s, pages, large)
    BY <1>6 DEF EnsureCommittedPages, EnsureCommittedLargePages
  <2> QED BY <2>1, ClaimingKeeps
<1>7. ASSUME NEW c \in Clients, ClaimCommitBudget(c) \/ ExceedBudget(c) \/ ReleaseCommitBudget(c)
      PROVE  SegmentsInv'
  BY <1>7, ClaimingKeeps
<1>8. ASSUME NEW c \in Clients, CommitMemory(c) PROVE SegmentsInv'
  BY <1>8, CommitMemoryKeeps
<1>9. ASSUME NEW c \in Clients, RecordCommit(c) \/ RecordLargeCommit(c) PROVE SegmentsInv'
  BY <1>9, RecordKeeps
<1>10. ASSUME NEW c \in Clients, NEW s \in Segments, NEW pages \in Pages, TrimCommittedPagesTo(c, s, pages)
       PROVE  SegmentsInv'
  BY <1>10, TrimKeeps
<1> QED BY <1>1, <1>2, <1>3, <1>4, <1>5, <1>6, <1>7, <1>8, <1>9, <1>10 DEF SegmentsNext

\* For any number of threads, segments and pages, on each platform and whichever
\* commits are refused: no two runs meet, no page is left where neither its owner
\* nor the sweep finds it, and a page that counts as committed can be used
\* (segment_allocator.cpp).
THEOREM SegmentsHaveTheirPlace == SegmentsSpec => []EverySegmentHasItsPlace
<1>1. SegmentsInv => EverySegmentHasItsPlace
  BY DEF SegmentsInv
<1> QED BY SegmentsStart, SegmentsStep, <1>1, PTL DEF SegmentsSpec

\* And the budget, claimed and given back outside the mutex, counts every page
\* that is committed or being committed once, and is never exceeded.
THEOREM CommitBudgetIsExact == SegmentsSpec => []BudgetIsExact
<1>1. SegmentsInv => BudgetIsExact
  BY DEF SegmentsInv, BudgetIsKept, BudgetIsExact, Up
<1> QED BY SegmentsStart, SegmentsStep, <1>1, PTL DEF SegmentsSpec

-----------------------------------------------------------------------------
(* The world and its stores.                                               *)

\* The inductive invariant.
Inv == TypeOK /\ PlacesAreAccounted /\ DeadPlacesAreEmpty

Used == {i \in Indices : alive[i]}

\* At most MaxEntities places are in use.
LEMMA UsedBounded ==
  ASSUME NEW S, S \subseteq Indices
  PROVE  IsFiniteSet(S) /\ Cardinality(S) \in 0 .. MaxEntities
<1>1. IsFiniteSet(Indices) /\ Cardinality(Indices) = MaxEntities
  BY FS_Interval, WorldAssumption DEF Indices
<1>2. IsFiniteSet(S) /\ Cardinality(S) <= MaxEntities
  BY <1>1, FS_Subset
<1> QED BY <1>2, FS_CardinalityType, WorldAssumption

\* An empty world is accounted for.
LEMMA InitInv == Init => Inv
<1> SUFFICES ASSUME Init PROVE Inv
  OBVIOUS
<1>1. Cardinality(Used) = 0
  BY FS_EmptySet DEF Init, Used
<1>2. TypeOK
  BY WorldAssumption DEF Init, TypeOK, Indices
<1>3. PlacesAreAccounted
  <2>1. aliveCount = Cardinality(Used)
    BY <1>1 DEF Init
  <2>2. \A i \in Indices : ~ alive[i] /\ ~ Free(i) /\ ~ (i < size)
    BY WorldAssumption DEF Init, Free, Indices
  <2>3. \A m, n \in 1 .. Len(freeIndices) : m = n
    BY DEF Init
  <2> QED BY <2>1, <2>2, <2>3 DEF PlacesAreAccounted, Used
<1> QED BY <1>2, <1>3 DEF Inv, DeadPlacesAreEmpty, Init

\* What create() finds when it takes a place off the free list.
LEMMA TakesFreePlace ==
  ASSUME Inv, CreateReused, NEW i, i = freeIndices[Len(freeIndices)]
  PROVE  /\ i \in Indices /\ i < size /\ ~ alive[i]
         /\ alive' = [alive EXCEPT ![i] = TRUE]
         /\ freeIndices' \in Seq(Indices)
         /\ Len(freeIndices') = Len(freeIndices) - 1
         /\ \A n \in 1 .. Len(freeIndices') : freeIndices'[n] = freeIndices[n]
         /\ \A j : Free(j)' <=> Free(j) /\ j # i
<1>1. /\ freeIndices \in Seq(Indices) /\ freeIndices # <<>> /\ Len(freeIndices) \in Nat \ {0}
      /\ freeIndices' = SubSeq(freeIndices, 1, Len(freeIndices) - 1)
      /\ alive' = [alive EXCEPT ![i] = TRUE]
  BY DEF Inv, TypeOK, CreateReused
<1>2. i \in Indices /\ Free(i)
  BY <1>1 DEF Free
<1>3. i < size /\ ~ alive[i]
  BY <1>2 DEF Inv, PlacesAreAccounted
<1>4. /\ freeIndices' \in Seq(Indices) /\ Len(freeIndices') = Len(freeIndices) - 1
      /\ \A n \in 1 .. Len(freeIndices') : freeIndices'[n] = freeIndices[n]
  <2> DEFINE last == Len(freeIndices) - 1
             rest == SubSeq(freeIndices, 1, last)
  <2>1. last \in Int /\ \A n \in 1 .. last : freeIndices[n] \in Indices
    BY <1>1
  <2>2. rest \in Seq(Indices) /\ Len(rest) = last /\ \A n \in 1 .. last : rest[n] = freeIndices[n]
    <3> HIDE DEF rest, last
    <3>1. /\ rest \in Seq(Indices)
          /\ Len(rest) = IF 1 <= last THEN last - 1 + 1 ELSE 0
          /\ \A n \in 1 .. last - 1 + 1 : rest[n] = freeIndices[1 + n - 1]
      BY <2>1, SubSeqProperties DEF rest
    <3>2. last \in Nat
      BY <1>1 DEF last
    <3> QED BY <3>1, <3>2
  <2> QED BY <1>1, <2>2
<1>5. ASSUME NEW j PROVE Free(j)' <=> Free(j) /\ j # i
  <2>1. \A n \in 1 .. Len(freeIndices) : freeIndices[n] = i => n = Len(freeIndices)
    BY <1>1 DEF Inv, PlacesAreAccounted
  <2>2. Free(j)' <=> \E n \in 1 .. Len(freeIndices) - 1 : freeIndices[n] = j
    BY <1>4 DEF Free
  <2> QED BY <1>1, <2>1, <2>2 DEF Free
<1> QED BY <1>1, <1>2, <1>3, <1>4, <1>5

\* Where a destroyed entity's place goes.
LEMMA FreesPlace ==
  ASSUME Inv, NEW h \in Handles, Destroy(h)
  PROVE  /\ h.index \in Indices /\ h.index < size /\ alive[h.index] /\ ~ Free(h.index)
         /\ alive' = [alive EXCEPT ![h.index] = FALSE]
         /\ generation[h.index] = h.generation
         /\ \/ /\ h.generation = MaxGeneration
               /\ generation' = generation /\ freeIndices' = freeIndices
               /\ \A j : Free(j)' <=> Free(j)
            \/ /\ h.generation # MaxGeneration
               /\ generation' = [generation EXCEPT ![h.index] = h.generation + 1]
               /\ freeIndices' \in Seq(Indices)
               /\ Len(freeIndices') = Len(freeIndices) + 1
               /\ freeIndices'[Len(freeIndices')] = h.index
               /\ \A n \in 1 .. Len(freeIndices) : freeIndices'[n] = freeIndices[n]
               /\ \A j : Free(j)' <=> Free(j) \/ j = h.index
<1>1. /\ h.index \in Indices /\ h.index < size /\ alive[h.index]
      /\ alive' = [alive EXCEPT ![h.index] = FALSE] /\ generation[h.index] = h.generation
  BY DEF Destroy, Alive, Handles
<1>2. ~ Free(h.index)
  BY <1>1 DEF Inv, PlacesAreAccounted
<1>3. freeIndices \in Seq(Indices) /\ Len(freeIndices) \in Nat
  BY DEF Inv, TypeOK
<1>4. CASE h.generation = MaxGeneration
  <2>1. generation' = generation /\ freeIndices' = freeIndices
    BY <1>1, <1>4 DEF Destroy
  <2> QED BY <1>1, <1>2, <1>4, <2>1 DEF Free
<1>5. CASE h.generation # MaxGeneration
  <2>1. /\ generation' = [generation EXCEPT ![h.index] = h.generation + 1]
        /\ freeIndices' = Append(freeIndices, h.index)
    BY <1>1, <1>5 DEF Destroy
  <2>2. /\ freeIndices' \in Seq(Indices) /\ Len(freeIndices') = Len(freeIndices) + 1
        /\ freeIndices'[Len(freeIndices) + 1] = h.index
        /\ \A n \in 1 .. Len(freeIndices) : freeIndices'[n] = freeIndices[n]
    BY <1>1, <1>3, <2>1
  <2>3. \A j : Free(j)' <=> Free(j) \/ j = h.index
    BY <1>3, <2>2 DEF Free
  <2> QED BY <1>1, <1>2, <1>5, <2>1, <2>2, <2>3
<1> QED BY <1>4, <1>5

\* The count follows the places in use.
LEMMA CountFollows ==
  ASSUME Inv, NEW i \in Indices, NEW b \in BOOLEAN, alive' = [alive EXCEPT ![i] = b],
         alive[i] # b, aliveCount' = IF b THEN aliveCount + 1 ELSE aliveCount - 1
  PROVE  aliveCount' = Cardinality(Used') /\ aliveCount' \in 0 .. MaxEntities
<1>1. IsFiniteSet(Used) /\ aliveCount = Cardinality(Used) /\ aliveCount \in Nat
  BY UsedBounded, WorldAssumption DEF Inv, PlacesAreAccounted, Used
<1>2. alive \in [Indices -> BOOLEAN]
  BY DEF Inv, TypeOK
<1>3. Used' = (IF b THEN Used \cup {i} ELSE Used \ {i}) /\ (i \in Used <=> ~ b)
  BY <1>2 DEF Used
<1>4. aliveCount' = Cardinality(Used')
  BY <1>1, <1>3, FS_AddElement, FS_RemoveElement
<1>5. Used' \subseteq Indices
  BY DEF Used
<1> QED BY <1>4, <1>5, UsedBounded

\* create() keeps the invariant, with a place that was used before ...
LEMMA CreateReusedInv == Inv /\ CreateReused => Inv'
<1> SUFFICES ASSUME Inv, CreateReused PROVE Inv'
  OBVIOUS
<1> DEFINE i == freeIndices[Len(freeIndices)]
<1>1. /\ i \in Indices /\ i < size /\ ~ alive[i]
      /\ alive' = [alive EXCEPT ![i] = TRUE]
      /\ freeIndices' \in Seq(Indices)
      /\ Len(freeIndices') = Len(freeIndices) - 1
      /\ \A n \in 1 .. Len(freeIndices') : freeIndices'[n] = freeIndices[n]
      /\ \A j : Free(j)' <=> Free(j) /\ j # i
  BY TakesFreePlace
<1>2. /\ size' = size /\ generation' = generation /\ length' = length /\ active' = active
      /\ aliveCount' = aliveCount + 1
  BY DEF CreateReused, stores
<1> HIDE DEF i
<1>3. aliveCount' = Cardinality(Used') /\ aliveCount' \in 0 .. MaxEntities
  BY <1>1, <1>2, CountFollows
<1>4. TypeOK'
  BY <1>1, <1>2, <1>3 DEF Inv, TypeOK
<1>5. \A m, n \in 1 .. Len(freeIndices') : freeIndices'[m] = freeIndices'[n] => m = n
  <2>1. Len(freeIndices) \in Nat /\ 1 .. Len(freeIndices') \subseteq 1 .. Len(freeIndices)
    BY <1>1 DEF Inv, TypeOK
  <2>2. \A m, n \in 1 .. Len(freeIndices) : freeIndices[m] = freeIndices[n] => m = n
    BY DEF Inv, PlacesAreAccounted
  <2> QED BY <1>1, <2>1, <2>2
<1>6. \A j \in Indices : alive'[j] <=> alive[j] \/ j = i
  BY <1>1 DEF Inv, TypeOK
<1>7. PlacesAreAccounted'
  BY <1>1, <1>2, <1>3, <1>5, <1>6 DEF Inv, PlacesAreAccounted, Used
<1>8. DeadPlacesAreEmpty'
  BY <1>2, <1>6 DEF Inv, DeadPlacesAreEmpty, TypeOK
<1> QED BY <1>4, <1>7, <1>8 DEF Inv

\* ... and with a new one.
LEMMA CreateNewInv == Inv /\ CreateNew => Inv'
<1> SUFFICES ASSUME Inv, CreateNew PROVE Inv'
  OBVIOUS
<1>1. /\ size \in Indices /\ size' = size + 1
      /\ generation' = [generation EXCEPT ![size] = 0] /\ alive' = [alive EXCEPT ![size] = TRUE]
      /\ aliveCount' = aliveCount + 1 /\ length' = length /\ active' = active
      /\ freeIndices' = freeIndices
  BY WorldAssumption DEF Inv, TypeOK, CreateNew, stores, Indices
<1>2. ~ alive[size] /\ ~ Free(size) /\ \A j : Free(j)' <=> Free(j)
  BY <1>1, WorldAssumption DEF Inv, PlacesAreAccounted, TypeOK, Free
<1>3. aliveCount' = Cardinality(Used') /\ aliveCount' \in 0 .. MaxEntities
  BY <1>1, <1>2, CountFollows
<1>4. TypeOK'
  BY <1>1, <1>3, WorldAssumption DEF Inv, TypeOK, Indices
<1>5. \A j \in Indices : (alive'[j] <=> alive[j] \/ j = size) /\ (j # size => generation'[j] = generation[j])
  BY <1>1 DEF Inv, TypeOK
<1>6. \A j \in Indices : j < size' <=> j < size \/ j = size
  BY <1>1, WorldAssumption DEF Inv, TypeOK, Indices
<1>7. PlacesAreAccounted'
  BY <1>1, <1>2, <1>3, <1>5, <1>6 DEF Inv, PlacesAreAccounted, Used
<1>8. DeadPlacesAreEmpty'
  BY <1>1, <1>5 DEF Inv, DeadPlacesAreEmpty, TypeOK
<1> QED BY <1>4, <1>7, <1>8 DEF Inv

\* destroy() keeps the invariant, whether or not the place can be used again.
LEMMA DestroyInv == ASSUME NEW h \in Handles PROVE Inv /\ Destroy(h) => Inv'
<1> SUFFICES ASSUME Inv, Destroy(h) PROVE Inv'
  OBVIOUS
<1> DEFINE i == h.index
<1>1. /\ i \in Indices /\ i < size /\ alive[i] /\ ~ Free(i)
      /\ alive' = [alive EXCEPT ![i] = FALSE]
      /\ generation[i] = h.generation
  BY FreesPlace
<1>2. /\ size' = size /\ length' = length /\ aliveCount' = aliveCount - 1
      /\ active' = [t \in Types |-> active[t] \ {i}]
  BY DEF Destroy
<1>3. aliveCount' = Cardinality(Used') /\ aliveCount' \in 0 .. MaxEntities
  BY <1>1, <1>2, CountFollows
<1>4. \A j \in Indices : alive'[j] <=> alive[j] /\ j # i
  BY <1>1 DEF Inv, TypeOK
<1>5. DeadPlacesAreEmpty'
  BY <1>2, <1>4 DEF Inv, DeadPlacesAreEmpty, TypeOK
<1>6. CASE h.generation = MaxGeneration
  <2>1. generation' = generation /\ freeIndices' = freeIndices /\ \A j : Free(j)' <=> Free(j)
    BY <1>6, FreesPlace
  <2>2. TypeOK'
    BY <1>1, <1>2, <1>3, <2>1 DEF Inv, TypeOK
  <2>3. PlacesAreAccounted'
    BY <1>1, <1>2, <1>3, <1>4, <1>6, <2>1 DEF Inv, PlacesAreAccounted, Used
  <2> QED BY <1>5, <2>2, <2>3 DEF Inv
<1>7. CASE h.generation # MaxGeneration
  <2>1. /\ generation' = [generation EXCEPT ![i] = h.generation + 1]
        /\ freeIndices' \in Seq(Indices)
        /\ Len(freeIndices') = Len(freeIndices) + 1
        /\ freeIndices'[Len(freeIndices')] = i
        /\ \A n \in 1 .. Len(freeIndices) : freeIndices'[n] = freeIndices[n]
        /\ \A j : Free(j)' <=> Free(j) \/ j = i
    BY <1>7, FreesPlace
  <2>2. generation' \in [Indices -> 0 .. MaxGeneration] /\ \A j \in Indices : j # i => generation'[j] = generation[j]
    BY <1>1, <1>7, <2>1, WorldAssumption DEF Inv, TypeOK, Handles
  <2>3. TypeOK'
    BY <1>1, <1>2, <1>3, <2>1, <2>2 DEF Inv, TypeOK
  <2>4. \A m, n \in 1 .. Len(freeIndices') : freeIndices'[m] = freeIndices'[n] => m = n
    <3>1. Len(freeIndices) \in Nat /\ \A n \in 1 .. Len(freeIndices) : freeIndices[n] # i
      BY <1>1 DEF Inv, TypeOK, Free
    <3> QED BY <2>1, <3>1 DEF Inv, PlacesAreAccounted
  <2>5. PlacesAreAccounted'
    BY <1>1, <1>2, <1>3, <1>4, <2>1, <2>2, <2>4 DEF Inv, PlacesAreAccounted, Used
  <2> QED BY <1>5, <2>3, <2>5 DEF Inv
<1> QED BY <1>6, <1>7

\* The component calls touch the stores only.
LEMMA StoresInv ==
  ASSUME NEW h \in Handles, NEW t \in Types
  PROVE  Inv /\ (Add(h, t) \/ Remove(h, t)) => Inv'
<1> SUFFICES ASSUME Inv, Add(h, t) \/ Remove(h, t) PROVE Inv'
  OBVIOUS
<1>1. UNCHANGED slots
  BY DEF Add, Remove
<1>2. PlacesAreAccounted'
  BY <1>1 DEF slots, Inv, PlacesAreAccounted, Free
<1>3. h.index \in Indices
  BY DEF Handles
<1>4. CASE Add(h, t)
  <2>1. /\ alive[h.index] /\ active' = [active EXCEPT ![t] = @ \cup {h.index}]
        /\ length' = [length EXCEPT ![t] = IF h.index < @ THEN @ ELSE h.index + 1]
    BY <1>4 DEF Add, Alive, EnsureCapacity
  <2>2. TypeOK'
    <3>1. length' \in [Types -> 0 .. MaxEntities] /\ length[t] <= length'[t] /\ h.index < length'[t]
      BY <1>3, <2>1, WorldAssumption DEF Inv, TypeOK, Indices
    <3>2. active' \in [Types -> SUBSET Indices]
      BY <1>3, <2>1 DEF Inv, TypeOK
    <3>3. \A u \in Types : \A i \in active'[u] : i < length'[u]
      <4>1. ASSUME NEW u \in Types, u # t PROVE active'[u] = active[u] /\ length'[u] = length[u]
        BY <2>1, <4>1 DEF Inv, TypeOK
      <4>2. \A i \in active'[t] : i < length'[t]
        BY <1>3, <2>1, <3>1, WorldAssumption DEF Inv, TypeOK, Indices
      <4> QED BY <4>1, <4>2 DEF Inv, TypeOK
    <3> QED BY <1>1, <3>1, <3>2, <3>3 DEF slots, Inv, TypeOK
  <2>3. DeadPlacesAreEmpty'
    BY <1>1, <2>1 DEF slots, Inv, TypeOK, DeadPlacesAreEmpty
  <2> QED BY <1>2, <2>2, <2>3 DEF Inv
<1>5. CASE Remove(h, t)
  <2>1. active' = [active EXCEPT ![t] = @ \ {h.index}] /\ length' = length
    BY <1>5 DEF Remove
  <2> QED BY <1>1, <1>2, <2>1 DEF slots, Inv, TypeOK, DeadPlacesAreEmpty
<1> QED BY <1>4, <1>5

\* Every call keeps the invariant.
LEMMA NextInv == Inv /\ [Next]_vars => Inv'
<1>1. Inv /\ UNCHANGED vars => Inv'
  BY DEF vars, slots, stores, Inv, TypeOK, PlacesAreAccounted, DeadPlacesAreEmpty, Free
<1> QED BY <1>1, CreateReusedInv, CreateNewInv, DestroyInv, StoresInv DEF Next

\* The world's types, bounds included: counts and arrays never outgrow the indices.
THEOREM WorldTypeOK == Spec => []TypeOK
<1>1. Inv => TypeOK
  BY DEF Inv
<1> QED BY InitInv, NextInv, <1>1, PTL DEF Spec

\* Places are neither lost nor used twice, for any number of them.
THEOREM PlacesStayAccounted == Spec => []PlacesAreAccounted
<1>1. Inv => PlacesAreAccounted
  BY DEF Inv
<1> QED BY InitInv, NextInv, <1>1, PTL DEF Spec

\* What the abstract map sees of the world.
Live == {h \in Handles : Alive(h)}
Past == {h \in Handles : Given(h)}
Held == {c \in [entity : Handles, type : Types] : Alive(c.entity) /\ c.entity.index \in active[c.type]}

\* A step that changes nothing the map sees.
LEMMA Unseen ==
  ASSUME Live' = Live, Past' = Past, Held' = Held
  PROVE  UNCHANGED Promised!vars
  BY DEF Promised!vars, Live, Past, Held

\* A step that gives out a handle nobody has seen, at a dead place, creates.
LEMMA Creates ==
  ASSUME Inv, NEW h \in Handles, ~ Given(h), ~ alive[h.index], active' = active,
         \A g \in Handles : Alive(g)' <=> Alive(g) \/ g = h,
         \A g \in Handles : Given(g)' <=> Given(g) \/ g = h
  PROVE  Promised!Create
<1>1. Live' = Live \cup {h} /\ Past' = Past \cup {h} /\ h \notin Past
  BY DEF Live, Past
<1>2. \A g \in Live : g.index # h.index
  BY DEF Live, Alive
<1>3. Held' = Held
  <2>1. \A t \in Types : h.index \notin active[t]
    BY DEF Inv, DeadPlacesAreEmpty
  <2> QED BY <2>1 DEF Held
<1>4. h \in Promised!Handles
  BY DEF Handles, Indices, Promised!Handles
<1> QED BY <1>1, <1>2, <1>3, <1>4 DEF Promised!Create, Live, Past, Held

\* create() with a place that was used before.
LEMMA CreateReusedCreates == Inv /\ CreateReused => Promised!Create
<1> SUFFICES ASSUME Inv, CreateReused PROVE Promised!Create
  OBVIOUS
<1> DEFINE i == freeIndices[Len(freeIndices)]
           h == [index |-> i, generation |-> generation[i]]
<1>1. /\ i \in Indices /\ i < size /\ ~ alive[i]
      /\ alive' = [alive EXCEPT ![i] = TRUE]
      /\ \A j : Free(j)' <=> Free(j) /\ j # i
  BY TakesFreePlace
<1>2. size' = size /\ generation' = generation /\ active' = active
  BY DEF CreateReused, stores
<1>3. Free(i)
  BY DEF CreateReused, Inv, TypeOK, Free
<1> HIDE DEF i
<1>4. h \in Handles /\ h.index = i /\ h.generation = generation[i]
  BY <1>1 DEF Handles, Inv, TypeOK
<1>5. \A g \in Handles : Given(g) <=> g.index < size /\ (g.generation < generation[g.index] \/ (g.generation = generation[g.index] /\ ~ Free(g.index)))
  BY DEF Given, Free
<1>6. \A g \in Handles : Given(g)' <=> g.index < size' /\ (g.generation < generation'[g.index] \/ (g.generation = generation'[g.index] /\ ~ Free(g.index)'))
  BY DEF Given, Free
<1>7. \A g \in Handles : g = h <=> g.index = i /\ g.generation = generation[i]
  BY <1>4 DEF Handles
<1>8. ~ Given(h)
  <2>1. generation[i] \in Nat /\ ~ (generation[i] < generation[i])
    BY <1>1, WorldAssumption DEF Inv, TypeOK
  <2> QED BY <1>3, <1>4, <1>5, <2>1
<1>9. \A g \in Handles : Alive(g)' <=> Alive(g) \/ g = h
  BY <1>1, <1>2, <1>7 DEF Alive, Inv, TypeOK, Handles
<1>10. \A g \in Handles : Given(g)' <=> Given(g) \/ g = h
  BY <1>1, <1>2, <1>5, <1>6, <1>7
<1> HIDE DEF h
<1> QED BY <1>1, <1>2, <1>4, <1>8, <1>9, <1>10, Creates

\* create() with a new place.
LEMMA CreateNewCreates == Inv /\ CreateNew => Promised!Create
<1> SUFFICES ASSUME Inv, CreateNew PROVE Promised!Create
  OBVIOUS
<1> DEFINE h == [index |-> size, generation |-> 0]
<1>1. /\ size \in Indices /\ size' = size + 1
      /\ generation' = [generation EXCEPT ![size] = 0] /\ alive' = [alive EXCEPT ![size] = TRUE]
      /\ active' = active /\ freeIndices' = freeIndices
  BY WorldAssumption DEF Inv, TypeOK, CreateNew, stores, Indices
<1>2. ~ alive[size] /\ ~ Free(size)
  BY <1>1, WorldAssumption DEF Inv, PlacesAreAccounted, TypeOK, Indices
<1>3. h \in Handles /\ h.index = size /\ h.generation = 0
  BY <1>1, WorldAssumption DEF Handles
<1>4. \A g \in Handles : /\ g.index \in Indices /\ g.generation \in Nat
                         /\ g = h <=> g.index = size /\ g.generation = 0
                         /\ g.index < size' <=> g.index < size \/ g.index = size
  BY <1>1, <1>3, WorldAssumption DEF Handles, Inv, TypeOK, Indices
<1>5. \A j \in Indices : (alive'[j] <=> alive[j] \/ j = size) /\ generation'[j] = IF j = size THEN 0 ELSE generation[j]
  BY <1>1 DEF Inv, TypeOK
<1>6. ~ Given(h)
  BY <1>3 DEF Given, Inv, TypeOK
<1>7. \A g \in Handles : Alive(g)' <=> Alive(g) \/ g = h
  BY <1>2, <1>4, <1>5 DEF Alive
<1>8. \A g \in Handles : Given(g)' <=> Given(g) \/ g = h
  <2>1. \A n \in 1 .. Len(freeIndices) : freeIndices[n] # size
    BY <1>2 DEF Free
  <2>2. ASSUME NEW g \in Handles, g.index = size PROVE Given(g)' <=> g = h
    BY <1>1, <1>4, <1>5, <2>1, <2>2 DEF Given
  <2>3. ASSUME NEW g \in Handles, g.index # size PROVE Given(g)' <=> Given(g)
    BY <1>1, <1>4, <1>5, <2>3 DEF Given
  <2>4. \A g \in Handles : g.index = size => ~ Given(g)
    BY DEF Given, Inv, TypeOK
  <2> QED BY <1>3, <2>2, <2>3, <2>4
<1> HIDE DEF h
<1> QED BY <1>1, <1>2, <1>3, <1>6, <1>7, <1>8, Creates

\* destroy() takes its entity and what it holds, and nothing else.
LEMMA DestroyDestroys == ASSUME NEW h \in Handles PROVE Inv /\ Destroy(h) => Promised!Destroy(h)
<1> SUFFICES ASSUME Inv, Destroy(h) PROVE Promised!Destroy(h)
  OBVIOUS
<1> DEFINE i == h.index
<1>1. /\ i \in Indices /\ i < size /\ alive[i] /\ ~ Free(i)
      /\ alive' = [alive EXCEPT ![i] = FALSE]
      /\ generation[i] = h.generation
  BY FreesPlace
<1>2. size' = size /\ active' = [t \in Types |-> active[t] \ {i}] /\ Alive(h)
  BY DEF Destroy
<1>3. \A g \in Handles : /\ g.index \in Indices /\ g.generation \in 0 .. MaxGeneration
                         /\ g = h <=> g.index = i /\ g.generation = h.generation
  BY DEF Handles
<1>4. \A j \in Indices : (alive'[j] <=> alive[j] /\ j # i) /\ (j # i => generation'[j] = generation[j])
  BY <1>1, FreesPlace DEF Inv, TypeOK
<1>5. \A g \in Handles : Alive(g)' <=> Alive(g) /\ g # h
  BY <1>1, <1>2, <1>3, <1>4 DEF Alive
<1>6. \A g \in Handles : Given(g)' <=> Given(g)
  <2>1. \A g \in Handles : Given(g) <=> g.index < size /\ (g.generation < generation[g.index] \/ (g.generation = generation[g.index] /\ ~ Free(g.index)))
    BY DEF Given, Free
  <2>2. \A g \in Handles : Given(g)' <=> g.index < size' /\ (g.generation < generation'[g.index] \/ (g.generation = generation'[g.index] /\ ~ Free(g.index)'))
    BY DEF Given, Free
  <2>3. CASE h.generation = MaxGeneration
    <3>1. generation' = generation /\ \A j : Free(j)' <=> Free(j)
      BY <2>3, FreesPlace
    <3> QED BY <1>2, <2>1, <2>2, <3>1
  <2>4. CASE h.generation # MaxGeneration
    <3>1. generation' = [generation EXCEPT ![i] = h.generation + 1] /\ \A j : Free(j)' <=> Free(j) \/ j = i
      BY <2>4, FreesPlace
    <3>2. ASSUME NEW g \in Handles, g.index = i PROVE Given(g)' <=> Given(g)
      <4>1. generation'[i] = h.generation + 1 /\ Free(i)'
        BY <1>1, <3>1 DEF Inv, TypeOK
      <4>2. Given(g) <=> g.generation <= h.generation
        BY <1>1, <1>3, <2>1, <3>2
      <4>3. Given(g)' <=> g.generation < h.generation + 1
        BY <1>1, <1>2, <1>3, <2>2, <3>2, <4>1
      <4> QED BY <1>3, <4>2, <4>3, WorldAssumption
    <3>3. ASSUME NEW g \in Handles, g.index # i PROVE Given(g)' <=> Given(g)
      BY <1>2, <1>3, <1>4, <2>1, <2>2, <3>1, <3>3
    <3> QED BY <3>2, <3>3
  <2> QED BY <2>3, <2>4
<1>7. Live' = Live \ {h} /\ Past' = Past /\ h \in Live
  BY <1>2, <1>5, <1>6 DEF Live, Past
<1>8. Held' = {c \in Held : c.entity # h}
  <2>1. ASSUME NEW c \in [entity : Handles, type : Types]
        PROVE  (Alive(c.entity) /\ c.entity.index \in active[c.type])'
               <=> Alive(c.entity) /\ c.entity.index \in active[c.type] /\ c.entity # h
    <3>1. c.entity \in Handles /\ c.type \in Types /\ active'[c.type] = active[c.type] \ {i}
      BY <1>2
    <3>2. Alive(c.entity) /\ c.entity.index = i => c.entity = h
      BY <1>1, <1>3, <3>1 DEF Alive
    <3> QED BY <1>3, <1>5, <3>1, <3>2
  <2> QED BY <2>1 DEF Held
<1> QED BY <1>7, <1>8 DEF Promised!Destroy, Live, Past, Held

\* add() and remove() change what the map says they do.
LEMMA StoresStore ==
  ASSUME NEW h \in Handles, NEW t \in Types, Inv
  PROVE  /\ Add(h, t) => Promised!Add(h, t)
         /\ Remove(h, t) => Promised!Remove(h, t)
<1>1. ASSUME UNCHANGED slots
      PROVE  /\ Live' = Live /\ Past' = Past
             /\ \A g \in Handles : Alive(g)' <=> Alive(g)
  BY <1>1 DEF slots, Live, Past, Alive, Given
<1>2. ASSUME Add(h, t) PROVE Promised!Add(h, t)
  <2>1. Alive(h) /\ active' = [active EXCEPT ![t] = @ \cup {h.index}] /\ UNCHANGED slots
    BY <1>2 DEF Add
  <2>2. ASSUME NEW c \in [entity : Handles, type : Types]
        PROVE  (Alive(c.entity) /\ c.entity.index \in active[c.type])'
               <=> (Alive(c.entity) /\ c.entity.index \in active[c.type]) \/ c = [entity |-> h, type |-> t]
    <3>1. c.entity \in Handles /\ c.type \in Types /\ c = [entity |-> c.entity, type |-> c.type]
      OBVIOUS
    <3>2. active'[c.type] = IF c.type = t THEN active[t] \cup {h.index} ELSE active[c.type]
      BY <2>1, <3>1 DEF Inv, TypeOK
    <3>3. Alive(c.entity) /\ c.entity.index = h.index => c.entity = h
      BY <2>1, <3>1 DEF Alive, Handles
    <3>4. c = [entity |-> h, type |-> t] <=> c.entity = h /\ c.type = t
      BY <3>1
    <3> QED BY <1>1, <2>1, <3>1, <3>2, <3>3, <3>4
  <2>3. Held' = Held \cup {[entity |-> h, type |-> t]}
    BY <2>2 DEF Held
  <2> QED BY <1>1, <2>1, <2>3 DEF Promised!Add, Live, Past, Held
<1>3. ASSUME Remove(h, t) PROVE Promised!Remove(h, t)
  <2>1. Given(h) /\ active' = [active EXCEPT ![t] = @ \ {h.index}] /\ UNCHANGED slots
    BY <1>3 DEF Remove
  <2>2. ASSUME NEW c \in [entity : Handles, type : Types]
        PROVE  (Alive(c.entity) /\ c.entity.index \in active[c.type])'
               <=> Alive(c.entity) /\ c.entity.index \in active[c.type] /\ ~ (c.entity.index = h.index /\ c.type = t)
    <3>1. c.entity \in Handles /\ c.type \in Types
      OBVIOUS
    <3>2. active'[c.type] = IF c.type = t THEN active[t] \ {h.index} ELSE active[c.type]
      BY <2>1, <3>1 DEF Inv, TypeOK
    <3> QED BY <1>1, <2>1, <3>1, <3>2
  <2>3. Held' = {c \in Held : ~ (c.entity.index = h.index /\ c.type = t)}
    BY <2>2 DEF Held
  <2>4. h \in Past
    BY <2>1 DEF Past
  <2> QED BY <1>1, <2>1, <2>3, <2>4 DEF Promised!Remove, Live, Past, Held
<1> QED BY <1>2, <1>3

\* The world implements the map of entities: no handle is given out twice, and
\* an entity holds what was added to it and not removed since.
THEOREM WorldImplementsEntityMap == Spec => ImplementsEntityMap
<1>1. Init => Promised!Init
  <2> SUFFICES ASSUME Init PROVE Promised!Init
    OBVIOUS
  <2>1. \A h \in Handles : ~ Alive(h) /\ ~ Given(h)
    BY WorldAssumption DEF Init, Alive, Given, Handles, Indices
  <2> QED BY <2>1 DEF Promised!Init
<1>2. Inv /\ [Next]_vars => [Promised!Next]_Promised!vars
  <2> SUFFICES ASSUME Inv, [Next]_vars PROVE [Promised!Next]_Promised!vars
    OBVIOUS
  <2>1. CASE UNCHANGED vars
    <3>1. Live' = Live /\ Past' = Past /\ Held' = Held
      BY <2>1 DEF vars, slots, stores, Live, Past, Held, Alive, Given
    <3> QED BY <3>1, Unseen
  <2>2. CASE CreateReused \/ CreateNew
    BY <2>2, CreateReusedCreates, CreateNewCreates DEF Promised!Next
  <2>3. ASSUME NEW h \in Handles PROVE h \in Promised!Handles
    BY DEF Handles, Indices, Promised!Handles
  <2>4. ASSUME NEW h \in Handles, Destroy(h) PROVE Promised!Next
    BY <2>3, <2>4, DestroyDestroys DEF Promised!Next
  <2>5. ASSUME NEW h \in Handles, NEW t \in Types, Add(h, t) \/ Remove(h, t) PROVE Promised!Next
    BY <2>3, <2>5, StoresStore DEF Promised!Next
  <2> QED BY <2>1, <2>2, <2>4, <2>5 DEF Next
<1> QED BY InitInv, NextInv, <1>1, <1>2, PTL DEF Spec, ImplementsEntityMap, Promised!Spec
=============================================================================
