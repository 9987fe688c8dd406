-------------------------- MODULE TaskGraphProofs --------------------------
(***************************************************************************)
(* For any number of clients, workers, slots and launches: the invariant   *)
(* of TaskGraphInvariant is inductive, and the safety properties of        *)
(* TaskGraph follow from it.                                               *)
(*                                                                         *)
(* The argument goes in this order: types and the locals of each call      *)
(* (TypeInv); then SharedInv, the part that relates slots to one another   *)
(* and to the threads at work on them, with a lemma for each action; then  *)
(* the properties.  The long proofs are those of the actions that change   *)
(* two tasks at once: a launch locks its slot and a prerequisite's, and a  *)
(* completion reaches from the task that ran to the dependants it tells.   *)
(* Then the ready queue, which holds a task once; and last the refinement  *)
(* of TaskLifecycle.                                                       *)
(***************************************************************************)
EXTENDS TaskGraphInvariant, SequenceTheorems, FiniteSetTheorems, TLAPS

-----------------------------------------------------------------------------
(* The free list, and handles.                                             *)

\* Taking the last index off the free list leaves the others in place.
LEMMA WithoutLast ==
  ASSUME NEW S, NEW s \in Seq(S), s # <<>>
  PROVE  /\ Len(s) \in Nat \ {0}
         /\ s[Len(s)] \in S
         /\ SubSeq(s, 1, Len(s) - 1) \in Seq(S)
         /\ Len(SubSeq(s, 1, Len(s) - 1)) = Len(s) - 1
         /\ \A n \in 1 .. Len(s) - 1 : SubSeq(s, 1, Len(s) - 1)[n] = s[n]
<1>1. Len(s) \in Nat \ {0}
  BY EmptySeq
<1>2. \A n \in 1 .. Len(s) : s[n] \in S
  BY ElementOfSeq
<1>3. 1 \in Int /\ Len(s) - 1 \in Int /\ \A n \in 1 .. Len(s) - 1 : s[n] \in S
  BY <1>1, <1>2
<1>4. /\ SubSeq(s, 1, Len(s) - 1) \in Seq(S)
      /\ Len(SubSeq(s, 1, Len(s) - 1))
           = IF 1 <= Len(s) - 1 THEN (Len(s) - 1) - 1 + 1 ELSE 0
      /\ \A n \in 1 .. (Len(s) - 1) - 1 + 1 : SubSeq(s, 1, Len(s) - 1)[n] = s[1 + n - 1]
  BY <1>3, SubSeqProperties
<1>5. ASSUME NEW n \in 1 .. Len(s) - 1
      PROVE  SubSeq(s, 1, Len(s) - 1)[n] = s[n]
  <2>1. n \in 1 .. (Len(s) - 1) - 1 + 1 /\ 1 + n - 1 = n
    BY <1>1
  <2> QED BY <1>4, <2>1
<1>6. Len(SubSeq(s, 1, Len(s) - 1)) = Len(s) - 1
  <2>1. \A n \in Nat \ {0} : (IF 1 <= n - 1 THEN (n - 1) - 1 + 1 ELSE 0) = n - 1
    OBVIOUS
  <2> QED BY <1>1, <1>4, <2>1
<1> QED BY <1>1, <1>2, <1>4, <1>5, <1>6

\* The parts of a handle.
LEMMA HandleParts ==
  ASSUME NEW h \in Handles
  PROVE  /\ h.index \in Indices /\ h.generation \in 0 .. MaxGeneration
         /\ h.index \in Int /\ h.generation \in Int
         /\ h # NoHandle
  BY TaskGraphAssumption DEF Handles, NoHandle, Indices

\* Handles that name the same task of the same slot are equal.
LEMMA HandleEqual ==
  ASSUME NEW g \in Handles, NEW h \in Handles,
         g.index = h.index, g.generation = h.generation
  PROVE  g = h
  BY DEF Handles

-----------------------------------------------------------------------------
(* Types.                                                                  *)

\* The shared state and the locals of every call are well typed.
TypeInv == TypeOK /\ LocalsTyped

\* The initial state is well typed.
LEMMA InitTypeInv == Init => TypeInv
  BY TaskGraphAssumption DEF Init, TypeInv, TypeOK, LocalsTyped, Indices, Handles, Statuses, Places

\* A thread whose call returns has no locals left.
LEMMA ReturnTyped ==
  ASSUME TypeInv, NEW t \in Threads, Return(t)
  PROVE  /\ pc' \in [Threads -> Places]
         /\ task' \in [Threads -> Handles \cup {NoHandle}]
         /\ todo' \in [Threads -> SUBSET Handles]
         /\ ready' \in [Threads -> Handles \cup {NoHandle}]
         /\ LocalsTyped'
<1>1. /\ pc' \in [Threads -> Places]
      /\ task' \in [Threads -> Handles \cup {NoHandle}]
      /\ todo' \in [Threads -> SUBSET Handles]
      /\ ready' \in [Threads -> Handles \cup {NoHandle}]
  BY DEF TypeInv, TypeOK, Return, Places
<1>2. LocalsTyped'
  BY DEF TypeInv, TypeOK, LocalsTyped, Return
<1> QED BY <1>1, <1>2

\* Every step keeps the types, of the locals of a call as of the shared state.
LEMMA NextTypeInv == TypeInv /\ [Next]_vars => TypeInv'
<1> SUFFICES ASSUME TypeInv, [Next]_vars PROVE TypeInv'
  OBVIOUS
<1> USE TaskGraphAssumption DEF TypeInv, TypeOK, LocalsTyped, Statuses, Places
<1>1. CASE UNCHANGED vars
  BY <1>1 DEF vars, slotVars, indexVars, threadVars
<1>2. ASSUME NEW t \in Threads, LaunchAllocate(t) PROVE TypeInv'
  <2>1. todo' \in [Threads -> SUBSET Handles]
    BY <1>2 DEF LaunchAllocate
  <2>2. CASE freeIndices # <<>>
    <3>1. /\ freeIndices[Len(freeIndices)] \in Indices
          /\ SubSeq(freeIndices, 1, Len(freeIndices) - 1) \in Seq(Indices)
      BY <2>2, WithoutLast
    <3>2. PICK i \in Indices :
            /\ task' = [task EXCEPT ![t] = [index |-> i, generation |-> generation[i]]]
            /\ freeIndices' \in Seq(Indices)
            /\ UNCHANGED nextUnused
      BY <1>2, <2>2, <3>1 DEF LaunchAllocate
    <3>3. [index |-> i, generation |-> generation[i]] \in Handles
      BY DEF Handles
    <3>4. task' \in [Threads -> Handles \cup {NoHandle}] /\ task'[t] \in Handles
      BY <3>2, <3>3
    <3> QED BY <1>2, <2>1, <3>2, <3>4 DEF LaunchAllocate, slotVars
  <2>3. CASE freeIndices = <<>>
    <3>1. nextUnused \in Indices /\ nextUnused' \in 0 .. MaxTasks
      BY <1>2, <2>3 DEF LaunchAllocate, Indices
    <3>2. task' \in [Threads -> Handles \cup {NoHandle}] /\ task'[t] \in Handles
      BY <1>2, <2>3, <3>1 DEF LaunchAllocate, Handles
    <3> QED BY <1>2, <2>1, <2>3, <3>1, <3>2 DEF LaunchAllocate, slotVars
  <2> QED BY <2>2, <2>3
<1>3. ASSUME NEW t \in Threads, EnsurePage(t) PROVE TypeInv'
  BY <1>3, HandleParts DEF EnsurePage, slotVars
<1>4. ASSUME NEW t \in Threads, EnsurePageFails(t) PROVE TypeInv'
  BY <1>4 DEF EnsurePageFails, slotVars, indexVars
<1>5. ASSUME NEW t \in Threads, Construct(t) PROVE TypeInv'
  BY <1>5, HandleParts DEF Construct, indexVars
<1>6. ASSUME NEW t \in Threads, AddPrerequisite(t) PROVE TypeInv'
  <2>1. task[t] \in Handles
    BY <1>6 DEF AddPrerequisite
  <2>2. PICK p \in todo[t] :
          /\ IF status[p.index] = "Completed"
             THEN UNCHANGED <<prerequisites, dependants>>
             ELSE /\ prerequisites' = [prerequisites EXCEPT ![task[t].index] = @ \cup {p}]
                  /\ dependants' = [dependants EXCEPT ![p.index] = @ \cup {task[t]}]
          /\ todo' = [todo EXCEPT ![t] = @ \ {p}]
    BY <1>6 DEF AddPrerequisite
  <2>3. p \in Handles /\ p.index \in Indices /\ task[t].index \in Indices
    BY <2>1, HandleParts
  <2>4. prerequisites' \in [Indices -> SUBSET Handles] /\ dependants' \in [Indices -> SUBSET Handles]
    <3>1. CASE status[p.index] = "Completed"
      BY <2>2, <3>1
    <3>2. CASE status[p.index] # "Completed"
      <4>1. /\ prerequisites' = [prerequisites EXCEPT ![task[t].index] = @ \cup {p}]
            /\ dependants' = [dependants EXCEPT ![p.index] = @ \cup {task[t]}]
        BY <2>2, <3>2
      <4> QED BY <2>1, <2>3, <4>1
    <3> QED BY <3>1, <3>2
  <2>5. todo' \in [Threads -> SUBSET Handles]
    BY <2>2
  <2> QED BY <1>6, <2>4, <2>5 DEF AddPrerequisite, indexVars
<1>7. ASSUME NEW t \in Threads, Publish(t) PROVE TypeInv'
  <2>1. task[t] \in Handles
    BY <1>7 DEF Publish
  <2>2. status' \in [Indices -> Statuses] /\ owner' \in [Indices -> Clients \cup {NoThread}]
    BY <1>7, <2>1, HandleParts DEF Publish
  <2>3. CASE prerequisites[task[t].index] = {}
    <3>1. /\ pc' = [pc EXCEPT ![t] = "enqueue"]
          /\ ready' = [ready EXCEPT ![t] = task[t]]
          /\ UNCHANGED <<task, todo, indexVars, generation, prerequisites, dependants, latch, queued, needs>>
      BY <1>7, <2>3 DEF Publish
    <3>2. LocalsTyped'
      BY <1>7, <2>1, <3>1 DEF Publish
    <3>3. TypeOK'
      BY <2>1, <2>2, <3>1 DEF indexVars
    <3> QED BY <3>2, <3>3
  <2>4. CASE prerequisites[task[t].index] # {}
    <3>1. Return(t) /\ UNCHANGED <<indexVars, generation, prerequisites, dependants, latch, queued, needs>>
      BY <1>7, <2>4 DEF Publish
    <3> QED BY <2>2, <3>1, ReturnTyped DEF indexVars
  <2> QED BY <2>3, <2>4
<1>8. ASSUME NEW t \in Threads, Enqueue(t) PROVE TypeInv'
  <2>1. queued' \in [Handles -> Nat]
    BY <1>8 DEF Enqueue
  <2>2. CASE todo[t] = {}
    <3>1. Return(t) /\ UNCHANGED <<slotVars, indexVars, needs>>
      BY <1>8, <2>2 DEF Enqueue
    <3> QED BY <2>1, <3>1, ReturnTyped DEF slotVars, indexVars
  <2>3. CASE todo[t] # {}
    <3>1. /\ pc' = [pc EXCEPT ![t] = "notify"]
          /\ ready' = [ready EXCEPT ![t] = NoHandle]
          /\ UNCHANGED <<slotVars, indexVars, needs, task, todo>>
      BY <1>8, <2>3 DEF Enqueue
    <3>2. LocalsTyped'
      BY <1>8, <3>1 DEF Enqueue
    <3> QED BY <2>1, <3>1, <3>2 DEF slotVars, indexVars
  <2> QED BY <2>2, <2>3
<1>9. ASSUME NEW t \in Threads, Pop(t) PROVE TypeInv'
  <2>1. PICK h \in Handles : queued[h] > 0 /\ queued' = [queued EXCEPT ![h] = @ - 1]
                             /\ task' = [task EXCEPT ![t] = h]
    BY <1>9 DEF Pop
  <2>2. queued' \in [Handles -> Nat]
    BY <2>1
  <2> QED BY <1>9, <2>1, <2>2 DEF Pop, slotVars, indexVars
<1>10. ASSUME NEW t \in Threads, Help(t) PROVE TypeInv'
  BY <1>10 DEF Help, slotVars, indexVars
<1>11. ASSUME NEW t \in Threads, TryClaim(t) PROVE TypeInv'
  <2>1. task[t] \in Handles
    BY <1>11 DEF TryClaim
  <2>2. CASE IsOccupiedBy(task[t]) /\ status[task[t].index] = "Ready"
    BY <1>11, <2>1, <2>2, HandleParts DEF TryClaim, indexVars
  <2>3. CASE ~ (IsOccupiedBy(task[t]) /\ status[task[t].index] = "Ready")
    BY <1>11, <2>3 DEF TryClaim, indexVars, Return
  <2> QED BY <2>2, <2>3
<1>12. ASSUME NEW t \in Threads, Complete(t) PROVE TypeInv'
  <2>1. task[t] \in Handles /\ task[t].index \in Indices
    BY <1>12, HandleParts DEF Complete
  <2>2. /\ status' \in [Indices -> Statuses]
        /\ latch' \in [Indices -> Clients \cup {NoThread}]
        /\ todo' \in [Threads -> SUBSET Handles]
    BY <1>12, <2>1 DEF Complete
  <2>3. pc' \in [Threads -> Places] /\ task' \in [Threads -> Handles \cup {NoHandle}]
    BY <1>12, <2>1 DEF Complete
  <2>4. LocalsTyped'
    BY <1>12, <2>1, <2>3 DEF Complete
  <2> QED BY <1>12, <2>2, <2>3, <2>4 DEF Complete, indexVars
<1>13. ASSUME NEW t \in Threads, RemovePrerequisite(t) PROVE TypeInv'
  <2>1. PICK d \in todo[t] :
          /\ prerequisites' = [prerequisites EXCEPT ![d.index] = prerequisites[d.index] \ {task[t]}]
          /\ todo' = [todo EXCEPT ![t] = @ \ {d}]
          /\ IF prerequisites[d.index] \ {task[t]} = {}
             THEN /\ status' = [status EXCEPT ![d.index] = "Ready"]
                  /\ ready' = [ready EXCEPT ![t] = d]
                  /\ pc' = [pc EXCEPT ![t] = "enqueue"]
             ELSE UNCHANGED <<status, ready, pc>>
    BY <1>13 DEF RemovePrerequisite
  <2>2. d \in Handles /\ d.index \in Indices
    BY HandleParts
  <2>3. /\ prerequisites' \in [Indices -> SUBSET Handles]
        /\ todo' \in [Threads -> SUBSET Handles]
    BY <2>1, <2>2
  <2>4. CASE prerequisites[d.index] \ {task[t]} = {}
    <3>1. /\ status' = [status EXCEPT ![d.index] = "Ready"]
          /\ ready' = [ready EXCEPT ![t] = d]
          /\ pc' = [pc EXCEPT ![t] = "enqueue"]
      BY <2>1, <2>4
    <3>2. UNCHANGED <<generation, dependants, latch, owner, indexVars, queued, task, needs>>
      BY <1>13 DEF RemovePrerequisite
    <3>3. LocalsTyped'
      BY <1>13, <2>2, <3>1, <3>2 DEF RemovePrerequisite
    <3> QED BY <2>2, <2>3, <3>1, <3>2, <3>3 DEF indexVars
  <2>5. CASE prerequisites[d.index] \ {task[t]} # {}
    BY <1>13, <2>1, <2>3, <2>5 DEF RemovePrerequisite, indexVars
  <2> QED BY <2>4, <2>5
<1>14. ASSUME NEW t \in Threads, Delivered(t) PROVE TypeInv'
  BY <1>14 DEF Delivered, slotVars, indexVars, Return
<1>15. ASSUME NEW t \in Threads, AttachWaiter(t) PROVE TypeInv'
  BY <1>15, HandleParts DEF AttachWaiter, indexVars
<1>16. ASSUME NEW t \in Threads, Release(t) PROVE TypeInv'
  <2>1. PICK h \in Handles :
          /\ Known(h) /\ h.generation < MaxGeneration
          /\ status' = [status EXCEPT ![h.index] = "Free"]
          /\ generation' = [generation EXCEPT ![h.index] = @ + 1]
          /\ dependants' = [dependants EXCEPT ![h.index] = {}]
          /\ needs' = [needs EXCEPT ![h] = {}]
          /\ task' = [task EXCEPT ![t] = h]
    BY <1>16 DEF Release
  <2>2. generation' \in [Indices -> 0 .. MaxGeneration]
    BY <2>1, HandleParts DEF Known, IsOccupiedBy
  <2>3. /\ status' \in [Indices -> Statuses] /\ dependants' \in [Indices -> SUBSET Handles]
        /\ needs' \in [Handles -> SUBSET Handles]
        /\ task' \in [Threads -> Handles \cup {NoHandle}] /\ task'[t] \in Handles
    BY <2>1, HandleParts
  <2> QED BY <1>16, <2>1, <2>2, <2>3 DEF Release, indexVars
<1>17. ASSUME NEW t \in Threads, FreeIndex(t) PROVE TypeInv'
  <2>1. task[t].index \in Indices
    BY <1>17, HandleParts DEF FreeIndex
  <2>2. freeIndices' \in Seq(Indices)
    BY <1>17, <2>1, AppendProperties DEF FreeIndex
  <2> QED BY <1>17, <2>2 DEF FreeIndex, slotVars, Return
<1> QED
  BY <1>1, <1>2, <1>3, <1>4, <1>5, <1>6, <1>7, <1>8, <1>9, <1>10, <1>11, <1>12, <1>13, <1>14,
     <1>15, <1>16, <1>17 DEF Next, Begin, Continue

-----------------------------------------------------------------------------
(* The invariant of the slots, one lemma per action.                       *)

\* What relates slots, queue entries and threads.
SharedInv ==
  /\ LocksHeldByLaunches
  /\ LaunchHandleIsNext
  /\ TodoIsLive
  /\ RunsOnce
  /\ DeliveriesAreOwed
  /\ DependantsCount
  /\ LatchesMatch
  /\ EntriesWereReady
  /\ EdgesMatch
  /\ WaiterIsOwed
  /\ IndexInOnePlace

\* The inductive invariant, in the two parts the proof takes it in.
Inv == TypeInv /\ SharedInv

\* A step that leaves the edges and the deliveries alone.
LEMMA SameEdges ==
  ASSUME EdgesMatch, UNCHANGED <<generation, status, prerequisites, dependants>>,
         \A u \in Threads : Delivering(u) /\ todo[u] # {} =>
           Delivering(u)' /\ task'[u] = task[u] /\ todo'[u] = todo[u]
  PROVE  EdgesMatch'
<1> SUFFICES ASSUME NEW d \in Handles, IsOccupiedBy(d), status[d.index] \in {"Created", "Waiting"},
                    NEW p \in prerequisites[d.index],
                    NEW u \in Threads, Delivering(u), task[u] = p, d \in todo[u]
             PROVE  \E v \in Threads : Delivering(v)' /\ task'[v] = p /\ d \in todo'[v]
  BY DEF EdgesMatch, IsOccupiedBy
<1> QED OBVIOUS

\* A step that leaves the free list, and who holds which index, alone.
LEMMA SameIndices ==
  ASSUME IndexInOnePlace, UNCHANGED <<freeIndices, nextUnused>>,
         \A u \in Threads : (pc[u] \in {"page", "construct", "freeIndex"})' =
                              (pc[u] \in {"page", "construct", "freeIndex"}),
         \A u \in Threads : pc[u] \in {"page", "construct", "freeIndex"} => task'[u] = task[u],
         \A i \in Indices : (status[i] = "Free")' = (status[i] = "Free")
  PROVE  IndexInOnePlace'
<1>1. \A i \in Indices : Holding(i)' = Holding(i)
  BY DEF Holding
<1>2. \A i \in Indices : Listed(i)' = Listed(i)
  BY DEF Listed
<1> QED BY <1>1, <1>2 DEF IndexInOnePlace

\* Who holds a mutex, or has attached a latch, is a thread.
LEMMA OwnersAreThreads ==
  ASSUME TypeOK
  PROVE  \A j \in Indices :
           /\ owner[j] # NoThread => owner[j] \in Threads
           /\ latch[j] # NoThread => latch[j] \in Threads
  BY DEF TypeOK, Threads

\* Allocating an index.
LEMMA LaunchAllocateKeeps ==
  ASSUME Inv, NEW t \in Threads, LaunchAllocate(t)
  PROVE  SharedInv'
<1> USE DEF Inv, SharedInv, TypeInv
<1>1. PICK i \in Indices :
        /\ task' = [task EXCEPT ![t] = [index |-> i, generation |-> generation[i]]]
        /\ \/ /\ freeIndices # <<>>
              /\ i = freeIndices[Len(freeIndices)]
              /\ freeIndices' = SubSeq(freeIndices, 1, Len(freeIndices) - 1)
              /\ nextUnused' = nextUnused
           \/ /\ i = nextUnused
              /\ nextUnused' = nextUnused + 1
              /\ freeIndices' = freeIndices
  <2>1. CASE freeIndices # <<>>
    <3>1. freeIndices[Len(freeIndices)] \in Indices
      BY <2>1, WithoutLast DEF TypeOK
    <3> QED BY <2>1, <3>1 DEF LaunchAllocate
  <2>2. CASE freeIndices = <<>>
    <3>1. nextUnused \in Indices
      BY <2>2, TaskGraphAssumption DEF LaunchAllocate, Indices, TypeOK
    <3> QED BY <2>2, <3>1 DEF LaunchAllocate
  <2> QED BY <2>1, <2>2
<1>2. PICK P \in SUBSET {h \in Handles : Known(h)} : todo' = [todo EXCEPT ![t] = P]
  BY DEF LaunchAllocate
<1>3. /\ pc[t] = "idle" /\ pc'[t] = "page"
      /\ task'[t] = [index |-> i, generation |-> generation[i]] /\ todo'[t] = P
      /\ \A u \in Threads \ {t} : pc'[u] = pc[u] /\ task'[u] = task[u] /\ todo'[u] = todo[u]
      /\ UNCHANGED <<generation, status, prerequisites, dependants, latch, owner, queued, ready>>
  BY <1>1, <1>2 DEF LaunchAllocate, TypeOK, slotVars
<1>4. /\ \A u \in Threads : pc[u] # "idle" => u # t
      /\ \A j \in Indices : owner[j] # NoThread => owner[j] \in Threads \ {t}
      /\ \A j \in Indices : latch[j] # NoThread => latch[j] \in Threads \ {t}
  BY <1>3 DEF LocksHeldByLaunches, LatchesMatch, TypeOK, Threads
<1>5. LocksHeldByLaunches'
  BY <1>3, <1>4 DEF LocksHeldByLaunches
<1>6. LaunchHandleIsNext'
  BY <1>3 DEF LaunchHandleIsNext
<1>7. TodoIsLive'
  BY <1>3 DEF TodoIsLive, Known, IsOccupiedBy
<1>8. RunsOnce'
  BY <1>3, <1>4 DEF RunsOnce, IsOccupiedBy
<1>9. \A u \in Threads : Delivering(u)' <=> Delivering(u) /\ u # t
  BY <1>3 DEF Delivering
<1>10. DeliveriesAreOwed'
  BY <1>3, <1>9 DEF DeliveriesAreOwed, Past, IsOccupiedBy
<1>11. DependantsCount'
  BY <1>3 DEF DependantsCount, IsOccupiedBy
<1>12. LatchesMatch'
  BY <1>3, <1>4 DEF LatchesMatch
<1>13. EntriesWereReady'
  BY <1>3 DEF EntriesWereReady, IsOccupiedBy
<1>14. EdgesMatch'
  BY <1>3, <1>9, SameEdges DEF Delivering
<1>15. WaiterIsOwed'
  BY <1>3 DEF WaiterIsOwed, IsOccupiedBy
<1>16. IndexInOnePlace'
  <2>1. Holding(i)' = Holding(i) \cup {t} /\ \A j \in Indices \ {i} : Holding(j)' = Holding(j)
    BY <1>3 DEF Holding
  <2>2. CASE freeIndices # <<>> /\ freeIndices' = SubSeq(freeIndices, 1, Len(freeIndices) - 1)
             /\ i = freeIndices[Len(freeIndices)] /\ nextUnused' = nextUnused
    <3>1. /\ Len(freeIndices) \in Nat \ {0} /\ Len(freeIndices') = Len(freeIndices) - 1
          /\ \A n \in 1 .. Len(freeIndices) - 1 : freeIndices'[n] = freeIndices[n]
      BY <2>2, WithoutLast DEF TypeOK
    <3>2. Listed(i)
      BY <2>2, <3>1 DEF Listed
    <3>3. Holding(i) = {} /\ status[i] = "Free" /\ i < nextUnused
      BY <3>2 DEF IndexInOnePlace
    <3>4. \A m, n \in 1 .. Len(freeIndices') : freeIndices'[m] = freeIndices'[n] => m = n
      BY <3>1 DEF IndexInOnePlace
    <3>5. ~ Listed(i)'
      BY <2>2, <3>1 DEF Listed, IndexInOnePlace
    <3>6. \A j \in Indices \ {i} : Listed(j)' <=> Listed(j)
      BY <2>2, <3>1 DEF Listed
    <3>7. ASSUME NEW j \in Indices
          PROVE  /\ \A u, v \in Holding(j)' : u = v
                 /\ Listed(j)' => Holding(j)' = {}
                 /\ Listed(j)' \/ Holding(j)' # {} => status[j] = "Free"
                 /\ j < nextUnused <=> Listed(j)' \/ Holding(j)' # {} \/ status[j] # "Free"
      BY <2>1, <3>3, <3>5, <3>6 DEF IndexInOnePlace
    <3> QED BY <1>3, <2>2, <3>4, <3>7 DEF IndexInOnePlace
  <2>3. CASE i = nextUnused /\ nextUnused' = nextUnused + 1 /\ freeIndices' = freeIndices
    <3>1. ~ Listed(i) /\ Holding(i) = {} /\ status[i] = "Free"
      BY <2>3 DEF IndexInOnePlace, TypeOK
    <3>2. \A j \in Indices : Listed(j)' <=> Listed(j)
      BY <2>3 DEF Listed
    <3>3. \A j \in Indices : j < nextUnused' <=> j < nextUnused \/ j = i
      BY <2>3, TaskGraphAssumption DEF TypeOK, Indices
    <3> QED BY <1>3, <2>1, <2>3, <3>1, <3>2, <3>3 DEF IndexInOnePlace
  <2> QED BY <1>1, <2>2, <2>3
<1> QED BY <1>5, <1>6, <1>7, <1>8, <1>10, <1>11, <1>12, <1>13, <1>14, <1>15, <1>16

\* The page is there.
LEMMA EnsurePageKeeps ==
  ASSUME Inv, NEW t \in Threads, EnsurePage(t)
  PROVE  SharedInv'
<1> USE DEF Inv, SharedInv, TypeInv
<1>1. /\ pc[t] = "page" /\ pc'[t] = "construct" /\ \A u \in Threads \ {t} : pc'[u] = pc[u]
      /\ UNCHANGED <<slotVars, freeIndices, nextUnused, queued, task, todo, ready>>
  BY DEF EnsurePage, TypeOK
<1>2. \A u \in Threads : Delivering(u)' <=> Delivering(u)
  BY <1>1 DEF Delivering
<1>3. LocksHeldByLaunches' /\ LaunchHandleIsNext' /\ LatchesMatch'
  BY <1>1, OwnersAreThreads DEF LocksHeldByLaunches, LaunchHandleIsNext, LatchesMatch, slotVars
<1>4. TodoIsLive' /\ RunsOnce' /\ DependantsCount' /\ EntriesWereReady' /\ WaiterIsOwed'
  BY <1>1 DEF TodoIsLive, RunsOnce, DependantsCount, EntriesWereReady, WaiterIsOwed, IsOccupiedBy, slotVars
<1>5. DeliveriesAreOwed'
  BY <1>1, <1>2 DEF DeliveriesAreOwed, Past, IsOccupiedBy, slotVars
<1>6. EdgesMatch'
  BY <1>1, <1>2, SameEdges DEF slotVars
<1>7. IndexInOnePlace'
  BY <1>1, SameIndices DEF slotVars
<1> QED BY <1>3, <1>4, <1>5, <1>6, <1>7

\* The page could not be allocated.
LEMMA EnsurePageFailsKeeps ==
  ASSUME Inv, NEW t \in Threads, EnsurePageFails(t)
  PROVE  SharedInv'
<1> USE DEF Inv, SharedInv, TypeInv
<1>1. /\ pc[t] = "page" /\ pc'[t] = "freeIndex" /\ todo'[t] = {}
      /\ \A u \in Threads \ {t} : pc'[u] = pc[u] /\ todo'[u] = todo[u]
      /\ UNCHANGED <<slotVars, freeIndices, nextUnused, queued, task, ready>>
  BY DEF EnsurePageFails, TypeOK, indexVars
<1>2. \A u \in Threads : Delivering(u)' <=> Delivering(u)
  BY <1>1 DEF Delivering
<1>3. LocksHeldByLaunches' /\ LaunchHandleIsNext' /\ LatchesMatch'
  BY <1>1, OwnersAreThreads DEF LocksHeldByLaunches, LaunchHandleIsNext, LatchesMatch, slotVars
<1>4. TodoIsLive' /\ RunsOnce' /\ DependantsCount' /\ EntriesWereReady' /\ WaiterIsOwed'
  BY <1>1 DEF TodoIsLive, RunsOnce, DependantsCount, EntriesWereReady, WaiterIsOwed, IsOccupiedBy, slotVars
<1>5. DeliveriesAreOwed'
  BY <1>1, <1>2 DEF DeliveriesAreOwed, Delivering, Past, IsOccupiedBy, slotVars
<1>6. EdgesMatch'
  BY <1>1, <1>2, SameEdges DEF Delivering, slotVars
<1>7. IndexInOnePlace'
  BY <1>1, SameIndices DEF slotVars
<1> QED BY <1>3, <1>4, <1>5, <1>6, <1>7

\* The slot a launch constructs its task in was free, so no handle names it.
LEMMA ConstructKeeps ==
  ASSUME Inv, NEW t \in Threads, Construct(t)
  PROVE  SharedInv'
<1> USE DEF Inv, SharedInv, TypeInv
<1> DEFINE i == task[t].index
<1>1. task[t] \in Handles /\ i \in Indices
  BY HandleParts DEF Construct, LocalsTyped
<1>2. /\ pc[t] = "construct" /\ pc'[t] = "attach" /\ \A u \in Threads \ {t} : pc'[u] = pc[u]
      /\ owner[i] = NoThread /\ owner'[i] = t
      /\ status'[i] = "Created" /\ prerequisites'[i] = {} /\ dependants'[i] = {}
      /\ latch'[i] = NoThread
      /\ \A j \in Indices \ {i} :
           /\ owner'[j] = owner[j] /\ status'[j] = status[j] /\ prerequisites'[j] = prerequisites[j]
           /\ dependants'[j] = dependants[j] /\ latch'[j] = latch[j]
      /\ UNCHANGED <<generation, freeIndices, nextUnused, queued, task, todo, ready>>
  BY <1>1 DEF Construct, TypeOK, indexVars, Unlocked
<1>3. status[i] = "Free" /\ generation[i] = task[t].generation /\ t \in Holding(i) /\ t # NoThread
  BY <1>1, <1>2, TaskGraphAssumption DEF IndexInOnePlace, LaunchHandleIsNext, Holding
<1>4. \A u \in Threads : Delivering(u)' <=> Delivering(u)
  BY <1>2 DEF Delivering
<1>5. \A h \in Handles : IsOccupiedBy(h) => h.index \in Indices \ {i} /\ IsOccupiedBy(h)'
  BY <1>2, <1>3, HandleParts DEF IsOccupiedBy
<1>6. \A h \in Handles : IsOccupiedBy(h)' => h.index \in Indices /\ (IsOccupiedBy(h) \/ h.index = i)
  BY <1>2, HandleParts DEF IsOccupiedBy
<1>7. \A h \in Handles : Past(h) => h.index \in Indices /\ Past(h)'
  BY <1>2, <1>3, HandleParts DEF Past
<1>8. LocksHeldByLaunches'
  <2>1. ASSUME NEW u \in Threads, pc'[u] = "attach"
        PROVE  owner'[task'[u].index] = u /\ generation'[task'[u].index] = task'[u].generation
    <3>1. CASE u = t
      BY <1>2, <1>3, <3>1
    <3>2. CASE u # t
      <4>1. /\ pc[u] = "attach" /\ owner[task[u].index] = u
            /\ generation[task[u].index] = task[u].generation /\ task[u] \in Handles
        BY <1>2, <2>1, <3>2 DEF LocksHeldByLaunches, LocalsTyped
      <4>2. task[u].index \in Indices \ {i}
        BY <1>2, <4>1, HandleParts, TaskGraphAssumption
      <4> QED BY <1>2, <4>1, <4>2
    <3> QED BY <3>1, <3>2
  <2>2. ASSUME NEW j \in Indices
        PROVE  /\ owner'[j] # NoThread => pc'[owner'[j]] = "attach" /\ task'[owner'[j]].index = j
               /\ owner'[j] # NoThread <=> status'[j] = "Created"
    BY <1>1, <1>2, <1>3, OwnersAreThreads DEF LocksHeldByLaunches
  <2> QED BY <2>1, <2>2 DEF LocksHeldByLaunches
<1>9. LaunchHandleIsNext' /\ LatchesMatch'
  BY <1>2, OwnersAreThreads DEF LaunchHandleIsNext, LatchesMatch
<1>10. TodoIsLive'
  <2> SUFFICES ASSUME NEW u \in Threads, pc'[u] \in {"page", "construct", "attach"}, NEW p \in todo'[u]
               PROVE  IsOccupiedBy(p)' /\ status'[p.index] # "Created"
    BY DEF TodoIsLive
  <2>1. p \in Handles /\ IsOccupiedBy(p) /\ status[p.index] # "Created"
    BY <1>2 DEF TodoIsLive, TypeOK
  <2> QED BY <1>2, <1>5, <2>1
<1>11. RunsOnce' /\ WaiterIsOwed'
  BY <1>2, <1>5 DEF RunsOnce, WaiterIsOwed, LocalsTyped
<1>12. DeliveriesAreOwed'
  BY <1>2, <1>4, <1>5, <1>7 DEF DeliveriesAreOwed, TypeOK, LocalsTyped, Delivering
<1>13. DependantsCount'
  <2> SUFFICES ASSUME NEW p \in Handles, IsOccupiedBy(p)', status'[p.index] # "Completed",
                      NEW d \in dependants'[p.index]
               PROVE  /\ IsOccupiedBy(d)'
                      /\ status'[d.index] \in {"Created", "Waiting"}
                      /\ p \in prerequisites'[d.index]
    BY DEF DependantsCount
  <2>1. p.index \in Indices \ {i} /\ IsOccupiedBy(p) /\ d \in Handles
    BY <1>2, <1>6 DEF TypeOK
  <2>2. IsOccupiedBy(d) /\ status[d.index] \in {"Created", "Waiting"} /\ p \in prerequisites[d.index]
    BY <1>2, <2>1 DEF DependantsCount
  <2> QED BY <1>2, <1>5, <2>1, <2>2
<1>14. EntriesWereReady'
  BY <1>2, <1>5, HandleParts DEF EntriesWereReady, IsOccupiedBy
<1>15. EdgesMatch'
  <2> SUFFICES ASSUME NEW d \in Handles, IsOccupiedBy(d)', status'[d.index] \in {"Created", "Waiting"}
               PROVE  /\ status'[d.index] = "Waiting" => prerequisites'[d.index] # {}
                      /\ \A p \in prerequisites'[d.index] :
                           \/ /\ IsOccupiedBy(p)'
                              /\ status'[p.index] \in {"Waiting", "Ready", "Running"}
                              /\ d \in dependants'[p.index]
                           \/ \E u \in Threads : Delivering(u)' /\ task'[u] = p /\ d \in todo'[u]
    BY DEF EdgesMatch
  <2>1. CASE d.index = i
    BY <1>2, <2>1
  <2>2. CASE d.index # i
    <3>1. IsOccupiedBy(d) /\ d.index \in Indices \ {i}
      BY <1>6, <2>2
    <3>2. prerequisites'[d.index] = prerequisites[d.index] /\ status'[d.index] = status[d.index]
      BY <1>2, <3>1
    <3>3. \A p \in prerequisites[d.index] : p \in Handles
      BY <3>1 DEF TypeOK
    <3> QED BY <1>2, <1>4, <1>5, <3>1, <3>2, <3>3 DEF EdgesMatch
  <2> QED BY <2>1, <2>2
<1>16. IndexInOnePlace'
  <2>1. \A j \in Indices : Listed(j)' <=> Listed(j)
    BY <1>2 DEF Listed
  <2>2. Holding(i)' = {} /\ \A j \in Indices \ {i} : Holding(j)' = Holding(j)
    BY <1>1, <1>2, <1>3 DEF Holding, IndexInOnePlace
  <2> QED BY <1>1, <1>2, <1>3, <2>1, <2>2 DEF IndexInOnePlace
<1> QED BY <1>8, <1>9, <1>10, <1>11, <1>12, <1>13, <1>14, <1>15, <1>16

\* A call returns that has nothing more to deliver.
LEMMA ReturnKeeps ==
  ASSUME Inv, NEW t \in Threads, Return(t),
         pc[t] \in {"claim", "notify", "enqueue"}, Delivering(t) => todo[t] = {},
         UNCHANGED <<slotVars, indexVars>>,
         \/ queued' = queued
         \/ pc[t] = "enqueue" /\ queued' = [queued EXCEPT ![ready[t]] = @ + 1]
  PROVE  SharedInv'
<1> USE DEF Inv, SharedInv, TypeInv
<1>1. /\ pc'[t] = "idle" /\ todo'[t] = {}
      /\ \A u \in Threads \ {t} :
           pc'[u] = pc[u] /\ todo'[u] = todo[u] /\ task'[u] = task[u] /\ ready'[u] = ready[u]
  BY DEF Return, TypeOK
<1>2. UNCHANGED <<generation, status, prerequisites, dependants, latch, owner, freeIndices, nextUnused>>
  BY DEF slotVars, indexVars
<1>3. \A u \in Threads : Delivering(u)' <=> Delivering(u) /\ u # t
  BY <1>1 DEF Delivering
<1>4. LocksHeldByLaunches' /\ LaunchHandleIsNext' /\ LatchesMatch'
  BY <1>1, <1>2, OwnersAreThreads DEF LocksHeldByLaunches, LaunchHandleIsNext, LatchesMatch
<1>5. TodoIsLive' /\ RunsOnce' /\ DependantsCount' /\ WaiterIsOwed'
  BY <1>1, <1>2 DEF TodoIsLive, RunsOnce, DependantsCount, WaiterIsOwed, IsOccupiedBy
<1>6. DeliveriesAreOwed'
  BY <1>1, <1>2, <1>3 DEF DeliveriesAreOwed, Past, IsOccupiedBy
<1>7. EntriesWereReady'
  <2> SUFFICES ASSUME NEW h \in Handles,
                      queued'[h] > 0 \/ (\E u \in Threads : pc'[u] = "enqueue" /\ ready'[u] = h)
               PROVE  queued[h] > 0 \/ (\E u \in Threads : pc[u] = "enqueue" /\ ready[u] = h)
    BY <1>2 DEF EntriesWereReady, IsOccupiedBy
  <2>1. queued'[h] = queued[h] \/ (pc[t] = "enqueue" /\ ready[t] = h)
    BY DEF TypeOK, LocalsTyped
  <2> QED BY <1>1, <2>1
<1>8. EdgesMatch'
  BY <1>1, <1>2, <1>3, SameEdges
<1>9. IndexInOnePlace'
  BY <1>1, <1>2, SameIndices
<1> QED BY <1>4, <1>5, <1>6, <1>7, <1>8, <1>9

\* A prerequisite that has not completed and the launched task learn of each
\* other; no other edge changes.
LEMMA AddPrerequisiteKeeps ==
  ASSUME Inv, NEW t \in Threads, AddPrerequisite(t)
  PROVE  SharedInv'
<1> USE DEF Inv, SharedInv, TypeInv
<1> DEFINE h == task[t]
           i == h.index
<1>1. h \in Handles /\ i \in Indices
  BY HandleParts DEF AddPrerequisite, LocalsTyped
<1>2. PICK p \in todo[t] :
        /\ IF status[p.index] = "Completed"
           THEN UNCHANGED <<prerequisites, dependants>>
           ELSE /\ prerequisites' = [prerequisites EXCEPT ![i] = @ \cup {p}]
                /\ dependants' = [dependants EXCEPT ![p.index] = @ \cup {h}]
        /\ todo' = [todo EXCEPT ![t] = @ \ {p}]
  BY DEF AddPrerequisite
<1>3. /\ pc[t] = "attach"
      /\ todo'[t] \subseteq todo[t] /\ \A u \in Threads \ {t} : todo'[u] = todo[u]
      /\ UNCHANGED <<generation, status, latch, owner, freeIndices, nextUnused, queued, pc, task, ready>>
  BY <1>2 DEF AddPrerequisite, TypeOK, indexVars
<1>4. p \in Handles /\ p.index \in Indices /\ IsOccupiedBy(p) /\ status[p.index] # "Created"
  BY <1>3, HandleParts DEF TodoIsLive, TypeOK
<1>5. IsOccupiedBy(h) /\ status[i] = "Created"
  BY <1>1, <1>3, TaskGraphAssumption DEF LocksHeldByLaunches, IsOccupiedBy
<1>6. /\ \A j \in Indices : prerequisites[j] \subseteq prerequisites'[j]
      /\ \A j \in Indices : dependants[j] \subseteq dependants'[j]
      /\ \A j \in Indices : \A q \in prerequisites'[j] \ prerequisites[j] :
           j = i /\ q = p /\ status[p.index] # "Completed" /\ h \in dependants'[p.index]
      /\ \A j \in Indices : \A d \in dependants'[j] \ dependants[j] :
           j = p.index /\ d = h /\ status[p.index] # "Completed" /\ p \in prerequisites'[i]
  <2>1. CASE status[p.index] = "Completed"
    BY <1>2, <2>1
  <2>2. CASE status[p.index] # "Completed"
    <3>1. /\ prerequisites' = [prerequisites EXCEPT ![i] = @ \cup {p}]
          /\ dependants' = [dependants EXCEPT ![p.index] = @ \cup {h}]
      BY <1>2, <2>2
    <3>2. /\ prerequisites'[i] = prerequisites[i] \cup {p}
          /\ \A j \in Indices \ {i} : prerequisites'[j] = prerequisites[j]
          /\ dependants'[p.index] = dependants[p.index] \cup {h}
          /\ \A j \in Indices \ {p.index} : dependants'[j] = dependants[j]
      BY <1>1, <1>4, <3>1 DEF TypeOK
    <3> QED BY <1>1, <1>4, <2>2, <3>2
  <2> QED BY <2>1, <2>2
<1>7. \A u \in Threads : (Delivering(u)' <=> Delivering(u)) /\ (Delivering(u) => u # t)
  BY <1>3 DEF Delivering
<1>8. LocksHeldByLaunches' /\ LaunchHandleIsNext' /\ LatchesMatch' /\ TodoIsLive' /\ RunsOnce'
  BY <1>3, OwnersAreThreads
     DEF LocksHeldByLaunches, LaunchHandleIsNext, LatchesMatch, TodoIsLive, RunsOnce, IsOccupiedBy
<1>9. EntriesWereReady' /\ WaiterIsOwed'
  BY <1>3 DEF EntriesWereReady, WaiterIsOwed, IsOccupiedBy
<1>10. DeliveriesAreOwed'
  <2> SUFFICES ASSUME NEW u \in Threads, Delivering(u), NEW d \in todo[u]
               PROVE  task[u] \in prerequisites'[d.index]
    BY <1>3, <1>7 DEF DeliveriesAreOwed, Past, IsOccupiedBy
  <2>1. d \in Handles /\ d.index \in Indices
    BY HandleParts DEF TypeOK
  <2> QED BY <1>6, <2>1 DEF DeliveriesAreOwed
<1>11. DependantsCount'
  <2> SUFFICES ASSUME NEW q \in Handles, IsOccupiedBy(q), status[q.index] # "Completed",
                      NEW d \in dependants'[q.index]
               PROVE  /\ IsOccupiedBy(d)
                      /\ status[d.index] \in {"Created", "Waiting"}
                      /\ q \in prerequisites'[d.index]
    BY <1>3 DEF DependantsCount, IsOccupiedBy
  <2>1. q.index \in Indices
    BY HandleParts
  <2>2. CASE d \in dependants[q.index]
    <3>1. d \in Handles /\ d.index \in Indices
      BY <2>1, <2>2, HandleParts DEF TypeOK
    <3> QED BY <1>6, <2>2, <3>1 DEF DependantsCount
  <2>3. CASE d \notin dependants[q.index]
    <3>1. q.index = p.index /\ d = h /\ p \in prerequisites'[i]
      BY <1>6, <2>1, <2>3
    <3>2. q = p
      BY <1>4, <3>1, HandleEqual DEF IsOccupiedBy
    <3> QED BY <1>5, <3>1, <3>2
  <2> QED BY <2>2, <2>3
<1>12. EdgesMatch'
  <2> SUFFICES ASSUME NEW d \in Handles, IsOccupiedBy(d), status[d.index] \in {"Created", "Waiting"}
               PROVE  /\ status[d.index] = "Waiting" => prerequisites'[d.index] # {}
                      /\ \A q \in prerequisites'[d.index] :
                           \/ /\ IsOccupiedBy(q)
                              /\ status[q.index] \in {"Waiting", "Ready", "Running"}
                              /\ d \in dependants'[q.index]
                           \/ \E u \in Threads : Delivering(u) /\ u # t /\ task[u] = q /\ d \in todo[u]
    BY <1>3, <1>7 DEF EdgesMatch, IsOccupiedBy
  <2>1. d.index \in Indices
    BY HandleParts
  <2>2. status[d.index] = "Waiting" => prerequisites'[d.index] # {}
    BY <1>6, <2>1 DEF EdgesMatch
  <2>3. ASSUME NEW q \in prerequisites[d.index]
        PROVE  \/ /\ IsOccupiedBy(q)
                  /\ status[q.index] \in {"Waiting", "Ready", "Running"}
                  /\ d \in dependants'[q.index]
               \/ \E u \in Threads : Delivering(u) /\ u # t /\ task[u] = q /\ d \in todo[u]
    <3>1. q.index \in Indices
      BY <2>1, HandleParts DEF TypeOK
    <3> QED BY <1>6, <1>7, <3>1 DEF EdgesMatch
  <2>4. ASSUME NEW q \in prerequisites'[d.index] \ prerequisites[d.index]
        PROVE  /\ IsOccupiedBy(q)
               /\ status[q.index] \in {"Waiting", "Ready", "Running"}
               /\ d \in dependants'[q.index]
    <3>1. d.index = i /\ q = p /\ status[p.index] # "Completed" /\ h \in dependants'[p.index]
      BY <1>6, <2>1
    <3>2. d = h
      BY <1>1, <1>5, <3>1, HandleEqual DEF IsOccupiedBy
    <3>3. status[p.index] \in {"Waiting", "Ready", "Running"}
      BY <1>4, <3>1 DEF TypeOK, Statuses, IsOccupiedBy
    <3> QED BY <1>4, <3>1, <3>2, <3>3
  <2> QED BY <2>2, <2>3, <2>4
<1>13. IndexInOnePlace'
  BY <1>3, SameIndices
<1> QED BY <1>8, <1>9, <1>10, <1>11, <1>12, <1>13

\* The launched task becomes ready or waiting, and its slot is unlocked: the
\* tasks that will tell it are exactly those it counts.
LEMMA PublishKeeps ==
  ASSUME Inv, NEW t \in Threads, Publish(t)
  PROVE  SharedInv'
<1> USE DEF Inv, SharedInv, TypeInv
<1> DEFINE h == task[t]
           i == h.index
<1>1. h \in Handles /\ i \in Indices
  BY HandleParts DEF Publish, LocalsTyped
<1>2. pc[t] = "attach" /\ todo[t] = {}
  BY DEF Publish
<1>3. /\ owner'[i] = NoThread
      /\ status'[i] = IF prerequisites[i] = {} THEN "Ready" ELSE "Waiting"
      /\ \A j \in Indices \ {i} : owner'[j] = owner[j] /\ status'[j] = status[j]
      /\ UNCHANGED <<generation, prerequisites, dependants, latch, freeIndices, nextUnused, queued>>
  BY <1>1 DEF Publish, TypeOK, indexVars
<1>4. /\ \/ prerequisites[i] = {} /\ pc'[t] = "enqueue" /\ ready'[t] = h /\ task'[t] = h
         \/ prerequisites[i] # {} /\ pc'[t] = "idle"
      /\ todo'[t] = {}
      /\ \A u \in Threads \ {t} :
           pc'[u] = pc[u] /\ todo'[u] = todo[u] /\ task'[u] = task[u] /\ ready'[u] = ready[u]
  BY <1>2 DEF Publish, TypeOK, Return
<1>5. IsOccupiedBy(h) /\ status[i] = "Created" /\ owner[i] = t /\ t # NoThread
  BY <1>1, <1>2, TaskGraphAssumption DEF LocksHeldByLaunches, IsOccupiedBy
<1>6. \A u \in Threads : Delivering(u)' <=> Delivering(u)
  BY <1>2, <1>4 DEF Delivering
<1>7. \A u \in Threads : Delivering(u) => u # t
  BY <1>2 DEF Delivering
<1>8. \A g \in Handles : IsOccupiedBy(g)' <=> IsOccupiedBy(g)
  BY <1>3, <1>5, HandleParts DEF IsOccupiedBy
<1>9. \A u \in Threads \ {t} : pc[u] = "attach" => task[u].index \in Indices \ {i}
  BY <1>5, HandleParts DEF LocksHeldByLaunches, LocalsTyped
<1>10. LocksHeldByLaunches'
  <2>1. ASSUME NEW u \in Threads, pc'[u] = "attach"
        PROVE  owner'[task'[u].index] = u /\ generation'[task'[u].index] = task'[u].generation
    BY <1>3, <1>4, <1>9, <2>1 DEF LocksHeldByLaunches
  <2>2. ASSUME NEW j \in Indices
        PROVE  /\ owner'[j] # NoThread => pc'[owner'[j]] = "attach" /\ task'[owner'[j]].index = j
               /\ owner'[j] # NoThread <=> status'[j] = "Created"
    <3>1. CASE j = i
      BY <1>3, <3>1
    <3>2. CASE j # i
      <4>1. owner'[j] = owner[j] /\ status'[j] = status[j]
        BY <1>3, <3>2
      <4>2. owner[j] # NoThread => owner[j] \in Threads \ {t}
        BY <3>2, OwnersAreThreads DEF LocksHeldByLaunches
      <4> QED BY <1>4, <4>1, <4>2 DEF LocksHeldByLaunches
    <3> QED BY <3>1, <3>2
  <2> QED BY <2>1, <2>2 DEF LocksHeldByLaunches
<1>11. LaunchHandleIsNext' /\ LatchesMatch'
  BY <1>2, <1>3, <1>4, OwnersAreThreads DEF LaunchHandleIsNext, LatchesMatch
<1>12. TodoIsLive'
  <2> SUFFICES ASSUME NEW u \in Threads \ {t}, pc[u] \in {"page", "construct", "attach"}, NEW p \in todo[u]
               PROVE  IsOccupiedBy(p)' /\ status'[p.index] # "Created"
    BY <1>4 DEF TodoIsLive
  <2>1. p \in Handles /\ p.index \in Indices
    BY HandleParts DEF TypeOK
  <2> QED BY <1>3, <1>8, <2>1 DEF TodoIsLive
<1>13. RunsOnce'
  <2>1. \A u \in Threads : pc'[u] = "run" => pc[u] = "run" /\ u # t
    BY <1>4
  <2>2. \A u \in Threads \ {t} : pc[u] = "run" => task[u] \in Handles /\ task[u].index \in Indices \ {i}
    BY <1>5, HandleParts DEF RunsOnce, LocalsTyped
  <2> QED BY <1>3, <1>4, <1>8, <2>1, <2>2 DEF RunsOnce
<1>14. DeliveriesAreOwed'
  <2>1. ASSUME NEW u \in Threads, pc'[u] = "enqueue", ready'[u] = task'[u]
        PROVE  todo'[u] = {}
    BY <1>4, <2>1 DEF DeliveriesAreOwed
  <2>2. ASSUME NEW u \in Threads, Delivering(u)
        PROVE  /\ Past(task[u])'
               /\ \A v \in Threads : Delivering(v) /\ task'[v] = task'[u] => v = u
    <3>1. task[u] \in Handles /\ task[u].index \in Indices /\ Past(task[u]) /\ task'[u] = task[u]
      BY <1>4, <1>7, <2>2, HandleParts DEF DeliveriesAreOwed, LocalsTyped, Delivering
    <3>2. Past(task[u])'
      BY <1>3, <1>5, <3>1 DEF Past
    <3>3. \A v \in Threads : Delivering(v) => task'[v] = task[v]
      BY <1>4, <1>7
    <3> QED BY <2>2, <3>1, <3>2, <3>3 DEF DeliveriesAreOwed
  <2>3. ASSUME NEW u \in Threads, Delivering(u), NEW d \in todo'[u]
        PROVE  /\ IsOccupiedBy(d)' /\ status'[d.index] \in {"Created", "Waiting"}
               /\ task'[u] \in prerequisites'[d.index]
    <3>1. /\ d \in Handles /\ d.index \in Indices /\ IsOccupiedBy(d)
          /\ status[d.index] \in {"Created", "Waiting"} /\ task[u] \in prerequisites[d.index]
      BY <1>4, <1>7, <2>3, HandleParts DEF DeliveriesAreOwed, TypeOK
    <3>2. status'[d.index] \in {"Created", "Waiting"}
      BY <1>3, <3>1
    <3> QED BY <1>3, <1>4, <1>7, <1>8, <2>3, <3>1, <3>2
  <2> QED BY <1>6, <2>1, <2>2, <2>3 DEF DeliveriesAreOwed
<1>15. DependantsCount'
  <2> SUFFICES ASSUME NEW p \in Handles, IsOccupiedBy(p), status'[p.index] # "Completed",
                      NEW d \in dependants[p.index]
               PROVE  /\ IsOccupiedBy(d)' /\ status'[d.index] \in {"Created", "Waiting"}
                      /\ p \in prerequisites[d.index]
    BY <1>3, <1>8 DEF DependantsCount
  <2>1. p.index \in Indices /\ status[p.index] # "Completed"
    BY <1>3, <1>5, HandleParts
  <2>2. d \in Handles /\ d.index \in Indices
    BY <2>1, HandleParts DEF TypeOK
  <2>3. IsOccupiedBy(d) /\ status[d.index] \in {"Created", "Waiting"} /\ p \in prerequisites[d.index]
    BY <2>1 DEF DependantsCount
  <2> QED BY <1>3, <1>8, <2>2, <2>3
<1>16. EntriesWereReady'
  <2> SUFFICES ASSUME NEW g \in Handles,
                      queued[g] > 0 \/ (\E u \in Threads : pc'[u] = "enqueue" /\ ready'[u] = g)
               PROVE  \/ generation[g.index] > g.generation
                      \/ IsOccupiedBy(g)' /\ status'[g.index] \in {"Ready", "Running", "Completed"}
    BY <1>3 DEF EntriesWereReady
  <2>1. CASE g = h /\ prerequisites[i] = {}
    BY <1>3, <1>5, <1>8, <2>1
  <2>2. CASE queued[g] > 0 \/ (\E u \in Threads : pc[u] = "enqueue" /\ ready[u] = g)
    <3>1. \/ generation[g.index] > g.generation
          \/ IsOccupiedBy(g) /\ status[g.index] \in {"Ready", "Running", "Completed"}
      BY <2>2 DEF EntriesWereReady
    <3> QED BY <1>3, <1>5, <1>8, <3>1, HandleParts
  <2> QED BY <1>4, <2>1, <2>2
<1>17. EdgesMatch'
  <2> SUFFICES ASSUME NEW d \in Handles, IsOccupiedBy(d), status'[d.index] \in {"Created", "Waiting"}
               PROVE  /\ status'[d.index] = "Waiting" => prerequisites[d.index] # {}
                      /\ \A q \in prerequisites[d.index] :
                           \/ /\ IsOccupiedBy(q)'
                              /\ status'[q.index] \in {"Waiting", "Ready", "Running"}
                              /\ d \in dependants[q.index]
                           \/ \E u \in Threads : Delivering(u)' /\ task'[u] = q /\ d \in todo'[u]
    BY <1>3, <1>8 DEF EdgesMatch
  <2>1. d.index \in Indices /\ status[d.index] \in {"Created", "Waiting"}
    BY <1>3, <1>5, HandleParts
  <2>2. status'[d.index] = "Waiting" => prerequisites[d.index] # {}
    BY <1>3, <2>1 DEF EdgesMatch
  <2>3. ASSUME NEW q \in prerequisites[d.index],
               IsOccupiedBy(q), status[q.index] \in {"Waiting", "Ready", "Running"}
        PROVE  IsOccupiedBy(q)' /\ status'[q.index] \in {"Waiting", "Ready", "Running"}
    <3>1. q \in Handles /\ q.index \in Indices \ {i}
      BY <1>5, <2>1, <2>3, HandleParts DEF TypeOK
    <3> QED BY <1>3, <1>8, <2>3, <3>1
  <2>4. ASSUME NEW q, NEW u \in Threads, Delivering(u), task[u] = q, d \in todo[u]
        PROVE  Delivering(u)' /\ task'[u] = q /\ d \in todo'[u]
    BY <1>4, <1>6, <1>7, <2>4
  <2> QED BY <2>1, <2>2, <2>3, <2>4 DEF EdgesMatch
<1>18. WaiterIsOwed'
  <2> SUFFICES ASSUME NEW u \in Threads \ {t}, pc[u] = "blocked"
               PROVE  /\ IsOccupiedBy(task[u])' /\ status'[task[u].index] \in {"Waiting", "Ready", "Running"}
                      /\ latch[task[u].index] = u
    BY <1>3, <1>4 DEF WaiterIsOwed
  <2>1. task[u] \in Handles /\ task[u].index \in Indices \ {i} /\ task'[u] = task[u]
    BY <1>4, <1>5, HandleParts DEF WaiterIsOwed, LocalsTyped
  <2> QED BY <1>3, <2>1 DEF WaiterIsOwed, IsOccupiedBy
<1>19. IndexInOnePlace'
  <2>1. \A u \in Threads : (pc'[u] \in {"page", "construct", "freeIndex"}) = (pc[u] \in {"page", "construct", "freeIndex"})
    BY <1>2, <1>4
  <2>2. \A u \in Threads : pc[u] \in {"page", "construct", "freeIndex"} => task'[u] = task[u]
    BY <1>2, <1>4
  <2>3. \A j \in Indices : (status'[j] = "Free") = (status[j] = "Free")
    BY <1>3, <1>5
  <2> QED BY <1>3, <2>1, <2>2, <2>3, SameIndices
<1> QED BY <1>10, <1>11, <1>12, <1>13, <1>14, <1>15, <1>16, <1>17, <1>18, <1>19

\* A ready task enters the queue.
LEMMA EnqueueKeeps ==
  ASSUME Inv, NEW t \in Threads, Enqueue(t)
  PROVE  SharedInv'
<1> USE DEF Inv, SharedInv, TypeInv
<1>1. CASE todo[t] = {}
  BY <1>1, ReturnKeeps DEF Enqueue
<1>2. CASE todo[t] # {}
  <2>1. /\ pc[t] = "enqueue" /\ pc'[t] = "notify"
        /\ \A u \in Threads \ {t} : pc'[u] = pc[u] /\ ready'[u] = ready[u]
        /\ queued' = [queued EXCEPT ![ready[t]] = @ + 1]
        /\ UNCHANGED <<generation, status, prerequisites, dependants, latch, owner,
                       freeIndices, nextUnused, task, todo>>
    BY <1>2 DEF Enqueue, TypeOK, slotVars, indexVars
  <2>2. \A u \in Threads : Delivering(u)' <=> Delivering(u)
    BY <1>2, <2>1 DEF Delivering, DeliveriesAreOwed
  <2>3. LocksHeldByLaunches' /\ LaunchHandleIsNext' /\ LatchesMatch'
    BY <2>1, OwnersAreThreads DEF LocksHeldByLaunches, LaunchHandleIsNext, LatchesMatch
  <2>4. TodoIsLive' /\ RunsOnce' /\ DependantsCount' /\ WaiterIsOwed'
    BY <2>1 DEF TodoIsLive, RunsOnce, DependantsCount, WaiterIsOwed, IsOccupiedBy
  <2>5. DeliveriesAreOwed'
    BY <2>1, <2>2 DEF DeliveriesAreOwed, Past, IsOccupiedBy
  <2>6. EntriesWereReady'
    <3> SUFFICES ASSUME NEW h \in Handles,
                        queued'[h] > 0 \/ (\E u \in Threads : pc'[u] = "enqueue" /\ ready'[u] = h)
                 PROVE  queued[h] > 0 \/ (\E u \in Threads : pc[u] = "enqueue" /\ ready[u] = h)
      BY <2>1 DEF EntriesWereReady, IsOccupiedBy
    <3>1. queued'[h] = queued[h] \/ ready[t] = h
      BY <2>1 DEF TypeOK, LocalsTyped
    <3> QED BY <2>1, <3>1
  <2>7. EdgesMatch'
    BY <2>1, <2>2, SameEdges
  <2>8. IndexInOnePlace'
    BY <2>1, SameIndices
  <2> QED BY <2>3, <2>4, <2>5, <2>6, <2>7, <2>8
<1> QED BY <1>1, <1>2

\* A worker or a helping thread takes a task in hand; its slot is untouched.
LEMMA TakeKeeps ==
  ASSUME Inv, NEW t \in Threads, Pop(t) \/ Help(t)
  PROVE  SharedInv'
<1> USE DEF Inv, SharedInv, TypeInv
<1>1. /\ pc[t] = "idle" /\ pc'[t] = "claim"
      /\ \A u \in Threads \ {t} : pc'[u] = pc[u] /\ task'[u] = task[u]
      /\ \A h \in Handles : queued'[h] <= queued[h]
      /\ UNCHANGED <<generation, status, prerequisites, dependants, latch, owner,
                     freeIndices, nextUnused, todo, ready>>
  <2>1. CASE Pop(t)
    BY <2>1 DEF Pop, TypeOK, slotVars, indexVars
  <2>2. CASE Help(t)
    BY <2>2 DEF Help, TypeOK, slotVars, indexVars
  <2> QED BY <2>1, <2>2
<1>2. /\ \A u \in Threads : pc[u] # "idle" => u # t
      /\ \A u \in Threads : Delivering(u)' <=> Delivering(u)
      /\ \A u \in Threads : Delivering(u) => u # t
  BY <1>1 DEF Delivering
<1>3. LocksHeldByLaunches' /\ LaunchHandleIsNext' /\ LatchesMatch'
  BY <1>1, <1>2, OwnersAreThreads DEF LocksHeldByLaunches, LaunchHandleIsNext, LatchesMatch
<1>4. TodoIsLive' /\ RunsOnce' /\ DependantsCount' /\ WaiterIsOwed'
  BY <1>1, <1>2 DEF TodoIsLive, RunsOnce, DependantsCount, WaiterIsOwed, IsOccupiedBy
<1>5. DeliveriesAreOwed'
  BY <1>1, <1>2 DEF DeliveriesAreOwed, Past, IsOccupiedBy
<1>6. EntriesWereReady'
  <2>1. \A h \in Handles : queued'[h] > 0 => queued[h] > 0
    BY <1>1, NextTypeInv DEF TypeOK, Next, Begin
  <2> QED BY <1>1, <2>1 DEF EntriesWereReady, IsOccupiedBy
<1>7. EdgesMatch'
  BY <1>1, <1>2, SameEdges
<1>8. IndexInOnePlace'
  BY <1>1, <1>2, SameIndices
<1> QED BY <1>3, <1>4, <1>5, <1>6, <1>7, <1>8

\* A claim succeeds only on a ready task, so only one thread runs it.
LEMMA TryClaimKeeps ==
  ASSUME Inv, NEW t \in Threads, TryClaim(t)
  PROVE  SharedInv'
<1> USE DEF Inv, SharedInv, TypeInv
<1> DEFINE h == task[t]
           i == h.index
<1>1. pc[t] = "claim" /\ h \in Handles /\ i \in Indices
  BY HandleParts DEF TryClaim, LocalsTyped
<1>2. CASE ~ (IsOccupiedBy(h) /\ status[i] = "Ready")
  <2>1. Return(t) /\ UNCHANGED <<slotVars, indexVars, queued>>
    BY <1>2 DEF TryClaim, slotVars
  <2> QED BY <1>1, <2>1, ReturnKeeps DEF Delivering
<1>3. CASE IsOccupiedBy(h) /\ status[i] = "Ready"
  <2>1. /\ status'[i] = "Running" /\ \A j \in Indices \ {i} : status'[j] = status[j]
        /\ pc'[t] = "run" /\ \A u \in Threads \ {t} : pc'[u] = pc[u]
        /\ UNCHANGED <<generation, prerequisites, dependants, latch, owner, freeIndices, nextUnused,
                       queued, task, todo, ready>>
    BY <1>1, <1>3 DEF TryClaim, TypeOK, indexVars
  <2>2. \A j \in Indices : /\ status[j] \in {"Created", "Waiting", "Completed", "Running", "Free"} => status'[j] = status[j]
                           /\ status'[j] \in {"Created", "Waiting", "Completed", "Free"} => status[j] = status'[j]
    BY <1>3, <2>1
  <2>3. \A u \in Threads : (Delivering(u)' <=> Delivering(u)) /\ (Delivering(u) => u # t)
    BY <1>1, <2>1 DEF Delivering
  <2>4. \A g \in Handles : g.index \in Indices /\ (IsOccupiedBy(g)' <=> IsOccupiedBy(g))
    BY <1>3, <2>1, HandleParts DEF IsOccupiedBy
  <2>5. LocksHeldByLaunches' /\ LaunchHandleIsNext' /\ LatchesMatch'
    BY <1>1, <2>1, <2>2, OwnersAreThreads DEF LocksHeldByLaunches, LaunchHandleIsNext, LatchesMatch
  <2>6. TodoIsLive'
    BY <1>1, <2>1, <2>2, <2>4 DEF TodoIsLive, TypeOK
  <2>7. RunsOnce'
    <3>1. \A u \in Threads \ {t} : pc[u] = "run" =>
            /\ task[u] \in Handles /\ task[u].index \in Indices \ {i} /\ IsOccupiedBy(task[u])
            /\ status[task[u].index] = "Running"
      BY <1>3, HandleParts DEF RunsOnce, LocalsTyped
    <3> QED BY <1>1, <1>3, <2>1, <3>1 DEF RunsOnce, IsOccupiedBy
  <2>8. DeliveriesAreOwed'
    <3>1. \A g \in Handles : Past(g) => Past(g)'
      BY <2>1, <2>2, <2>4 DEF Past
    <3> QED BY <1>1, <2>1, <2>2, <2>3, <2>4, <3>1 DEF DeliveriesAreOwed, TypeOK, LocalsTyped, Delivering
  <2>9. DependantsCount'
    <3> SUFFICES ASSUME NEW p \in Handles, IsOccupiedBy(p), status'[p.index] # "Completed",
                        NEW d \in dependants[p.index]
                 PROVE  /\ IsOccupiedBy(d)' /\ status'[d.index] \in {"Created", "Waiting"}
                        /\ p \in prerequisites[d.index]
      BY <2>1, <2>4 DEF DependantsCount
    <3>1. p.index \in Indices /\ status[p.index] # "Completed" /\ d \in Handles /\ d.index \in Indices
      BY <2>2, HandleParts DEF TypeOK
    <3> QED BY <2>2, <2>4, <3>1 DEF DependantsCount
  <2>10. EntriesWereReady'
    BY <1>1, <2>1, <2>4 DEF EntriesWereReady
  <2>11. EdgesMatch'
    <3> SUFFICES ASSUME NEW d \in Handles, IsOccupiedBy(d), status'[d.index] \in {"Created", "Waiting"}
                 PROVE  /\ status'[d.index] = "Waiting" => prerequisites[d.index] # {}
                        /\ \A q \in prerequisites[d.index] :
                             \/ /\ IsOccupiedBy(q)'
                                /\ status'[q.index] \in {"Waiting", "Ready", "Running"}
                                /\ d \in dependants[q.index]
                             \/ \E u \in Threads : Delivering(u) /\ task[u] = q /\ d \in todo[u]
      BY <2>1, <2>3, <2>4 DEF EdgesMatch
    <3>1. d.index \in Indices /\ status[d.index] = status'[d.index]
      BY <2>2, HandleParts
    <3>2. \A q \in prerequisites[d.index] : q \in Handles /\ q.index \in Indices
      BY <3>1, HandleParts DEF TypeOK
    <3> QED BY <2>1, <2>4, <3>1, <3>2 DEF EdgesMatch
  <2>12. WaiterIsOwed'
    BY <1>1, <2>1, <2>4 DEF WaiterIsOwed, LocalsTyped, IsOccupiedBy
  <2>13. IndexInOnePlace'
    <3>1. \A j \in Indices : (status[j] = "Free")' = (status[j] = "Free")
      BY <1>3, <2>1
    <3> QED BY <1>1, <2>1, <3>1, SameIndices
  <2> QED BY <2>5, <2>6, <2>7, <2>8, <2>9, <2>10, <2>11, <2>12, <2>13
<1> QED BY <1>2, <1>3

\* A task completes: the thread that ran it, and no other, owes its dependants
\* the news, and its waiter is let go.
LEMMA CompleteKeeps ==
  ASSUME Inv, NEW t \in Threads, Complete(t)
  PROVE  SharedInv'
<1> USE DEF Inv, SharedInv, TypeInv
<1> DEFINE h == task[t]
           i == h.index
           w == latch[i]
<1>1. pc[t] = "run" /\ h \in Handles /\ i \in Indices
  BY HandleParts DEF Complete, LocalsTyped
<1>2. IsOccupiedBy(h) /\ status[i] = "Running" /\ generation[i] = h.generation
  BY <1>1 DEF RunsOnce, IsOccupiedBy
<1>3. w # NoThread => w \in Threads \ {t} /\ pc[w] = "blocked" /\ task[w].index = i
  BY <1>1, OwnersAreThreads DEF LatchesMatch
<1>4. /\ status'[i] = "Completed" /\ \A j \in Indices \ {i} : status'[j] = status[j]
      /\ latch'[i] = NoThread /\ \A j \in Indices \ {i} : latch'[j] = latch[j]
      /\ UNCHANGED <<generation, prerequisites, dependants, owner, freeIndices, nextUnused, queued, ready>>
  BY <1>1 DEF Complete, TypeOK, indexVars
<1>5. /\ pc'[t] = "notify" /\ todo'[t] = dependants[i] /\ task'[t] = h
      /\ \A u \in Threads \ {t} : todo'[u] = todo[u]
      /\ \A u \in Threads \ {t, w} : pc'[u] = pc[u] /\ task'[u] = task[u]
      /\ w # NoThread => pc'[w] = "idle"
  BY <1>1, <1>3, TaskGraphAssumption DEF Complete, TypeOK
<1>6. \A u \in Threads : pc[u] \notin {"run", "blocked"} => u \in Threads \ {t, w}
  BY <1>1, <1>3, TaskGraphAssumption
<1>7. \A u \in Threads : pc'[u] \notin {"notify", "idle"} => u \in Threads \ {t, w}
  BY <1>3, <1>5, TaskGraphAssumption
<1>8. \A u \in Threads : Delivering(u)' <=> Delivering(u) \/ u = t
  BY <1>1, <1>3, <1>4, <1>5, TaskGraphAssumption DEF Delivering
<1>9. \A u \in Threads : Delivering(u) => u \in Threads \ {t, w}
  BY <1>6 DEF Delivering
<1>10. \A g \in Handles : g.index \in Indices /\ (IsOccupiedBy(g)' <=> IsOccupiedBy(g))
  BY <1>2, <1>4, HandleParts DEF IsOccupiedBy
<1>11. \A j \in Indices : status[j] \in {"Free", "Created", "Waiting", "Ready", "Completed"} => status'[j] = status[j]
  BY <1>2, <1>4
<1>12. LocksHeldByLaunches'
  <2>1. ASSUME NEW u \in Threads, pc'[u] = "attach"
        PROVE  owner'[task'[u].index] = u /\ generation'[task'[u].index] = task'[u].generation
    BY <1>4, <1>5, <1>7, <2>1 DEF LocksHeldByLaunches
  <2>2. ASSUME NEW j \in Indices
        PROVE  /\ owner'[j] # NoThread => pc'[owner'[j]] = "attach" /\ task'[owner'[j]].index = j
               /\ owner'[j] # NoThread <=> status'[j] = "Created"
    <3>1. owner[j] # NoThread => owner[j] \in Threads \ {t, w}
      BY <1>6, OwnersAreThreads DEF LocksHeldByLaunches
    <3>2. status'[j] = "Created" <=> status[j] = "Created"
      BY <1>2, <1>4
    <3> QED BY <1>4, <1>5, <3>1, <3>2 DEF LocksHeldByLaunches
  <2> QED BY <2>1, <2>2 DEF LocksHeldByLaunches
<1>13. LaunchHandleIsNext'
  BY <1>4, <1>5, <1>7 DEF LaunchHandleIsNext
<1>14. TodoIsLive'
  <2> SUFFICES ASSUME NEW u \in Threads, pc'[u] \in {"page", "construct", "attach"}, NEW p \in todo'[u]
               PROVE  IsOccupiedBy(p)' /\ status'[p.index] # "Created"
    BY DEF TodoIsLive
  <2>1. u \in Threads \ {t, w} /\ pc[u] = pc'[u] /\ todo[u] = todo'[u]
    BY <1>5, <1>7
  <2>2. p \in Handles /\ p.index \in Indices /\ IsOccupiedBy(p) /\ status[p.index] # "Created"
    BY <2>1, HandleParts DEF TodoIsLive, TypeOK
  <2> QED BY <1>4, <1>10, <2>2
<1>15. RunsOnce'
  <2>1. ASSUME NEW u \in Threads, pc'[u] = "run"
        PROVE  /\ u \in Threads \ {t, w} /\ pc[u] = "run" /\ task'[u] = task[u]
               /\ IsOccupiedBy(task[u])' /\ status'[task'[u].index] = "Running"
    <3>1. u \in Threads \ {t, w} /\ pc[u] = "run" /\ task'[u] = task[u]
      BY <1>5, <1>7, <2>1
    <3>2. task[u] \in Handles /\ IsOccupiedBy(task[u]) /\ status[task[u].index] = "Running"
      BY <3>1 DEF RunsOnce, LocalsTyped
    <3>3. task[u].index \in Indices \ {i}
      <4>1. task[u] # h
        BY <1>1, <3>1 DEF RunsOnce
      <4> QED BY <1>1, <1>2, <3>2, <4>1, HandleParts, HandleEqual DEF IsOccupiedBy
    <3> QED BY <1>4, <3>1, <3>2, <3>3 DEF IsOccupiedBy
  <2> QED BY <2>1 DEF RunsOnce
<1>16. DeliveriesAreOwed'
  <2>1. ASSUME NEW u \in Threads, pc'[u] = "enqueue", ready'[u] = task'[u]
        PROVE  todo'[u] = {}
    BY <1>4, <1>5, <1>7, <2>1 DEF DeliveriesAreOwed
  <2>2. ASSUME NEW u \in Threads, Delivering(u)
        PROVE  /\ task'[u] = task[u] /\ task[u] \in Handles /\ task[u] # h
               /\ Past(task[u])' /\ todo'[u] = todo[u] /\ u # t
    <3>1. u \in Threads \ {t, w} /\ task'[u] = task[u] /\ task[u] \in Handles /\ Past(task[u])
      BY <1>5, <1>9, <2>2 DEF DeliveriesAreOwed, LocalsTyped, Delivering
    <3>2. task[u] # h
      BY <1>1, <1>2, <3>1, HandleParts DEF Past
    <3>3. Past(task[u])'
      BY <1>4, <3>1, HandleParts DEF Past
    <3> QED BY <1>5, <3>1, <3>2, <3>3
  <2>3. Past(h)'
    BY <1>2, <1>4, <1>5 DEF Past
  <2>4. ASSUME NEW u \in Threads, Delivering(u)', NEW d \in todo'[u]
        PROVE  /\ d \in Handles /\ IsOccupiedBy(d) /\ status[d.index] \in {"Created", "Waiting"}
               /\ task'[u] \in prerequisites[d.index]
    <3>1. CASE u = t
      BY <1>1, <1>2, <1>5, <2>4, <3>1 DEF DependantsCount, TypeOK
    <3>2. CASE u # t
      BY <1>8, <2>2, <2>4, <3>2 DEF DeliveriesAreOwed, TypeOK
    <3> QED BY <3>1, <3>2
  <2>5. \A u \in Threads : Delivering(u)' => Past(task[u])'
    BY <1>5, <1>8, <2>2, <2>3
  <2>6. \A u, v \in Threads : Delivering(u)' /\ Delivering(v)' /\ task'[v] = task'[u] => v = u
    BY <1>5, <1>8, <2>2 DEF DeliveriesAreOwed
  <2>7. \A u \in Threads : Delivering(u)' => \A d \in todo'[u] :
          /\ IsOccupiedBy(d)' /\ status'[d.index] \in {"Created", "Waiting"}
          /\ task'[u] \in prerequisites'[d.index]
    BY <1>4, <1>10, <1>11, <2>4
  <2> QED BY <2>1, <2>5, <2>6, <2>7 DEF DeliveriesAreOwed
<1>17. DependantsCount'
  <2> SUFFICES ASSUME NEW p \in Handles, IsOccupiedBy(p), status'[p.index] # "Completed",
                      NEW d \in dependants[p.index]
               PROVE  /\ IsOccupiedBy(d)' /\ status'[d.index] \in {"Created", "Waiting"}
                      /\ p \in prerequisites[d.index]
    BY <1>4, <1>10 DEF DependantsCount
  <2>1. p.index \in Indices /\ status[p.index] # "Completed" /\ d \in Handles /\ d.index \in Indices
    BY <1>11, HandleParts DEF TypeOK
  <2> QED BY <1>10, <1>11, <2>1 DEF DependantsCount
<1>18. LatchesMatch'
  BY <1>3, <1>4, <1>5, <1>1, OwnersAreThreads DEF LatchesMatch
<1>19. EntriesWereReady'
  <2>1. \A u \in Threads : pc'[u] = "enqueue" => pc[u] = "enqueue" /\ ready'[u] = ready[u]
    BY <1>4, <1>5, <1>7
  <2> QED BY <1>4, <1>10, <2>1 DEF EntriesWereReady
<1>20. EdgesMatch'
  <2> SUFFICES ASSUME NEW d \in Handles, IsOccupiedBy(d), status'[d.index] \in {"Created", "Waiting"}
               PROVE  /\ status'[d.index] = "Waiting" => prerequisites[d.index] # {}
                      /\ \A q \in prerequisites[d.index] :
                           \/ /\ IsOccupiedBy(q)'
                              /\ status'[q.index] \in {"Waiting", "Ready", "Running"}
                              /\ d \in dependants[q.index]
                           \/ \E u \in Threads : Delivering(u)' /\ task'[u] = q /\ d \in todo'[u]
    BY <1>4, <1>10 DEF EdgesMatch
  <2>1. d.index \in Indices /\ status[d.index] = status'[d.index]
    BY <1>4, HandleParts
  <2>2. ASSUME NEW q \in prerequisites[d.index],
               IsOccupiedBy(q), status[q.index] \in {"Waiting", "Ready", "Running"}, d \in dependants[q.index]
        PROVE  \/ /\ IsOccupiedBy(q)'
                  /\ status'[q.index] \in {"Waiting", "Ready", "Running"}
                  /\ d \in dependants[q.index]
               \/ Delivering(t)' /\ task'[t] = q /\ d \in todo'[t]
    <3>1. q \in Handles /\ q.index \in Indices
      BY <2>1, HandleParts DEF TypeOK
    <3>2. CASE q.index = i
      <4>1. q = h
        BY <1>1, <1>2, <2>2, <3>1, <3>2, HandleEqual DEF IsOccupiedBy
      <4> QED BY <1>5, <1>8, <2>2, <4>1
    <3>3. CASE q.index # i
      BY <1>4, <1>10, <2>2, <3>1, <3>3
    <3> QED BY <3>2, <3>3
  <2>3. ASSUME NEW q, NEW u \in Threads, Delivering(u), task[u] = q, d \in todo[u]
        PROVE  Delivering(u)' /\ task'[u] = q /\ d \in todo'[u]
    BY <1>5, <1>8, <1>9, <2>3
  <2> QED BY <2>1, <2>2, <2>3 DEF EdgesMatch
<1>21. WaiterIsOwed'
  <2> SUFFICES ASSUME NEW u \in Threads, pc'[u] = "blocked"
               PROVE  /\ IsOccupiedBy(task[u])' /\ status'[task'[u].index] \in {"Waiting", "Ready", "Running"}
                      /\ latch'[task'[u].index] = u
    BY DEF WaiterIsOwed
  <2>1. u \in Threads \ {t, w} /\ pc[u] = "blocked" /\ task'[u] = task[u]
    BY <1>5, <1>7
  <2>2. task[u] \in Handles /\ task[u].index \in Indices \ {i}
    BY <2>1, HandleParts DEF WaiterIsOwed, LocalsTyped
  <2> QED BY <1>4, <2>1, <2>2 DEF WaiterIsOwed, IsOccupiedBy
<1>22. IndexInOnePlace'
  <2>1. \A u \in Threads : (pc'[u] \in {"page", "construct", "freeIndex"}) = (pc[u] \in {"page", "construct", "freeIndex"})
    BY <1>1, <1>3, <1>5, TaskGraphAssumption
  <2>2. \A u \in Threads : pc[u] \in {"page", "construct", "freeIndex"} => task'[u] = task[u]
    BY <1>5, <1>6
  <2>3. \A j \in Indices : (status'[j] = "Free") = (status[j] = "Free")
    BY <1>2, <1>4
  <2> QED BY <1>4, <2>1, <2>2, <2>3, SameIndices
<1> QED BY <1>12, <1>13, <1>14, <1>15, <1>16, <1>17, <1>18, <1>19, <1>20, <1>21, <1>22

\* A dependant that is told does not count the prerequisite any more; when it
\* was the last one the thread that told it, and no other, must enqueue it.
LEMMA RemovePrerequisiteKeeps ==
  ASSUME Inv, NEW t \in Threads, RemovePrerequisite(t)
  PROVE  SharedInv'
<1> USE DEF Inv, SharedInv, TypeInv
<1> DEFINE p == task[t]
<1>1. PICK d \in todo[t] :
        /\ Unlocked(d.index)
        /\ prerequisites' = [prerequisites EXCEPT ![d.index] = prerequisites[d.index] \ {p}]
        /\ todo' = [todo EXCEPT ![t] = @ \ {d}]
        /\ IF prerequisites[d.index] \ {p} = {}
           THEN /\ status' = [status EXCEPT ![d.index] = "Ready"]
                /\ ready' = [ready EXCEPT ![t] = d]
                /\ pc' = [pc EXCEPT ![t] = "enqueue"]
           ELSE UNCHANGED <<status, ready, pc>>
  BY DEF RemovePrerequisite
<1> DEFINE i == d.index
           left == prerequisites[i] \ {p}
<1>2. /\ pc[t] = "notify" /\ Delivering(t) /\ p \in Handles /\ Past(p)
      /\ d \in Handles /\ i \in Indices /\ IsOccupiedBy(d) /\ p \in prerequisites[i]
  BY HandleParts DEF RemovePrerequisite, Delivering, DeliveriesAreOwed, TypeOK, LocalsTyped
<1>3. status[i] = "Waiting"
  BY <1>1, <1>2 DEF DeliveriesAreOwed, LocksHeldByLaunches, Unlocked
<1>4. p # d
  BY <1>2, <1>3, HandleParts DEF Past, IsOccupiedBy
<1>5. /\ prerequisites'[i] = left /\ \A j \in Indices \ {i} : prerequisites'[j] = prerequisites[j]
      /\ todo'[t] = todo[t] \ {d} /\ \A u \in Threads \ {t} : todo'[u] = todo[u]
      /\ UNCHANGED <<generation, dependants, latch, owner, freeIndices, nextUnused, queued, task>>
  BY <1>1, <1>2 DEF RemovePrerequisite, TypeOK, indexVars
<1>6. /\ \/ left = {} /\ status'[i] = "Ready" /\ ready'[t] = d /\ pc'[t] = "enqueue"
         \/ left # {} /\ status'[i] = "Waiting" /\ ready'[t] = ready[t] /\ pc'[t] = "notify"
      /\ \A j \in Indices \ {i} : status'[j] = status[j]
      /\ \A u \in Threads \ {t} : pc'[u] = pc[u] /\ ready'[u] = ready[u]
  <2>1. CASE left = {}
    BY <1>1, <1>2, <2>1 DEF TypeOK
  <2>2. CASE left # {}
    BY <1>1, <1>2, <1>3, <2>2
  <2> QED BY <2>1, <2>2
<1>7. \A u \in Threads : Delivering(u)' <=> Delivering(u)
  BY <1>2, <1>4, <1>5, <1>6 DEF Delivering
<1>8. \A g \in Handles : g.index \in Indices /\ (IsOccupiedBy(g)' <=> IsOccupiedBy(g))
  BY <1>3, <1>5, <1>6, HandleParts DEF IsOccupiedBy
<1>9. /\ \A j \in Indices : status[j] \in {"Free", "Created", "Ready", "Running", "Completed"} => status'[j] = status[j]
      /\ \A j \in Indices : status[j] = "Waiting" => status'[j] \in {"Waiting", "Ready"}
      /\ \A j \in Indices : status'[j] \in {"Created", "Waiting", "Completed", "Free"} => status[j] = status'[j]
      /\ \A j \in Indices : (status[j] = "Created")' = (status[j] = "Created")
      /\ \A j \in Indices : (status[j] = "Free")' = (status[j] = "Free")
  BY <1>3, <1>6
<1>10. \A g \in Handles : IsOccupiedBy(g) /\ g.index = i => g = d
  BY <1>2, HandleEqual DEF IsOccupiedBy
<1>11. LocksHeldByLaunches'
  BY <1>2, <1>5, <1>6, <1>9, OwnersAreThreads DEF LocksHeldByLaunches
<1>12. LaunchHandleIsNext' /\ LatchesMatch'
  BY <1>2, <1>5, <1>6, OwnersAreThreads DEF LaunchHandleIsNext, LatchesMatch
<1>13. TodoIsLive'
  <2> SUFFICES ASSUME NEW u \in Threads, pc'[u] \in {"page", "construct", "attach"}, NEW q \in todo'[u]
               PROVE  IsOccupiedBy(q)' /\ status'[q.index] # "Created"
    BY DEF TodoIsLive
  <2>1. q \in Handles /\ IsOccupiedBy(q) /\ status[q.index] # "Created"
    BY <1>2, <1>5, <1>6 DEF TodoIsLive, TypeOK
  <2> QED BY <1>8, <1>9, <2>1
<1>14. RunsOnce'
  BY <1>2, <1>5, <1>6, <1>8, <1>9 DEF RunsOnce, LocalsTyped, IsOccupiedBy
<1>15. ASSUME NEW u \in Threads, Delivering(u), NEW e \in todo'[u]
       PROVE  /\ e \in Handles /\ IsOccupiedBy(e) /\ status'[e.index] \in {"Created", "Waiting"}
              /\ task[u] \in prerequisites'[e.index]
  <2>1. /\ e \in todo[u] /\ e \in Handles /\ e.index \in Indices /\ IsOccupiedBy(e)
        /\ status[e.index] \in {"Created", "Waiting"} /\ task[u] \in prerequisites[e.index]
    <3>1. e \in todo[u]
      BY <1>5, <1>15
    <3>2. e \in Handles /\ e.index \in Indices
      BY <3>1, HandleParts DEF TypeOK
    <3> QED BY <1>15, <3>1, <3>2 DEF DeliveriesAreOwed
  <2>2. CASE e.index = i
    <3>1. e = d
      BY <1>10, <2>1, <2>2
    <3>2. u # t
      BY <1>5, <1>15, <3>1
    <3>3. task[u] \in left
      BY <1>2, <1>15, <2>1, <2>2, <3>2 DEF DeliveriesAreOwed
    <3> QED BY <1>5, <1>6, <2>1, <2>2, <3>3
  <2>3. CASE e.index # i
    BY <1>5, <1>6, <2>1, <2>3
  <2> QED BY <2>2, <2>3
<1>16. DeliveriesAreOwed'
  <2>1. ASSUME NEW u \in Threads, pc'[u] = "enqueue", ready'[u] = task'[u]
        PROVE  todo'[u] = {}
    BY <1>4, <1>5, <1>6, <2>1 DEF DeliveriesAreOwed
  <2>2. \A u \in Threads : Delivering(u) => Past(task[u])'
    <3>1. \A g \in Handles : Past(g) => Past(g)'
      BY <1>5, <1>9, HandleParts DEF Past
    <3> QED BY <1>5, <3>1 DEF DeliveriesAreOwed, Delivering, LocalsTyped, Past
  <2> QED BY <1>5, <1>7, <1>8, <1>15, <2>1, <2>2 DEF DeliveriesAreOwed
<1>17. DependantsCount'
  <2> SUFFICES ASSUME NEW q \in Handles, IsOccupiedBy(q), status'[q.index] # "Completed",
                      NEW e \in dependants[q.index]
               PROVE  /\ IsOccupiedBy(e)' /\ status'[e.index] \in {"Created", "Waiting"}
                      /\ q \in prerequisites'[e.index]
    BY <1>5, <1>8 DEF DependantsCount
  <2>1. /\ e \in Handles /\ e.index \in Indices /\ IsOccupiedBy(e) /\ status[q.index] # "Completed"
        /\ status[e.index] \in {"Created", "Waiting"} /\ q \in prerequisites[e.index]
    BY <1>8, <1>9 DEF DependantsCount, TypeOK
  <2>2. q # p
    BY <1>2, <2>1, HandleParts DEF Past, IsOccupiedBy
  <2>3. status'[e.index] \in {"Created", "Waiting"} /\ q \in prerequisites'[e.index]
    BY <1>5, <1>6, <2>1, <2>2
  <2> QED BY <1>8, <2>1, <2>3
<1>18. EntriesWereReady'
  <2> SUFFICES ASSUME NEW g \in Handles,
                      queued[g] > 0 \/ (\E u \in Threads : pc'[u] = "enqueue" /\ ready'[u] = g)
               PROVE  \/ generation[g.index] > g.generation
                      \/ IsOccupiedBy(g)' /\ status'[g.index] \in {"Ready", "Running", "Completed"}
    BY <1>5 DEF EntriesWereReady
  <2>1. CASE g = d /\ left = {}
    BY <1>2, <1>6, <1>8, <2>1
  <2>2. CASE queued[g] > 0 \/ (\E u \in Threads : pc[u] = "enqueue" /\ ready[u] = g)
    <3>1. \/ generation[g.index] > g.generation
          \/ IsOccupiedBy(g) /\ status[g.index] \in {"Ready", "Running", "Completed"}
      BY <2>2 DEF EntriesWereReady
    <3> QED BY <1>8, <1>9, <3>1
  <2> QED BY <1>6, <2>1, <2>2
<1>19. EdgesMatch'
  <2> SUFFICES ASSUME NEW e \in Handles, IsOccupiedBy(e), status'[e.index] \in {"Created", "Waiting"}
               PROVE  /\ status'[e.index] = "Waiting" => prerequisites'[e.index] # {}
                      /\ \A q \in prerequisites'[e.index] :
                           \/ /\ IsOccupiedBy(q)'
                              /\ status'[q.index] \in {"Waiting", "Ready", "Running"}
                              /\ e \in dependants[q.index]
                           \/ \E u \in Threads : Delivering(u) /\ task[u] = q /\ e \in todo'[u]
    BY <1>5, <1>7, <1>8 DEF EdgesMatch
  <2>1. e.index \in Indices /\ status[e.index] = status'[e.index]
    BY <1>8, <1>9
  <2>2. status'[e.index] = "Waiting" => prerequisites'[e.index] # {}
    BY <1>5, <1>6, <2>1 DEF EdgesMatch
  <2>3. ASSUME NEW q \in prerequisites'[e.index]
        PROVE  \/ /\ IsOccupiedBy(q)'
                  /\ status'[q.index] \in {"Waiting", "Ready", "Running"}
                  /\ e \in dependants[q.index]
               \/ \E u \in Threads : Delivering(u) /\ task[u] = q /\ e \in todo'[u]
    <3>1. q \in prerequisites[e.index] /\ (e.index = i => q # p)
      BY <1>5, <2>1
    <3>2. q \in Handles /\ q.index \in Indices
      BY <2>1, <3>1, HandleParts DEF TypeOK
    <3>3. CASE /\ IsOccupiedBy(q) /\ status[q.index] \in {"Waiting", "Ready", "Running"}
               /\ e \in dependants[q.index]
      BY <1>8, <1>9, <3>2, <3>3
    <3>4. ASSUME NEW u \in Threads, Delivering(u), task[u] = q, e \in todo[u]
          PROVE  e \in todo'[u]
      BY <1>5, <3>1, <3>4
    <3> QED BY <2>1, <3>1, <3>3, <3>4 DEF EdgesMatch
  <2> QED BY <2>2, <2>3
<1>20. WaiterIsOwed'
  <2> SUFFICES ASSUME NEW u \in Threads, pc[u] = "blocked"
               PROVE  /\ IsOccupiedBy(task[u])' /\ status'[task[u].index] \in {"Waiting", "Ready", "Running"}
                      /\ latch[task[u].index] = u
    BY <1>2, <1>5, <1>6 DEF WaiterIsOwed
  <2>1. task[u] \in Handles /\ task[u].index \in Indices
    BY HandleParts DEF LocalsTyped
  <2> QED BY <1>5, <1>9, <2>1 DEF WaiterIsOwed, IsOccupiedBy
<1>21. IndexInOnePlace'
  BY <1>2, <1>5, <1>6, <1>9, SameIndices
<1> QED BY <1>11, <1>12, <1>13, <1>14, <1>16, <1>17, <1>12, <1>18, <1>19, <1>20, <1>21

\* Everybody has been told.
LEMMA DeliveredKeeps ==
  ASSUME Inv, NEW t \in Threads, Delivered(t)
  PROVE  SharedInv'
  BY ReturnKeeps DEF Delivered

\* A waiter attaches its latch to a task that has still to complete.
LEMMA AttachWaiterKeeps ==
  ASSUME Inv, NEW t \in Threads, AttachWaiter(t)
  PROVE  SharedInv'
<1> USE DEF Inv, SharedInv, TypeInv
<1>1. PICK h \in Handles :
        /\ Known(h) /\ status[h.index] # "Completed"
        /\ latch[h.index] = NoThread
        /\ latch' = [latch EXCEPT ![h.index] = t]
        /\ task' = [task EXCEPT ![t] = h]
  BY DEF AttachWaiter
<1> DEFINE i == h.index
<1>2. /\ i \in Indices /\ IsOccupiedBy(h) /\ status[i] \in {"Waiting", "Ready", "Running"}
  BY <1>1, HandleParts DEF Known, IsOccupiedBy, TypeOK, Statuses
<1>3. /\ pc[t] = "idle" /\ pc'[t] = "blocked" /\ task'[t] = h /\ latch'[i] = t
      /\ \A u \in Threads \ {t} : pc'[u] = pc[u] /\ task'[u] = task[u]
      /\ \A j \in Indices \ {i} : latch'[j] = latch[j]
      /\ UNCHANGED <<generation, status, prerequisites, dependants, owner, freeIndices, nextUnused,
                     queued, todo, ready>>
  BY <1>1, <1>2 DEF AttachWaiter, TypeOK, indexVars
<1>4. /\ \A u \in Threads : pc[u] # "idle" => u # t
      /\ \A u \in Threads : Delivering(u)' <=> Delivering(u)
      /\ \A u \in Threads : Delivering(u) => u # t
  BY <1>3 DEF Delivering
<1>5. LocksHeldByLaunches' /\ LaunchHandleIsNext'
  BY <1>3, <1>4, OwnersAreThreads DEF LocksHeldByLaunches, LaunchHandleIsNext
<1>6. LatchesMatch'
  BY <1>2, <1>3, <1>4, OwnersAreThreads DEF LatchesMatch
<1>7. TodoIsLive' /\ RunsOnce' /\ DependantsCount' /\ EntriesWereReady'
  BY <1>3, <1>4 DEF TodoIsLive, RunsOnce, DependantsCount, EntriesWereReady, IsOccupiedBy
<1>8. DeliveriesAreOwed'
  BY <1>3, <1>4 DEF DeliveriesAreOwed, Past, IsOccupiedBy
<1>9. EdgesMatch'
  BY <1>3, <1>4, SameEdges
<1>10. WaiterIsOwed'
  <2>1. \A u \in Threads \ {t} : pc[u] = "blocked" =>
          task[u] \in Handles /\ task[u].index \in Indices \ {i}
    BY <1>1, HandleParts, TaskGraphAssumption DEF WaiterIsOwed, LocalsTyped
  <2> QED BY <1>2, <1>3, <2>1 DEF WaiterIsOwed, IsOccupiedBy
<1>11. IndexInOnePlace'
  BY <1>3, <1>4, SameIndices
<1> QED BY <1>5, <1>6, <1>7, <1>8, <1>9, <1>10, <1>11

\* A completed task is destroyed: nobody waits for it, runs it or counts it.
LEMMA ReleaseKeeps ==
  ASSUME Inv, NEW t \in Threads, Release(t)
  PROVE  SharedInv'
<1> USE DEF Inv, SharedInv, TypeInv
<1>1. PICK h \in Handles :
        /\ Known(h) /\ status[h.index] = "Completed" /\ Unlocked(h.index)
        /\ \A u \in Clients : pc[u] \in {"page", "construct", "attach"} => h \notin todo[u]
        /\ status' = [status EXCEPT ![h.index] = "Free"]
        /\ generation' = [generation EXCEPT ![h.index] = @ + 1]
        /\ dependants' = [dependants EXCEPT ![h.index] = {}]
        /\ task' = [task EXCEPT ![t] = h]
  BY DEF Release
<1> DEFINE i == h.index
<1>2. i \in Indices /\ IsOccupiedBy(h) /\ status[i] = "Completed" /\ generation[i] = h.generation
  BY <1>1, HandleParts DEF Known, IsOccupiedBy
<1>3. /\ pc[t] = "idle" /\ pc'[t] = "freeIndex" /\ task'[t] = h
      /\ status'[i] = "Free" /\ generation'[i] = generation[i] + 1 /\ dependants'[i] = {}
      /\ \A u \in Threads \ {t} : pc'[u] = pc[u] /\ task'[u] = task[u]
      /\ \A j \in Indices \ {i} :
           status'[j] = status[j] /\ generation'[j] = generation[j] /\ dependants'[j] = dependants[j]
      /\ UNCHANGED <<prerequisites, latch, owner, freeIndices, nextUnused, queued, todo, ready>>
  BY <1>1, <1>2 DEF Release, TypeOK, indexVars
<1>4. /\ \A u \in Threads : pc[u] # "idle" => u # t
      /\ \A u \in Threads : Delivering(u)' <=> Delivering(u)
      /\ \A u \in Threads : Delivering(u) => u # t
  BY <1>3 DEF Delivering
<1>5. /\ \A g \in Handles : g.index \in Indices
      /\ \A g \in Handles : IsOccupiedBy(g) /\ g # h => g.index # i /\ IsOccupiedBy(g)'
      /\ \A g \in Handles : IsOccupiedBy(g)' => g.index # i /\ IsOccupiedBy(g)
      /\ \A g \in Handles : Past(g) => Past(g)'
  <2>1. \A g \in Handles : IsOccupiedBy(g) /\ g.index = i => g = h
    BY <1>2, HandleEqual DEF IsOccupiedBy
  <2> QED BY <1>2, <1>3, <2>1, HandleParts DEF IsOccupiedBy, Past, TypeOK
<1>6. LocksHeldByLaunches'
  <2>1. \A u \in Threads : pc[u] = "attach" => task[u] \in Handles /\ task[u].index \in Indices \ {i}
    BY <1>2, HandleParts, TaskGraphAssumption DEF LocksHeldByLaunches, LocalsTyped
  <2> QED BY <1>2, <1>3, <1>4, <2>1, OwnersAreThreads DEF LocksHeldByLaunches
<1>7. LaunchHandleIsNext'
  <2>1. \A u \in Threads : pc[u] \in {"page", "construct"} =>
          task[u] \in Handles /\ task[u].index \in Indices \ {i}
    BY <1>2, HandleParts DEF IndexInOnePlace, Holding, LocalsTyped
  <2> QED BY <1>3, <1>4, <2>1 DEF LaunchHandleIsNext
<1>8. TodoIsLive'
  <2> SUFFICES ASSUME NEW u \in Threads, pc'[u] \in {"page", "construct", "attach"}, NEW q \in todo'[u]
               PROVE  IsOccupiedBy(q)' /\ status'[q.index] # "Created"
    BY DEF TodoIsLive
  <2>1. u \in Threads \ {t} /\ u \in Clients /\ pc[u] = pc'[u] /\ q \in todo[u]
    BY <1>3 DEF LocalsTyped
  <2>2. q \in Handles /\ IsOccupiedBy(q) /\ status[q.index] # "Created" /\ q # h
    BY <1>1, <2>1 DEF TodoIsLive, TypeOK
  <2> QED BY <1>3, <1>5, <2>2
<1>9. RunsOnce'
  <2>1. \A u \in Threads : pc[u] = "run" => task[u] \in Handles /\ task[u].index \in Indices \ {i}
    BY <1>2, HandleParts DEF RunsOnce, LocalsTyped
  <2> QED BY <1>3, <1>4, <2>1 DEF RunsOnce, IsOccupiedBy
<1>10. DeliveriesAreOwed'
  <2>1. \A u \in Threads : Delivering(u) => Past(task[u])'
    BY <1>3, <1>4, <1>5 DEF DeliveriesAreOwed, Delivering, LocalsTyped, Past
  <2>2. ASSUME NEW u \in Threads, Delivering(u), NEW d \in todo[u]
        PROVE  /\ IsOccupiedBy(d)' /\ status'[d.index] \in {"Created", "Waiting"}
               /\ task[u] \in prerequisites[d.index]
    <3>1. /\ d \in Handles /\ IsOccupiedBy(d) /\ status[d.index] \in {"Created", "Waiting"}
          /\ task[u] \in prerequisites[d.index]
      BY <2>2 DEF DeliveriesAreOwed, TypeOK
    <3> QED BY <1>2, <1>3, <1>5, <3>1
  <2> QED BY <1>3, <1>4, <2>1, <2>2 DEF DeliveriesAreOwed
<1>11. DependantsCount'
  <2> SUFFICES ASSUME NEW q \in Handles, IsOccupiedBy(q)', status'[q.index] # "Completed",
                      NEW d \in dependants'[q.index]
               PROVE  /\ IsOccupiedBy(d)' /\ status'[d.index] \in {"Created", "Waiting"}
                      /\ q \in prerequisites[d.index]
    BY <1>3 DEF DependantsCount
  <2>1. q.index \in Indices \ {i} /\ IsOccupiedBy(q) /\ d \in dependants[q.index] /\ status[q.index] # "Completed"
    BY <1>3, <1>5
  <2>2. /\ d \in Handles /\ IsOccupiedBy(d) /\ status[d.index] \in {"Created", "Waiting"}
        /\ q \in prerequisites[d.index]
    BY <2>1 DEF DependantsCount, TypeOK
  <2> QED BY <1>2, <1>3, <1>5, <2>2
<1>12. LatchesMatch'
  BY <1>3, <1>4, OwnersAreThreads DEF LatchesMatch
<1>13. EntriesWereReady'
  <2> SUFFICES ASSUME NEW g \in Handles,
                      queued[g] > 0 \/ (\E u \in Threads : pc[u] = "enqueue" /\ ready[u] = g)
               PROVE  \/ generation'[g.index] > g.generation
                      \/ IsOccupiedBy(g)' /\ status'[g.index] \in {"Ready", "Running", "Completed"}
    BY <1>3 DEF EntriesWereReady
  <2>1. \/ generation[g.index] > g.generation
        \/ IsOccupiedBy(g) /\ status[g.index] \in {"Ready", "Running", "Completed"}
    BY DEF EntriesWereReady
  <2>2. generation[g.index] \in Int /\ g.generation \in Int /\ generation'[g.index] >= generation[g.index]
    <3>1. g.index \in Indices /\ g.generation \in Int
      BY HandleParts
    <3>2. generation[g.index] \in Int
      BY <3>1, TaskGraphAssumption DEF TypeOK
    <3>3. generation'[g.index] = generation[g.index] + 1 \/ generation'[g.index] = generation[g.index]
      BY <1>3, <3>1
    <3> QED BY <3>1, <3>2, <3>3
  <2>3. CASE g = h
    BY <1>2, <1>3, <2>2, <2>3
  <2>4. CASE g # h
    BY <1>3, <1>5, <2>1, <2>2, <2>4
  <2> QED BY <2>3, <2>4
<1>14. EdgesMatch'
  <2> SUFFICES ASSUME NEW d \in Handles, IsOccupiedBy(d)', status'[d.index] \in {"Created", "Waiting"}
               PROVE  /\ status'[d.index] = "Waiting" => prerequisites[d.index] # {}
                      /\ \A q \in prerequisites[d.index] :
                           \/ /\ IsOccupiedBy(q)'
                              /\ status'[q.index] \in {"Waiting", "Ready", "Running"}
                              /\ d \in dependants'[q.index]
                           \/ \E u \in Threads : Delivering(u)' /\ task'[u] = q /\ d \in todo'[u]
    BY <1>3 DEF EdgesMatch
  <2>1. d.index \in Indices \ {i} /\ IsOccupiedBy(d) /\ status[d.index] = status'[d.index]
    BY <1>3, <1>5
  <2>2. ASSUME NEW q \in prerequisites[d.index],
               IsOccupiedBy(q), status[q.index] \in {"Waiting", "Ready", "Running"}, d \in dependants[q.index]
        PROVE  /\ IsOccupiedBy(q)'
               /\ status'[q.index] \in {"Waiting", "Ready", "Running"}
               /\ d \in dependants'[q.index]
    <3>1. q \in Handles /\ q.index \in Indices \ {i} /\ q # h
      BY <1>2, <2>1, <2>2, HandleParts DEF TypeOK
    <3> QED BY <1>3, <1>5, <2>2, <3>1
  <2>3. ASSUME NEW q, NEW u \in Threads, Delivering(u), task[u] = q, d \in todo[u]
        PROVE  Delivering(u)' /\ task'[u] = q /\ d \in todo'[u]
    BY <1>3, <1>4, <2>3
  <2> QED BY <2>1, <2>2, <2>3 DEF EdgesMatch
<1>15. WaiterIsOwed'
  <2>1. \A u \in Threads \ {t} : pc[u] = "blocked" =>
          task[u] \in Handles /\ task[u].index \in Indices \ {i}
    BY <1>2, HandleParts DEF WaiterIsOwed, LocalsTyped
  <2> QED BY <1>3, <2>1 DEF WaiterIsOwed, IsOccupiedBy
<1>16. IndexInOnePlace'
  <2>1. \A j \in Indices : Listed(j)' <=> Listed(j)
    BY <1>3 DEF Listed
  <2>2. ~ Listed(i) /\ Holding(i) = {} /\ i < nextUnused
    BY <1>2 DEF IndexInOnePlace
  <2>3. Holding(i)' = {t} /\ \A j \in Indices \ {i} : Holding(j)' = Holding(j)
    BY <1>3, <2>2 DEF Holding
  <2>4. ASSUME NEW j \in Indices
        PROVE  /\ \A u, v \in Holding(j)' : u = v
               /\ Listed(j)' => Holding(j)' = {}
               /\ Listed(j)' \/ Holding(j)' # {} => status'[j] = "Free"
               /\ j < nextUnused <=> Listed(j)' \/ Holding(j)' # {} \/ status'[j] # "Free"
    BY <1>3, <2>1, <2>2, <2>3 DEF IndexInOnePlace
  <2> QED BY <1>3, <2>4 DEF IndexInOnePlace
<1> QED BY <1>6, <1>7, <1>8, <1>9, <1>10, <1>11, <1>12, <1>13, <1>14, <1>15, <1>16

\* The index of a task that is gone enters the free list.
LEMMA FreeIndexKeeps ==
  ASSUME Inv, NEW t \in Threads, FreeIndex(t)
  PROVE  SharedInv'
<1> USE DEF Inv, SharedInv, TypeInv
<1>1. PICK i \in Indices : i = task[t].index /\ pc[t] = "freeIndex"
  BY HandleParts DEF FreeIndex, LocalsTyped
<1>2. /\ pc'[t] = "idle" /\ todo'[t] = {}
      /\ \A u \in Threads \ {t} :
           pc'[u] = pc[u] /\ todo'[u] = todo[u] /\ task'[u] = task[u] /\ ready'[u] = ready[u]
      /\ UNCHANGED <<generation, status, prerequisites, dependants, latch, owner, nextUnused, queued>>
  BY DEF FreeIndex, Return, TypeOK, slotVars
<1>3. \A u \in Threads : (Delivering(u)' <=> Delivering(u)) /\ (Delivering(u) => u # t)
  BY <1>1, <1>2 DEF Delivering
<1>4. LocksHeldByLaunches' /\ LaunchHandleIsNext' /\ LatchesMatch'
  BY <1>1, <1>2, OwnersAreThreads DEF LocksHeldByLaunches, LaunchHandleIsNext, LatchesMatch
<1>5. TodoIsLive' /\ RunsOnce' /\ DependantsCount' /\ WaiterIsOwed'
  BY <1>1, <1>2 DEF TodoIsLive, RunsOnce, DependantsCount, WaiterIsOwed, IsOccupiedBy
<1>6. DeliveriesAreOwed' /\ EntriesWereReady'
  BY <1>1, <1>2, <1>3 DEF DeliveriesAreOwed, EntriesWereReady, Past, IsOccupiedBy
<1>7. EdgesMatch'
  BY <1>2, <1>3, SameEdges
<1>8. IndexInOnePlace'
  <2>1. /\ freeIndices' = Append(freeIndices, i) /\ Len(freeIndices') = Len(freeIndices) + 1
        /\ freeIndices'[Len(freeIndices) + 1] = i /\ Len(freeIndices) \in Nat
        /\ \A n \in 1 .. Len(freeIndices) : freeIndices'[n] = freeIndices[n]
    BY <1>1, AppendProperties, LenProperties DEF FreeIndex, TypeOK
  <2>2. t \in Holding(i) /\ ~ Listed(i) /\ status[i] = "Free" /\ i < nextUnused
    BY <1>1 DEF Holding, IndexInOnePlace
  <2>3. Listed(i)' /\ \A j \in Indices \ {i} : Listed(j)' <=> Listed(j)
    <3>1. 1 .. Len(freeIndices') = (1 .. Len(freeIndices)) \cup {Len(freeIndices) + 1}
      BY <2>1
    <3> QED BY <2>1, <3>1 DEF Listed
  <2>4. \A m, n \in 1 .. Len(freeIndices') : freeIndices'[m] = freeIndices'[n] => m = n
    <3>1. \A n \in 1 .. Len(freeIndices) : freeIndices[n] # i
      BY <2>2 DEF Listed
    <3> QED BY <2>1, <3>1 DEF IndexInOnePlace
  <2>5. Holding(i)' = {} /\ \A j \in Indices \ {i} : Holding(j)' = Holding(j)
    <3>1. \A u \in Threads : pc'[u] \in {"page", "construct", "freeIndex"} =>
            u # t /\ pc[u] = pc'[u] /\ task'[u] = task[u]
      BY <1>1, <1>2
    <3>2. \A u \in Holding(i) : u = t
      BY <1>1, <2>2 DEF IndexInOnePlace
    <3>3. Holding(i)' = {}
      BY <3>1, <3>2 DEF Holding
    <3>4. ASSUME NEW j \in Indices \ {i} PROVE Holding(j)' = Holding(j)
      BY <1>1, <1>2, <3>1 DEF Holding
    <3> QED BY <3>3, <3>4
  <2>6. ASSUME NEW j \in Indices
        PROVE  /\ \A u, v \in Holding(j)' : u = v
               /\ Listed(j)' => Holding(j)' = {}
               /\ Listed(j)' \/ Holding(j)' # {} => status[j] = "Free"
               /\ j < nextUnused <=> Listed(j)' \/ Holding(j)' # {} \/ status[j] # "Free"
    <3>1. CASE j = i
      BY <2>2, <2>3, <2>5, <3>1
    <3>2. CASE j # i
      BY <2>3, <2>5, <3>2 DEF IndexInOnePlace
    <3> QED BY <3>1, <3>2
  <2> QED BY <1>2, <2>4, <2>6 DEF IndexInOnePlace
<1> QED BY <1>4, <1>5, <1>6, <1>7, <1>8

-----------------------------------------------------------------------------
(* The theorems.                                                           *)

\* No slot, no launch, no delivery: everything holds.
LEMMA InitInv == Init => Inv
<1> SUFFICES ASSUME Init PROVE Inv
  OBVIOUS
<1>1. TypeInv
  BY InitTypeInv
<1>2. \A u \in Threads : pc[u] = "idle" /\ ~ Delivering(u)
  BY DEF Init, Delivering
<1>3. \A i \in Indices : status[i] = "Free" /\ owner[i] = NoThread /\ latch[i] = NoThread
  BY DEF Init
<1>4. \A h \in Handles : h.index \in Indices /\ ~ IsOccupiedBy(h) /\ queued[h] = 0
  BY <1>3, HandleParts DEF Init, IsOccupiedBy
<1>5. LocksHeldByLaunches /\ LaunchHandleIsNext /\ TodoIsLive /\ RunsOnce /\ LatchesMatch /\ WaiterIsOwed
  BY <1>2, <1>3 DEF LocksHeldByLaunches, LaunchHandleIsNext, TodoIsLive, RunsOnce, LatchesMatch, WaiterIsOwed
<1>6. DeliveriesAreOwed /\ DependantsCount /\ EntriesWereReady /\ EdgesMatch
  BY <1>2, <1>4 DEF DeliveriesAreOwed, DependantsCount, EntriesWereReady, EdgesMatch
<1>7. IndexInOnePlace
  <2>1. \A i \in Indices : ~ Listed(i) /\ Holding(i) = {} /\ ~ i < nextUnused
    BY <1>2, TaskGraphAssumption DEF Init, Listed, Holding, Indices
  <2>2. \A m, n \in 1 .. Len(freeIndices) : freeIndices[m] = freeIndices[n] => m = n
    BY DEF Init
  <2> QED BY <1>3, <2>1, <2>2 DEF IndexInOnePlace
<1> QED BY <1>1, <1>5, <1>6, <1>7 DEF Inv, SharedInv

\* Every step of every thread keeps the invariant.
LEMMA NextInv == Inv /\ [Next]_vars => Inv'
<1> SUFFICES ASSUME Inv, [Next]_vars PROVE Inv'
  OBVIOUS
<1>1. TypeInv'
  BY NextTypeInv DEF Inv
<1>2. CASE UNCHANGED vars
  BY <1>1, <1>2 DEF Inv, SharedInv, vars, slotVars, indexVars, threadVars, LocksHeldByLaunches,
     LaunchHandleIsNext, TodoIsLive, RunsOnce, DeliveriesAreOwed, DependantsCount, LatchesMatch,
     EntriesWereReady, EdgesMatch, WaiterIsOwed, IndexInOnePlace, IsOccupiedBy, Past, Delivering,
     Listed, Holding
<1>3. ASSUME NEW t \in Threads, Begin(t) PROVE SharedInv'
  BY <1>3, LaunchAllocateKeeps, TakeKeeps, AttachWaiterKeeps, ReleaseKeeps DEF Begin
<1>4. ASSUME NEW t \in Threads, Continue(t) PROVE SharedInv'
  BY <1>4, EnsurePageKeeps, EnsurePageFailsKeeps, ConstructKeeps, AddPrerequisiteKeeps, PublishKeeps,
     EnqueueKeeps, TryClaimKeeps, CompleteKeeps, RemovePrerequisiteKeeps, DeliveredKeeps,
     FreeIndexKeeps DEF Continue
<1> QED BY <1>1, <1>2, <1>3, <1>4 DEF Next, Inv

\* The shared state and the locals of every call keep their types, for any
\* number of clients, workers, slots and launches.
THEOREM TaskGraphTypeOK == Spec => []TypeOK
<1>1. TypeInv => TypeOK
  BY DEF TypeInv
<1> QED BY InitTypeInv, NextTypeInv, <1>1, PTL DEF Spec

\* The inductive invariant holds of every behaviour of the task graph.
THEOREM GraphInvariantHolds == Spec => []GraphInvariant
<1>1. Inv => GraphInvariant
  BY DEF Inv, SharedInv, TypeInv, GraphInvariant
<1> QED BY InitInv, NextInv, <1>1, PTL DEF Spec

\* No edge is lost: whatever order launches and completions come in, each
\* prerequisite a waiting task counts is going to reach it.
THEOREM NoEdgeIsLost == Spec => []EdgesMatch
<1>1. Inv => EdgesMatch
  BY DEF Inv, SharedInv
<1> QED BY InitInv, NextInv, <1>1, PTL DEF Spec

\* The assertions of removePrerequisiteAndMarkReadyIfUnblocked never fail.
THEOREM DeliveryAssertionsHold == Spec => []DeliveryFindsWaitingDependant
<1>1. Inv => DeliveryFindsWaitingDependant
  <2> SUFFICES ASSUME Inv, NEW u \in Threads, Delivering(u), NEW d \in todo[u], Unlocked(d.index)
               PROVE  /\ IsOccupiedBy(d)
                      /\ status[d.index] = "Waiting"
                      /\ task[u] \in prerequisites[d.index]
    BY DEF DeliveryFindsWaitingDependant
  <2>1. d.index \in Indices
    BY HandleParts DEF Inv, TypeInv, TypeOK
  <2> QED BY <2>1 DEF Inv, SharedInv, DeliveriesAreOwed, LocksHeldByLaunches, Unlocked
<1> QED BY InitInv, NextInv, <1>1, PTL DEF Spec

\* A task index is never handed out twice and never leaks.
THEOREM IndicesAreConserved == Spec => []IndexInOnePlace
<1>1. Inv => IndexInOnePlace
  BY DEF Inv, SharedInv
<1> QED BY InitInv, NextInv, <1>1, PTL DEF Spec

\* A thread blocked in wait() is owed its wake-up.
THEOREM NoWaiterIsForgotten == Spec => []WaiterIsOwed
<1>1. Inv => WaiterIsOwed
  BY DEF Inv, SharedInv
<1> QED BY InitInv, NextInv, <1>1, PTL DEF Spec

\* Slot mutexes are never waited for in a cycle, though a launch holds one
\* while it takes others.
THEOREM LaunchesDoNotDeadlock == Spec => []LaunchNeverWaitsForLaunch
<1>1. Inv => LaunchNeverWaitsForLaunch
  <2> SUFFICES ASSUME Inv, NEW t \in Threads, pc[t] = "attach"
               PROVE  owner[task[t].index] = t /\ \A p \in todo[t] : Unlocked(p.index)
    BY DEF LaunchNeverWaitsForLaunch
  <2>1. \A p \in todo[t] : p.index \in Indices
    BY HandleParts DEF Inv, TypeInv, TypeOK
  <2> QED BY <2>1 DEF Inv, SharedInv, LocksHeldByLaunches, TodoIsLive, Unlocked
<1> QED BY InitInv, NextInv, <1>1, PTL DEF Spec

-----------------------------------------------------------------------------
(* The ready queue: a task that is made ready gets one entry and never a   *)
(* second one, and an entry is not lost before somebody has claimed the    *)
(* task.  A task becomes ready only once, so when it does there is no      *)
(* entry of it yet.                                                        *)

Coming(u, h) == pc[u] = "enqueue" /\ ready[u] = h
Claiming(u, h) == pc[u] = "claim" /\ task[u] = h
IsReady(h) == IsOccupiedBy(h) /\ status[h.index] = "Ready"

\* The entries of each handle, in the queue and on their way there.
EntriesOnce ==
  \A h \in Handles :
    /\ queued[h] \in {0, 1}
    /\ \A u \in Threads : Coming(u, h) => queued[h] = 0 /\ \A v \in Threads : Coming(v, h) => v = u
    /\ IsReady(h) => queued[h] = 1 \/ \E u \in Threads : Coming(u, h) \/ Claiming(u, h)

\* A step that makes no task ready and leaves the entries alone.
LEMMA SameEntries ==
  ASSUME EntriesOnce, UNCHANGED queued,
         \A h \in Handles : IsReady(h)' => IsReady(h),
         \A u \in Threads, h \in Handles : Coming(u, h)' <=> Coming(u, h),
         \A u \in Threads, h \in Handles : Claiming(u, h) => Claiming(u, h)'
  PROVE  EntriesOnce'
  BY DEF EntriesOnce

\* A handle that is not ready, and never was, has no entry.
LEMMA NoEntryBefore ==
  ASSUME Inv, NEW h \in Handles, IsOccupiedBy(h), status[h.index] \in {"Created", "Waiting"}
  PROVE  queued[h] = 0 /\ \A u \in Threads : ~ Coming(u, h)
<1>1. h.index \in Indices /\ generation[h.index] = h.generation /\ h.generation \in Int
  BY HandleParts DEF IsOccupiedBy
<1>2. ~ (queued[h] > 0 \/ \E u \in Threads : pc[u] = "enqueue" /\ ready[u] = h)
  BY <1>1 DEF Inv, SharedInv, EntriesWereReady
<1>3. queued[h] \in Nat
  BY DEF Inv, TypeInv, TypeOK
<1> QED BY <1>2, <1>3 DEF Coming

\* A step of t that makes task h ready and goes on to enqueue it.
LEMMA BecomesReady ==
  ASSUME Inv, EntriesOnce, NEW t \in Threads, NEW h \in Handles,
         IsOccupiedBy(h), status[h.index] \in {"Created", "Waiting"},
         UNCHANGED <<queued, generation>>,
         pc[t] \notin {"enqueue", "claim"},
         Coming(t, h)',
         \A u \in Threads \ {t} : pc'[u] = pc[u] /\ ready'[u] = ready[u] /\ task'[u] = task[u],
         \A i \in Indices \ {h.index} : status'[i] = status[i]
  PROVE  EntriesOnce'
<1>1. queued[h] = 0 /\ \A u \in Threads : ~ Coming(u, h)
  BY NoEntryBefore
<1>2. \A u \in Threads \ {t}, g \in Handles : (Coming(u, g)' <=> Coming(u, g)) /\ (Claiming(u, g)' <=> Claiming(u, g))
  BY DEF Coming, Claiming
<1>3. \A g \in Handles : ~ Coming(t, g) /\ ~ Claiming(t, g) /\ (Coming(t, g)' => g = h)
  BY DEF Coming, Claiming
<1>4. \A g \in Handles \ {h} : IsReady(g)' => IsReady(g)
  <2> SUFFICES ASSUME NEW g \in Handles \ {h}, IsReady(g)' PROVE IsReady(g)
    OBVIOUS
  <2>1. g.index # h.index
    <3>1. IsOccupiedBy(g)' /\ generation[h.index] = h.generation
      BY DEF IsReady, IsOccupiedBy
    <3>2. g.index = h.index => g.generation = h.generation
      BY <3>1 DEF IsOccupiedBy
    <3> QED BY <3>2, HandleEqual
  <2> QED BY <2>1, HandleParts DEF IsReady, IsOccupiedBy
<1> QED BY <1>1, <1>2, <1>3, <1>4 DEF EntriesOnce

-----------------------------------------------------------------------------
(* What each step does to the entries.                                     *)

\* A thread whose call returns neither brings an entry nor claims a task.
LEMMA ReturnIdles ==
  ASSUME Inv, NEW t \in Threads, Return(t)
  PROVE  /\ pc'[t] = "idle"
         /\ \A u \in Threads \ {t} : pc'[u] = pc[u] /\ ready'[u] = ready[u] /\ task'[u] = task[u]
  BY DEF Inv, TypeInv, TypeOK, Return

\* A step of t outside enqueue and claim that makes no task ready.
LEMMA BusyElsewhere ==
  ASSUME Inv, EntriesOnce, NEW t \in Threads, pc[t] \notin {"enqueue", "claim"}, pc'[t] # "enqueue",
         UNCHANGED queued,
         \A u \in Threads \ {t} : pc'[u] = pc[u] /\ ready'[u] = ready[u] /\ task'[u] = task[u],
         \A h \in Handles : IsReady(h)' => IsReady(h)
  PROVE  EntriesOnce'
<1>1. \A u \in Threads, h \in Handles : Coming(u, h)' <=> Coming(u, h)
  BY DEF Coming
<1>2. \A u \in Threads, h \in Handles : Claiming(u, h) => Claiming(u, h)'
  BY DEF Claiming
<1> QED BY <1>1, <1>2, SameEntries

\* Launching a task: only publishing it can make it ready, and then its
\* launch goes on to enqueue it.
LEMMA LaunchEntries ==
  ASSUME Inv, EntriesOnce, NEW t \in Threads,
         LaunchAllocate(t) \/ EnsurePage(t) \/ EnsurePageFails(t) \/ Construct(t) \/ AddPrerequisite(t)
  PROVE  EntriesOnce'
<1> USE DEF Inv, TypeInv, TypeOK
<1>1. /\ pc[t] \notin {"enqueue", "claim"}
      /\ pc'[t] # "enqueue"
      /\ UNCHANGED <<queued, generation>>
      /\ \A u \in Threads \ {t} : pc'[u] = pc[u] /\ ready'[u] = ready[u]
  BY DEF LaunchAllocate, EnsurePage, EnsurePageFails, Construct, AddPrerequisite, slotVars
<1>2. \A u \in Threads \ {t} : task'[u] = task[u]
  BY DEF LaunchAllocate, EnsurePage, EnsurePageFails, Construct, AddPrerequisite
<1>3. \A i \in Indices : status'[i] = "Ready" => status[i] = "Ready"
  BY DEF LaunchAllocate, EnsurePage, EnsurePageFails, Construct, AddPrerequisite, slotVars
<1>4. \A h \in Handles : IsReady(h)' => IsReady(h)
  BY <1>1, <1>3, HandleParts DEF IsReady, IsOccupiedBy
<1> QED BY <1>1, <1>2, <1>4, BusyElsewhere

\* A task published with nothing outstanding is brought to the queue.
LEMMA PublishEntries ==
  ASSUME Inv, EntriesOnce, NEW t \in Threads, Publish(t)
  PROVE  EntriesOnce'
<1> DEFINE i == task[t].index
<1> USE DEF Inv, TypeInv, TypeOK
<1>1. /\ pc[t] = "attach" /\ task[t] \in Handles /\ i \in Indices
      /\ generation[i] = task[t].generation /\ status[i] = "Created"
      /\ UNCHANGED <<queued, generation>>
      /\ \A j \in Indices \ {i} : status'[j] = status[j]
  <2>1. pc[t] = "attach" /\ task[t] \in Handles /\ UNCHANGED <<queued, generation>>
    BY DEF Publish, LocalsTyped
  <2>2. i \in Indices /\ \A j \in Indices \ {i} : status'[j] = status[j]
    BY <2>1, HandleParts DEF Publish
  <2>3. generation[i] = task[t].generation /\ owner[i] = t
    BY <2>1 DEF SharedInv, LocksHeldByLaunches
  <2>4. t # NoThread
    BY TaskGraphAssumption
  <2>5. status[i] = "Created"
    BY <2>2, <2>3, <2>4 DEF SharedInv, LocksHeldByLaunches
  <2> QED BY <2>1, <2>2, <2>3, <2>5
<1>2. CASE prerequisites[i] = {}
  <2>1. /\ pc'[t] = "enqueue" /\ ready'[t] = task[t]
        /\ \A u \in Threads \ {t} : pc'[u] = pc[u] /\ ready'[u] = ready[u] /\ task'[u] = task[u]
    BY <1>2 DEF Publish
  <2>2. PICK h \in Handles : h = task[t]
    BY <1>1
  <2>3. Coming(t, h)'
    BY <2>1, <2>2 DEF Coming
  <2>4. IsOccupiedBy(h) /\ status[h.index] \in {"Created", "Waiting"} /\ pc[t] \notin {"enqueue", "claim"}
        /\ \A j \in Indices \ {h.index} : status'[j] = status[j]
    BY <1>1, <2>2 DEF IsOccupiedBy
  <2> QED BY <1>1, <2>1, <2>3, <2>4, BecomesReady
<1>3. CASE prerequisites[i] # {}
  <2>1. Return(t) /\ status'[i] = "Waiting"
    BY <1>1, <1>3 DEF Publish
  <2>2. \A h \in Handles : IsReady(h)' => IsReady(h)
    BY <1>1, <2>1, HandleParts DEF IsReady, IsOccupiedBy
  <2> QED BY <1>1, <2>1, <2>2, ReturnIdles, BusyElsewhere
<1> QED BY <1>2, <1>3

\* The entry that was coming is in the queue.
LEMMA EnqueueEntries ==
  ASSUME Inv, EntriesOnce, NEW t \in Threads, Enqueue(t)
  PROVE  EntriesOnce'
<1> USE DEF Inv, TypeInv, TypeOK
<1>1. PICK h \in Handles : h = ready[t]
  BY DEF Enqueue, LocalsTyped
<1>2. /\ pc[t] = "enqueue" /\ pc'[t] \notin {"enqueue", "claim"}
      /\ queued'[h] = queued[h] + 1
      /\ \A g \in Handles \ {h} : queued'[g] = queued[g]
      /\ UNCHANGED <<status, generation>>
      /\ \A u \in Threads \ {t} : pc'[u] = pc[u] /\ ready'[u] = ready[u] /\ task'[u] = task[u]
  BY <1>1 DEF Enqueue, Return, slotVars
<1>3. Coming(t, h) /\ \A g \in Handles : Coming(t, g) => g = h
  BY <1>1, <1>2 DEF Coming
<1>4. queued'[h] = 1 /\ \A u \in Threads \ {t} : ~ Coming(u, h)
  BY <1>2, <1>3 DEF EntriesOnce
<1>5. \A u \in Threads \ {t}, g \in Handles : (Coming(u, g)' <=> Coming(u, g)) /\ (Claiming(u, g)' <=> Claiming(u, g))
  BY <1>2 DEF Coming, Claiming
<1>6. \A g \in Handles : ~ Coming(t, g)' /\ ~ Claiming(t, g)
  BY <1>2 DEF Coming, Claiming
<1>7. \A g \in Handles : IsReady(g)' <=> IsReady(g)
  BY <1>2 DEF IsReady, IsOccupiedBy
<1>8. ASSUME NEW g \in Handles
      PROVE  /\ queued'[g] \in {0, 1}
             /\ \A u \in Threads : Coming(u, g)' =>
                  queued'[g] = 0 /\ \A v \in Threads : Coming(v, g)' => v = u
             /\ IsReady(g)' => queued'[g] = 1 \/ \E u \in Threads : Coming(u, g)' \/ Claiming(u, g)'
  <2>1. CASE g = h
    BY <1>4, <1>5, <1>6, <2>1
  <2>2. CASE g # h
    <3>1. ~ Coming(t, g) /\ queued'[g] = queued[g]
      BY <1>2, <1>3, <2>2
    <3> QED BY <1>5, <1>6, <1>7, <3>1 DEF EntriesOnce
  <2> QED BY <2>1, <2>2
<1> QED BY <1>8 DEF EntriesOnce

\* The entry taken from the queue is in the hands of the worker.
LEMMA PopEntries ==
  ASSUME Inv, EntriesOnce, NEW t \in Threads, Pop(t)
  PROVE  EntriesOnce'
<1> USE DEF Inv, TypeInv, TypeOK
<1>1. PICK h \in Handles : /\ queued[h] > 0
                           /\ queued' = [queued EXCEPT ![h] = @ - 1]
                           /\ task' = [task EXCEPT ![t] = h]
  BY DEF Pop
<1>2. /\ pc[t] = "idle" /\ pc'[t] = "claim" /\ task'[t] = h
      /\ \A u \in Threads \ {t} : pc'[u] = pc[u] /\ task'[u] = task[u]
      /\ UNCHANGED <<status, generation, ready>>
  BY <1>1 DEF Pop, slotVars
<1>3. queued'[h] = 0 /\ \A g \in Handles \ {h} : queued'[g] = queued[g]
  BY <1>1 DEF EntriesOnce
<1>4. \A u \in Threads, g \in Handles : Coming(u, g)' <=> Coming(u, g)
  BY <1>2 DEF Coming
<1>5. Claiming(t, h)' /\ \A u \in Threads, g \in Handles : Claiming(u, g) => Claiming(u, g)'
  BY <1>2 DEF Claiming
<1>6. \A g \in Handles : IsReady(g)' <=> IsReady(g)
  BY <1>2 DEF IsReady, IsOccupiedBy
<1>7. ASSUME NEW g \in Handles
      PROVE  /\ queued'[g] \in {0, 1}
             /\ \A u \in Threads : Coming(u, g)' =>
                  queued'[g] = 0 /\ \A v \in Threads : Coming(v, g)' => v = u
             /\ IsReady(g)' => queued'[g] = 1 \/ \E u \in Threads : Coming(u, g)' \/ Claiming(u, g)'
  <2>1. CASE g = h
    <3>1. queued[h] = 1
      BY <1>1 DEF EntriesOnce
    <3> QED BY <1>3, <1>4, <1>5, <2>1, <3>1 DEF EntriesOnce
  <2>2. CASE g # h
    BY <1>3, <1>4, <1>5, <1>6, <2>2 DEF EntriesOnce
  <2> QED BY <2>1, <2>2
<1> QED BY <1>7 DEF EntriesOnce

\* The thread that claims a task leaves it running, and one that fails to
\* leaves no ready task behind.
LEMMA TryClaimEntries ==
  ASSUME Inv, EntriesOnce, NEW t \in Threads, TryClaim(t)
  PROVE  EntriesOnce'
<1> USE DEF Inv, TypeInv, TypeOK
<1>1. PICK h \in Handles : h = task[t]
  BY DEF TryClaim, LocalsTyped
<1>2. /\ pc[t] = "claim" /\ pc'[t] \in {"run", "idle"}
      /\ UNCHANGED <<queued, generation>>
      /\ \A u \in Threads \ {t} : pc'[u] = pc[u] /\ ready'[u] = ready[u] /\ task'[u] = task[u]
  BY <1>1 DEF TryClaim, Return
<1>3. /\ ~ IsReady(h)'
      /\ \A j \in Indices : status'[j] = "Ready" => status[j] = "Ready"
  BY <1>1, <1>2, HandleParts DEF TryClaim, IsReady, IsOccupiedBy
<1>4. \A g \in Handles : IsReady(g)' => IsReady(g)
  BY <1>2, <1>3, HandleParts DEF IsReady, IsOccupiedBy
<1>5. \A u \in Threads, g \in Handles : Coming(u, g)' <=> Coming(u, g)
  BY <1>2 DEF Coming
<1>6. \A u \in Threads, g \in Handles \ {h} : Claiming(u, g) => Claiming(u, g)'
  BY <1>1, <1>2 DEF Claiming
<1> QED BY <1>2, <1>3, <1>4, <1>5, <1>6 DEF EntriesOnce

\* The thread that brings the last completion brings the entry as well.
LEMMA RemovePrerequisiteEntries ==
  ASSUME Inv, EntriesOnce, NEW t \in Threads, RemovePrerequisite(t)
  PROVE  EntriesOnce'
<1> USE DEF Inv, TypeInv, TypeOK
<1>1. PICK d \in todo[t] :
        /\ Unlocked(d.index)
        /\ IF prerequisites[d.index] \ {task[t]} = {}
           THEN /\ status' = [status EXCEPT ![d.index] = "Ready"]
                /\ ready' = [ready EXCEPT ![t] = d]
                /\ pc' = [pc EXCEPT ![t] = "enqueue"]
           ELSE UNCHANGED <<status, ready, pc>>
  BY DEF RemovePrerequisite
<1>2. /\ pc[t] = "notify" /\ d \in Handles /\ d.index \in Indices
      /\ UNCHANGED <<queued, generation, task>>
  BY HandleParts DEF RemovePrerequisite
<1>3. CASE prerequisites[d.index] \ {task[t]} = {}
  <2>1. IsOccupiedBy(d) /\ status[d.index] \in {"Created", "Waiting"}
    BY <1>2 DEF SharedInv, DeliveriesAreOwed, Delivering
  <2>2. /\ pc'[t] = "enqueue" /\ ready'[t] = d
        /\ \A u \in Threads \ {t} : pc'[u] = pc[u] /\ ready'[u] = ready[u] /\ task'[u] = task[u]
        /\ \A i \in Indices \ {d.index} : status'[i] = status[i]
    BY <1>1, <1>2, <1>3
  <2>3. Coming(t, d)'
    BY <2>2 DEF Coming
  <2> QED BY <1>2, <2>1, <2>2, <2>3, BecomesReady
<1>4. CASE prerequisites[d.index] \ {task[t]} # {}
  BY <1>1, <1>2, <1>4, SameEntries DEF IsReady, IsOccupiedBy, Coming, Claiming
<1> QED BY <1>3, <1>4

\* Completing a task wakes its waiter; neither had to do with entries.
LEMMA CompleteEntries ==
  ASSUME Inv, EntriesOnce, NEW t \in Threads, Complete(t)
  PROVE  EntriesOnce'
<1> USE DEF Inv, TypeInv, TypeOK
<1>1. /\ pc[t] = "run" /\ task[t] \in Handles /\ task[t].index \in Indices
      /\ UNCHANGED <<queued, generation, ready>>
      /\ \A j \in Indices : status'[j] = "Ready" => status[j] = "Ready"
  BY HandleParts DEF Complete, LocalsTyped
<1>2. \A u \in Threads : u = latch[task[t].index] => pc[u] = "blocked"
  BY <1>1, TaskGraphAssumption DEF SharedInv, LatchesMatch, Threads
<1>3. \A u \in Threads :
        /\ pc[u] \in {"enqueue", "claim"} => pc'[u] = pc[u] /\ task'[u] = task[u]
        /\ pc'[u] \in {"enqueue", "claim"} => pc'[u] = pc[u] /\ task'[u] = task[u]
  BY <1>1, <1>2 DEF Complete
<1>4. \A h \in Handles : IsReady(h)' => IsReady(h)
  BY <1>1, HandleParts DEF IsReady, IsOccupiedBy
<1>5. \A u \in Threads, h \in Handles : (Coming(u, h)' <=> Coming(u, h)) /\ (Claiming(u, h) => Claiming(u, h)')
  BY <1>1, <1>3 DEF Coming, Claiming
<1> QED BY <1>1, <1>4, <1>5, SameEntries

\* The calls that begin and end without touching an entry.
LEMMA OtherEntries ==
  ASSUME Inv, EntriesOnce, NEW t \in Threads,
         Help(t) \/ AttachWaiter(t) \/ Release(t) \/ Delivered(t) \/ FreeIndex(t)
  PROVE  EntriesOnce'
<1> USE DEF Inv, TypeInv, TypeOK
<1>1. /\ pc[t] \notin {"enqueue", "claim"} /\ pc'[t] # "enqueue" /\ UNCHANGED queued
      /\ \A u \in Threads \ {t} : pc'[u] = pc[u] /\ ready'[u] = ready[u]
  BY ReturnIdles DEF Help, AttachWaiter, Release, Delivered, FreeIndex
<1>2. \A u \in Threads \ {t} : task'[u] = task[u]
  BY ReturnIdles DEF Help, AttachWaiter, Release, Delivered, FreeIndex
<1>3. \A h \in Handles : IsReady(h)' => IsReady(h)
  <2>1. CASE Release(t)
    <3>1. PICK g \in Handles : /\ status' = [status EXCEPT ![g.index] = "Free"]
                               /\ generation' = [generation EXCEPT ![g.index] = @ + 1]
      BY <2>1 DEF Release
    <3> QED BY <3>1, HandleParts DEF IsReady, IsOccupiedBy
  <2>2. CASE ~ Release(t)
    <3>1. UNCHANGED <<status, generation>>
      BY <2>2 DEF Help, AttachWaiter, Delivered, FreeIndex, slotVars
    <3> QED BY <3>1 DEF IsReady, IsOccupiedBy
  <2> QED BY <2>1, <2>2
<1> QED BY <1>1, <1>2, <1>3, BusyElsewhere

-----------------------------------------------------------------------------
(* Entries are single in every behaviour.                                  *)

\* Every step keeps the entries single.
LEMMA NextEntries == Inv /\ EntriesOnce /\ [Next]_vars => EntriesOnce'
<1> SUFFICES ASSUME Inv, EntriesOnce, [Next]_vars PROVE EntriesOnce'
  OBVIOUS
<1>1. CASE UNCHANGED vars
  BY <1>1, SameEntries DEF vars, slotVars, threadVars, IsReady, IsOccupiedBy, Coming, Claiming
<1>2. ASSUME NEW t \in Threads, Begin(t) PROVE EntriesOnce'
  BY <1>2, LaunchEntries, PopEntries, OtherEntries DEF Begin
<1>3. ASSUME NEW t \in Threads, Continue(t) PROVE EntriesOnce'
  BY <1>3, LaunchEntries, PublishEntries, EnqueueEntries, TryClaimEntries, CompleteEntries,
     RemovePrerequisiteEntries, OtherEntries DEF Continue
<1> QED BY <1>1, <1>2, <1>3 DEF Next

\* Nothing has been queued at first.
LEMMA InitEntries == Init => EntriesOnce
<1> SUFFICES ASSUME Init PROVE EntriesOnce
  OBVIOUS
<1>1. \A h \in Handles : queued[h] = 0 /\ ~ IsReady(h) /\ \A u \in Threads : ~ Coming(u, h)
  BY HandleParts DEF Init, IsReady, IsOccupiedBy, Coming
<1> QED BY <1>1 DEF EntriesOnce

\* A ready task is scheduled once: it has an entry, or one on the way, or a
\* thread about to claim it, and never two entries.
THEOREM ReadyTasksAreScheduledOnce == Spec => []ReadyIsScheduledOnce
<1>1. EntriesOnce => ReadyIsScheduledOnce
  <2> SUFFICES ASSUME EntriesOnce, NEW h \in Handles
               PROVE  LET coming == {u \in Threads : pc[u] = "enqueue" /\ ready[u] = h}
                          claiming == {u \in Threads : pc[u] = "claim" /\ task[u] = h} IN
                      /\ queued[h] + Cardinality(coming) <= 1
                      /\ IsOccupiedBy(h) /\ status[h.index] = "Ready" =>
                           queued[h] > 0 \/ coming # {} \/ claiming # {}
    BY DEF ReadyIsScheduledOnce
  <2> DEFINE coming == {u \in Threads : pc[u] = "enqueue" /\ ready[u] = h}
             claiming == {u \in Threads : pc[u] = "claim" /\ task[u] = h}
  <2>1. queued[h] \in {0, 1}
    BY DEF EntriesOnce
  <2>2. CASE coming = {}
    <3>1. Cardinality(coming) = 0
      BY <2>2, FS_EmptySet
    <3>2. IsReady(h) => queued[h] = 1 \/ claiming # {}
      BY <2>2 DEF EntriesOnce, Coming, Claiming
    <3> QED BY <2>1, <3>1, <3>2 DEF IsReady
  <2>3. CASE coming # {}
    <3>1. PICK u \in Threads : Coming(u, h)
      BY <2>3 DEF Coming
    <3>2. queued[h] = 0 /\ coming = {u}
      BY <3>1 DEF EntriesOnce, Coming
    <3>3. Cardinality(coming) = 1
      BY <3>2, FS_Singleton
    <3> QED BY <2>3, <3>2, <3>3
  <2> QED BY <2>2, <2>3
<1> QED BY InitInv, NextInv, InitEntries, NextEntries, <1>1, PTL DEF Spec

-----------------------------------------------------------------------------
(* The refinement of TaskLifecycle: with the mapping TaskGraph gives,      *)
(* every step of the graph is a step of the lifecycle or leaves it where   *)
(* it is.  Most steps only move a thread; the lifecycle moves when a       *)
(* launch is published, a claim succeeds, a task completes, a dependant is *)
(* told of it, and a task is released.                                     *)


\* What a launch in progress knows of its prerequisites: each one it was
\* given has completed, or is counted, or is still to be looked at.
NeedsAreTracked ==
  \A t \in Threads : pc[t] = "attach" =>
    /\ prerequisites[task[t].index] \cup todo[t] \subseteq needs[task[t]]
    /\ \A p \in needs[task[t]] :
         Past(p) \/ p \in prerequisites[task[t].index] \/ p \in todo[t]

\* A task that has completed has still completed afterwards.
LEMMA PastIsStable ==
  ASSUME Inv, NEW t \in Threads, Begin(t) \/ Continue(t), NEW p \in Handles, Past(p)
  PROVE  Past(p)'
<1> USE DEF Inv, TypeInv, TypeOK
<1>0. p.index \in Indices /\ p.generation \in Int /\ generation[p.index] \in Int
  BY HandleParts
<1>1. CASE Release(t)
  <2>1. PICK h \in Handles : /\ status' = [status EXCEPT ![h.index] = "Free"]
                             /\ generation' = [generation EXCEPT ![h.index] = @ + 1]
    BY <1>1 DEF Release
  <2>2. CASE p.index = h.index
    <3>1. generation'[p.index] = generation[p.index] + 1
      BY <1>0, <2>1, <2>2
    <3> QED BY <1>0, <3>1 DEF Past
  <2>3. CASE p.index # h.index
    BY <1>0, <2>1, <2>3 DEF Past
  <2> QED BY <2>2, <2>3
<1>2. CASE Construct(t)
  <2>1. task[t].index \in Indices /\ status[task[t].index] = "Free"
    BY <1>2, HandleParts DEF Construct, LocalsTyped, SharedInv, IndexInOnePlace, Holding
  <2> QED BY <1>0, <1>2, <2>1 DEF Construct, Past
<1>3. CASE Publish(t)
  <2>1. task[t].index \in Indices /\ status[task[t].index] = "Created"
    BY <1>3, HandleParts, OwnersAreThreads, TaskGraphAssumption
       DEF Publish, LocalsTyped, SharedInv, LocksHeldByLaunches
  <2> QED BY <1>0, <1>3, <2>1 DEF Publish, Past
<1>4. CASE TryClaim(t)
  <2>1. task[t].index \in Indices
    BY <1>4, HandleParts DEF TryClaim, LocalsTyped
  <2> QED BY <1>0, <1>4, <2>1 DEF TryClaim, Past, IsOccupiedBy
<1>5. CASE Complete(t)
  BY <1>0, <1>5 DEF Complete, Past
<1>6. CASE RemovePrerequisite(t)
  <2>1. PICK d \in todo[t] :
          \/ status' = [status EXCEPT ![d.index] = "Ready"]
          \/ status' = status
    BY <1>6 DEF RemovePrerequisite
  <2>2. d \in Handles /\ d.index \in Indices /\ status[d.index] # "Completed"
    BY <1>6, HandleParts DEF RemovePrerequisite, SharedInv, DeliveriesAreOwed, Delivering
  <2> QED BY <1>0, <1>6, <2>1, <2>2 DEF RemovePrerequisite, Past
<1>7. CASE \/ LaunchAllocate(t) \/ EnsurePage(t) \/ EnsurePageFails(t) \/ AddPrerequisite(t)
           \/ Enqueue(t) \/ Pop(t) \/ Help(t) \/ Delivered(t) \/ AttachWaiter(t) \/ FreeIndex(t)
  BY <1>7 DEF LaunchAllocate, EnsurePage, EnsurePageFails, AddPrerequisite, Enqueue, Pop, Help,
              Delivered, AttachWaiter, FreeIndex, slotVars, Past
<1> QED BY <1>1, <1>2, <1>3, <1>4, <1>5, <1>6, <1>7 DEF Begin, Continue

\* A launch that goes on attaching loses track of no prerequisite to a step
\* of another thread: its slot is locked, so its list stays as it is.
LEMMA AttachingUndisturbed ==
  ASSUME Inv, NeedsAreTracked, NEW t \in Threads, NEW u \in Threads,
         pc[u] = "attach", pc'[u] = "attach", task'[u] = task[u], todo'[u] = todo[u],
         prerequisites'[task[u].index] = prerequisites[task[u].index],
         needs'[task[u]] = needs[task[u]],
         \A p \in Handles : Past(p) => Past(p)'
  PROVE  /\ (prerequisites[task[u].index] \cup todo[u] \subseteq needs[task[u]])'
         /\ \A p \in needs'[task'[u]] :
              Past(p)' \/ p \in prerequisites'[task'[u].index] \/ p \in todo'[u]
<1>1. task[u] \in Handles /\ needs[task[u]] \subseteq Handles
  BY DEF Inv, TypeInv, TypeOK, LocalsTyped
<1> QED BY <1>1 DEF NeedsAreTracked

\* No step makes a launch lose track of a prerequisite.
LEMMA NextNeeds == Inv /\ NeedsAreTracked /\ [Next]_vars => NeedsAreTracked'
<1> SUFFICES ASSUME Inv, NeedsAreTracked, [Next]_vars PROVE NeedsAreTracked'
  OBVIOUS
<1> USE DEF Inv, TypeInv, TypeOK
<1>1. CASE UNCHANGED vars
  BY <1>1 DEF vars, slotVars, threadVars, NeedsAreTracked, Past
<1>2. SUFFICES ASSUME NEW t \in Threads, Begin(t) \/ Continue(t) PROVE NeedsAreTracked'
  BY <1>1 DEF Next
<1>3. \A p \in Handles : Past(p) => Past(p)'
  BY <1>2, PastIsStable
<1>4. \A u \in Threads : pc[u] = "attach" => task[u] \in Handles /\ needs[task[u]] \subseteq Handles
  BY DEF LocalsTyped
<1>5. \A u \in Threads : pc[u] = "attach" =>
        task[u].index \in Indices /\ owner[task[u].index] = u /\ status[task[u].index] = "Created"
        /\ IsOccupiedBy(task[u])
  BY <1>4, HandleParts, TaskGraphAssumption DEF SharedInv, LocksHeldByLaunches, IsOccupiedBy, Threads
<1>6. \A u \in Threads : u # NoThread
  BY TaskGraphAssumption
<1>7. CASE Construct(t)
  <2>1. /\ task[t] \in Handles /\ task[t].index \in Indices /\ Unlocked(task[t].index)
        /\ UNCHANGED <<task, todo>> /\ todo[t] \subseteq Handles
        /\ prerequisites' = [prerequisites EXCEPT ![task[t].index] = {}]
        /\ needs' = [needs EXCEPT ![task[t]] = todo[t]]
        /\ pc' = [pc EXCEPT ![t] = "attach"]
    BY <1>7, HandleParts DEF Construct, LocalsTyped
  <2>2. ASSUME NEW u \in Threads \ {t}, pc'[u] = "attach"
        PROVE  /\ (prerequisites[task[u].index] \cup todo[u] \subseteq needs[task[u]])'
               /\ \A p \in needs'[task'[u]] :
                    Past(p)' \/ p \in prerequisites'[task'[u].index] \/ p \in todo'[u]
    <3>1. pc[u] = "attach" /\ task[u].index # task[t].index
      BY <1>5, <1>6, <2>1, <2>2 DEF Unlocked
    <3>2. /\ prerequisites'[task[u].index] = prerequisites[task[u].index]
          /\ needs'[task[u]] = needs[task[u]]
      BY <1>4, <1>5, <2>1, <3>1
    <3> QED BY <1>3, <2>1, <2>2, <3>1, <3>2, AttachingUndisturbed
  <2>3. /\ prerequisites'[task'[t].index] \cup todo'[t] \subseteq needs'[task'[t]]
        /\ \A p \in needs'[task'[t]] : p \in todo'[t]
    BY <2>1
  <2> QED BY <2>2, <2>3 DEF NeedsAreTracked
<1>8. CASE AddPrerequisite(t)
  <2>1. PICK p \in todo[t] :
          /\ IF status[p.index] = "Completed"
             THEN UNCHANGED <<prerequisites, dependants>>
             ELSE /\ prerequisites' = [prerequisites EXCEPT ![task[t].index] = @ \cup {p}]
                  /\ dependants' = [dependants EXCEPT ![p.index] = @ \cup {task[t]}]
          /\ todo' = [todo EXCEPT ![t] = @ \ {p}]
    BY <1>8 DEF AddPrerequisite
  <2>2. /\ pc[t] = "attach" /\ UNCHANGED <<pc, task, needs, generation, status>>
        /\ p \in Handles /\ p \in needs[task[t]]
    BY <1>8 DEF AddPrerequisite, slotVars, NeedsAreTracked
  <2>3. status[p.index] = "Completed" => Past(p)
    BY <2>1, <2>2 DEF SharedInv, TodoIsLive, IsOccupiedBy, Past
  <2>4. ASSUME NEW u \in Threads \ {t}, pc'[u] = "attach"
        PROVE  /\ (prerequisites[task[u].index] \cup todo[u] \subseteq needs[task[u]])'
               /\ \A q \in needs'[task'[u]] :
                    Past(q)' \/ q \in prerequisites'[task'[u].index] \/ q \in todo'[u]
    <3>1. pc[u] = "attach" /\ task[u].index # task[t].index
      BY <1>5, <2>2, <2>4
    <3>2. prerequisites'[task[u].index] = prerequisites[task[u].index] /\ todo'[u] = todo[u]
      BY <1>5, <2>1, <3>1
    <3> QED BY <1>3, <2>2, <2>4, <3>1, <3>2, AttachingUndisturbed
  <2>5. /\ (prerequisites[task[t].index] \cup todo[t] \subseteq needs[task[t]])'
        /\ \A q \in needs'[task'[t]] :
             Past(q)' \/ q \in prerequisites'[task'[t].index] \/ q \in todo'[t]
    <3>1. todo'[t] = todo[t] \ {p}
      BY <2>1
    <3>2. \/ /\ status[p.index] = "Completed"
             /\ prerequisites' = prerequisites
          \/ prerequisites'[task[t].index] = prerequisites[task[t].index] \cup {p}
      BY <1>5, <2>1, <2>2
    <3>3. \A q \in needs[task[t]] : Past(q) \/ q \in prerequisites[task[t].index] \/ q \in todo[t]
      BY <2>2 DEF NeedsAreTracked
    <3>4. prerequisites[task[t].index] \cup todo[t] \subseteq needs[task[t]]
      BY <2>2 DEF NeedsAreTracked
    <3>5. \A q \in needs[task[t]] :
            Past(q) \/ q \in prerequisites'[task[t].index] \/ q \in todo'[t]
      BY <2>2, <2>3, <3>1, <3>2, <3>3
    <3>6. \A q \in needs[task[t]] : Past(q) => Past(q)'
      BY <1>3, <1>4, <2>2
    <3> QED BY <2>2, <3>1, <3>2, <3>4, <3>5, <3>6
  <2> QED BY <2>4, <2>5 DEF NeedsAreTracked
<1>9. CASE RemovePrerequisite(t)
  <2>1. PICK d \in todo[t] :
          /\ Unlocked(d.index)
          /\ prerequisites' = [prerequisites EXCEPT ![d.index] = prerequisites[d.index] \ {task[t]}]
          /\ todo' = [todo EXCEPT ![t] = @ \ {d}]
          /\ pc' = [pc EXCEPT ![t] = "enqueue"] \/ pc' = pc
    BY <1>9 DEF RemovePrerequisite
  <2>2. pc[t] = "notify" /\ UNCHANGED <<task, needs>>
    BY <1>9 DEF RemovePrerequisite
  <2>3. ASSUME NEW u \in Threads, pc'[u] = "attach"
        PROVE  /\ (prerequisites[task[u].index] \cup todo[u] \subseteq needs[task[u]])'
               /\ \A q \in needs'[task'[u]] :
                    Past(q)' \/ q \in prerequisites'[task'[u].index] \/ q \in todo'[u]
    <3>1. pc[u] = "attach" /\ u # t
      BY <2>1, <2>2, <2>3
    <3>2. task[u].index # d.index
      BY <1>5, <1>6, <2>1, <3>1 DEF Unlocked
    <3>3. prerequisites'[task[u].index] = prerequisites[task[u].index] /\ todo'[u] = todo[u]
      BY <1>5, <2>1, <3>1, <3>2
    <3> QED BY <1>3, <2>2, <2>3, <3>1, <3>3, AttachingUndisturbed
  <2> QED BY <2>3 DEF NeedsAreTracked
<1>10. CASE Complete(t)
  <2>1. /\ pc[t] = "run" /\ UNCHANGED <<prerequisites, needs>>
        /\ task[t].index \in Indices
        /\ pc' = [u \in Threads |-> IF u = latch[task[t].index] THEN "idle" ELSE IF u = t THEN "notify" ELSE pc[u]]
        /\ task' = [u \in Threads |-> IF u = latch[task[t].index] THEN NoHandle ELSE task[u]]
        /\ todo' = [todo EXCEPT ![t] = dependants[task[t].index]]
    BY <1>10, HandleParts DEF Complete, LocalsTyped
  <2>2. ASSUME NEW u \in Threads, pc'[u] = "attach"
        PROVE  /\ (prerequisites[task[u].index] \cup todo[u] \subseteq needs[task[u]])'
               /\ \A q \in needs'[task'[u]] :
                    Past(q)' \/ q \in prerequisites'[task'[u].index] \/ q \in todo'[u]
    <3>1. pc[u] = "attach" /\ u # t /\ task'[u] = task[u] /\ todo'[u] = todo[u]
      BY <2>1, <2>2
    <3> QED BY <1>3, <2>1, <2>2, <3>1, AttachingUndisturbed
  <2> QED BY <2>2 DEF NeedsAreTracked
<1>11. CASE Release(t)
  <2>1. PICK h \in Handles : /\ Known(h)
                             /\ needs' = [needs EXCEPT ![h] = {}]
                             /\ task' = [task EXCEPT ![t] = h]
    BY <1>11 DEF Release
  <2>2. pc[t] = "idle" /\ pc' = [pc EXCEPT ![t] = "freeIndex"] /\ UNCHANGED <<prerequisites, todo>>
    BY <1>11 DEF Release
  <2>3. ASSUME NEW u \in Threads, pc'[u] = "attach"
        PROVE  /\ (prerequisites[task[u].index] \cup todo[u] \subseteq needs[task[u]])'
               /\ \A q \in needs'[task'[u]] :
                    Past(q)' \/ q \in prerequisites'[task'[u].index] \/ q \in todo'[u]
    <3>1. pc[u] = "attach" /\ u # t /\ task'[u] = task[u]
      BY <2>1, <2>2, <2>3
    <3>2. task[u] # h
      BY <1>5, <2>1, <3>1 DEF Known
    <3>3. needs'[task[u]] = needs[task[u]]
      BY <1>4, <2>1, <3>1, <3>2
    <3> QED BY <1>3, <2>2, <2>3, <3>1, <3>3, AttachingUndisturbed
  <2> QED BY <2>3 DEF NeedsAreTracked
<1>12. CASE \/ LaunchAllocate(t) \/ EnsurePage(t) \/ EnsurePageFails(t) \/ Publish(t)
            \/ Enqueue(t) \/ Pop(t) \/ Help(t) \/ TryClaim(t) \/ Delivered(t) \/ AttachWaiter(t) \/ FreeIndex(t)
  <2>1. /\ UNCHANGED <<prerequisites, needs>> /\ pc'[t] # "attach"
        /\ \A u \in Threads \ {t} : pc'[u] = pc[u] /\ task'[u] = task[u] /\ todo'[u] = todo[u]
    BY <1>12 DEF LaunchAllocate, EnsurePage, EnsurePageFails, Publish, Enqueue, Pop, Help,
                 TryClaim, Delivered, AttachWaiter, FreeIndex, slotVars, Return
  <2> QED BY <1>3, <2>1, AttachingUndisturbed DEF NeedsAreTracked
<1> QED BY <1>2, <1>7, <1>8, <1>9, <1>10, <1>11, <1>12 DEF Begin, Continue

-----------------------------------------------------------------------------
(* The refinement.                                                         *)

\* A step that leaves what the lifecycle sees of every handle alone.
LEMMA LifecycleStutters ==
  ASSUME \A h \in Handles : /\ LifecycleState(h)' = LifecycleState(h)
                            /\ LifecycleNeeds(h)' = LifecycleNeeds(h)
                            /\ LifecyclePending(h)' = LifecyclePending(h)
  PROVE  UNCHANGED Lifecycle!vars
  BY DEF Lifecycle!vars

\* A step that changes what the lifecycle sees of one handle only.
LEMMA LifecycleMoves ==
  ASSUME NEW h \in Handles,
         \A g \in Handles \ {h} : /\ LifecycleState(g)' = LifecycleState(g)
                                  /\ LifecycleNeeds(g)' = LifecycleNeeds(g)
                                  /\ LifecyclePending(g)' = LifecyclePending(g)
  PROVE  /\ [g \in Handles |-> LifecycleState(g)']
              = [[g \in Handles |-> LifecycleState(g)] EXCEPT ![h] = LifecycleState(h)']
         /\ [g \in Handles |-> LifecycleNeeds(g)']
              = [[g \in Handles |-> LifecycleNeeds(g)] EXCEPT ![h] = LifecycleNeeds(h)']
         /\ [g \in Handles |-> LifecyclePending(g)']
              = [[g \in Handles |-> LifecyclePending(g)] EXCEPT ![h] = LifecyclePending(h)']
  OBVIOUS

\* What a step does to the task in one slot the handles of other slots, and
\* those of other tasks of the same slot, do not see.
LEMMA OthersSeeNothing ==
  ASSUME Inv, NEW h \in Handles, generation[h.index] = h.generation, UNCHANGED generation,
         \A i \in Indices \ {h.index} : status'[i] = status[i] /\ prerequisites'[i] = prerequisites[i],
         \A g \in Handles \ {h} : LifecycleState(g) # "Absent" => needs'[g] = needs[g]
  PROVE  \A g \in Handles \ {h} : /\ LifecycleState(g)' = LifecycleState(g)
                                  /\ LifecycleNeeds(g)' = LifecycleNeeds(g)
                                  /\ LifecyclePending(g)' = LifecyclePending(g)
<1> SUFFICES ASSUME NEW g \in Handles \ {h}
             PROVE  /\ LifecycleState(g)' = LifecycleState(g)
                    /\ LifecyclePending(g)' = LifecyclePending(g)
  BY DEF LifecycleNeeds
<1>1. CASE g.index = h.index
  <2>1. g.generation # generation[g.index]
    BY <1>1, HandleEqual
  <2>2. LifecycleState(g) \in {"Absent", "Released"} /\ LifecycleState(g)' = LifecycleState(g)
    BY <2>1 DEF LifecycleState, IsOccupiedBy
  <2> QED BY <2>2 DEF LifecyclePending
<1>2. CASE g.index # h.index
  BY <1>2, HandleParts DEF LifecycleState, IsOccupiedBy, LifecyclePending
<1> QED BY <1>1, <1>2

\* The state of a handle whose task is in its slot, and when it is done.
LEMMA LifecycleOfTheTaskInTheSlot ==
  ASSUME Inv, NEW h \in Handles
  PROVE  /\ generation[h.index] = h.generation =>
              LifecycleState(h) = IF status[h.index] \in {"Free", "Created"} THEN "Absent" ELSE status[h.index]
         /\ LifecycleState(h) \in {"Absent", "Waiting", "Ready", "Running", "Completed", "Released"}
         /\ Past(h) => LifecycleState(h) \in {"Completed", "Released"}
         /\ Known(h) => LifecycleState(h) # "Absent"
<1> USE DEF Inv, TypeInv, TypeOK, Statuses
<1>1. h.index \in Indices /\ h.generation \in Int /\ generation[h.index] \in Int
  BY HandleParts
<1> QED BY <1>1 DEF LifecycleState, Past, Known, IsOccupiedBy

\* Publishing a launch is launching a task in the lifecycle: it is ready when
\* every prerequisite has completed, and waits for the others if not.
LEMMA PublishLaunches ==
  ASSUME Inv, NeedsAreTracked, NEW t \in Threads, Publish(t)
  PROVE  Lifecycle!Next
<1> USE DEF Inv, TypeInv, TypeOK
<1>0. PICK h \in Handles : h = task[t]
  BY DEF Publish, LocalsTyped
<1> DEFINE i == h.index
<1>1. /\ pc[t] = "attach" /\ todo[t] = {} /\ i \in Indices
      /\ status' = [status EXCEPT ![i] = IF prerequisites[i] = {} THEN "Ready" ELSE "Waiting"]
      /\ UNCHANGED <<generation, prerequisites, needs>>
  BY <1>0, HandleParts DEF Publish
<1>2. status[i] = "Created" /\ generation[i] = h.generation
  BY <1>0, <1>1, TaskGraphAssumption DEF SharedInv, LocksHeldByLaunches
<1>3. \A g \in Handles \ {h} : /\ LifecycleState(g)' = LifecycleState(g)
                               /\ LifecycleNeeds(g)' = LifecycleNeeds(g)
                               /\ LifecyclePending(g)' = LifecyclePending(g)
  BY <1>1, <1>2, OthersSeeNothing
<1>4. /\ LifecycleState(h) = "Absent"
      /\ LifecycleState(h)' = IF prerequisites[i] = {} THEN "Ready" ELSE "Waiting"
  BY <1>1, <1>2, LifecycleOfTheTaskInTheSlot DEF LifecycleState, IsOccupiedBy
<1>5. /\ LifecycleNeeds(h)' = needs[h]
      /\ LifecyclePending(h)' = prerequisites[i]
  BY <1>1, <1>4 DEF LifecycleNeeds, LifecyclePending
<1>6. /\ needs[h] \subseteq Handles /\ prerequisites[i] \subseteq needs[h]
      /\ \A p \in needs[h] \ prerequisites[i] : LifecycleState(p) \in {"Completed", "Released"}
  <2>1. needs[h] \subseteq Handles /\ prerequisites[i] \subseteq needs[h]
    BY <1>0, <1>1 DEF NeedsAreTracked
  <2>2. \A p \in needs[h] \ prerequisites[i] : Past(p)
    BY <1>0, <1>1 DEF NeedsAreTracked
  <2> QED BY <2>1, <2>2, LifecycleOfTheTaskInTheSlot
<1>7. \A p \in prerequisites[i] : LifecycleState(p) # "Absent"
  <2>1. \A p \in prerequisites[i] :
          \/ IsOccupiedBy(p) /\ status[p.index] \in {"Waiting", "Ready", "Running"}
          \/ \E u \in Threads : Delivering(u) /\ task[u] = p
    BY <1>1, <1>2 DEF SharedInv, EdgesMatch, IsOccupiedBy
  <2>2. \A p \in prerequisites[i] :
          \/ Past(p)
          \/ IsOccupiedBy(p) /\ status[p.index] \in {"Waiting", "Ready", "Running"}
    <3>1. ASSUME NEW p \in prerequisites[i], NEW u \in Threads, Delivering(u), task[u] = p
          PROVE  Past(p)
      BY <3>1 DEF SharedInv, DeliveriesAreOwed, Past
    <3> QED BY <2>1, <3>1
  <2>3. \A p \in prerequisites[i] : p \in Handles
    BY <1>6
  <2> QED BY <2>2, <2>3, LifecycleOfTheTaskInTheSlot DEF LifecycleState
<1>8. CASE prerequisites[i] = {}
  <2>1. Lifecycle!LaunchReady(h)
    BY <1>1, <1>3, <1>4, <1>5, <1>6, <1>8, LifecycleMoves
       DEF Lifecycle!LaunchReady, Lifecycle!Done
  <2> QED BY <1>1, <2>1 DEF Lifecycle!Next
<1>9. CASE prerequisites[i] # {}
  <2>1. /\ needs[h] \in SUBSET Lifecycle!Launched
        /\ prerequisites[i] \in (SUBSET needs[h]) \ {{}}
        /\ \A p \in needs[h] \ prerequisites[i] : Lifecycle!Done(p)
    BY <1>6, <1>7, <1>9 DEF Lifecycle!Launched, Lifecycle!Done
  <2>2. /\ [g \in Handles |-> LifecycleState(g)]'
             = [[g \in Handles |-> LifecycleState(g)] EXCEPT ![h] = "Waiting"]
        /\ [g \in Handles |-> LifecycleNeeds(g)]'
             = [[g \in Handles |-> LifecycleNeeds(g)] EXCEPT ![h] = needs[h]]
        /\ [g \in Handles |-> LifecyclePending(g)]'
             = [[g \in Handles |-> LifecyclePending(g)] EXCEPT ![h] = prerequisites[i]]
    BY <1>3, <1>4, <1>5, <1>9, LifecycleMoves
  <2>3. [g \in Handles |-> LifecycleState(g)][h] = "Absent"
    BY <1>4
  <2>4. \E Q \in (SUBSET needs[h]) \ {{}} :
          /\ [g \in Handles |-> LifecyclePending(g)]'
               = [[g \in Handles |-> LifecyclePending(g)] EXCEPT ![h] = Q]
          /\ \A p \in needs[h] \ Q : Lifecycle!Done(p)
    BY <2>1, <2>2
  <2>5. \E P \in SUBSET Lifecycle!Launched :
          /\ [g \in Handles |-> LifecycleNeeds(g)]'
               = [[g \in Handles |-> LifecycleNeeds(g)] EXCEPT ![h] = P]
          /\ \E Q \in (SUBSET P) \ {{}} :
               /\ [g \in Handles |-> LifecyclePending(g)]'
                    = [[g \in Handles |-> LifecyclePending(g)] EXCEPT ![h] = Q]
               /\ \A p \in P \ Q : Lifecycle!Done(p)
    BY <2>1, <2>2, <2>4
  <2>6. Lifecycle!LaunchWaiting(h)
    BY <2>2, <2>3, <2>5 DEF Lifecycle!LaunchWaiting
  <2> QED BY <2>6 DEF Lifecycle!Next
<1> QED BY <1>8, <1>9

\* A step that changes the status of the task in one slot, and no more that
\* the lifecycle sees, moves that task alone.
LEMMA StatusMoves ==
  ASSUME Inv, NEW h \in Handles, generation[h.index] = h.generation,
         NEW s \in Statuses \ {"Free", "Created", "Waiting"},
         status[h.index] \notin {"Free", "Created", "Waiting"},
         status' = [status EXCEPT ![h.index] = s],
         UNCHANGED <<generation, prerequisites, needs>>
  PROVE  /\ LifecycleState(h) = status[h.index]
         /\ [g \in Handles |-> LifecycleState(g)]'
              = [[g \in Handles |-> LifecycleState(g)] EXCEPT ![h] = s]
         /\ [g \in Handles |-> LifecycleNeeds(g)]' = [g \in Handles |-> LifecycleNeeds(g)]
         /\ [g \in Handles |-> LifecyclePending(g)]' = [g \in Handles |-> LifecyclePending(g)]
<1> USE DEF Inv, TypeInv, TypeOK
<1>1. h.index \in Indices /\ h.generation \in Int
  BY HandleParts
<1>2. \A g \in Handles \ {h} : /\ LifecycleState(g)' = LifecycleState(g)
                               /\ LifecycleNeeds(g)' = LifecycleNeeds(g)
                               /\ LifecyclePending(g)' = LifecyclePending(g)
  BY OthersSeeNothing
<1>3. LifecycleState(h) = status[h.index]
  BY LifecycleOfTheTaskInTheSlot
<1>4. LifecycleState(h)' = s
  BY <1>1 DEF LifecycleState, IsOccupiedBy
<1>5. LifecycleNeeds(h)' = LifecycleNeeds(h) /\ LifecyclePending(h)' = LifecyclePending(h)
  BY <1>1, <1>3, <1>4 DEF LifecycleNeeds, LifecyclePending, Statuses
<1> QED BY <1>2, <1>3, <1>4, <1>5, LifecycleMoves

\* A successful claim starts a ready task, a failed one does nothing.
LEMMA TryClaimStarts ==
  ASSUME Inv, NEW t \in Threads, TryClaim(t)
  PROVE  Lifecycle!Next \/ UNCHANGED Lifecycle!vars
<1> USE DEF Inv, TypeInv, TypeOK
<1>0. PICK h \in Handles : h = task[t]
  BY DEF TryClaim, LocalsTyped
<1>1. UNCHANGED <<generation, prerequisites, needs>>
  BY DEF TryClaim
<1>2. CASE IsOccupiedBy(h) /\ status[h.index] = "Ready"
  <2>1. status' = [status EXCEPT ![h.index] = "Running"] /\ generation[h.index] = h.generation
    BY <1>0, <1>2 DEF TryClaim, IsOccupiedBy
  <2>2. Lifecycle!Start(h)
    BY <1>1, <1>2, <2>1, StatusMoves DEF Lifecycle!Start, Statuses
  <2> QED BY <2>2 DEF Lifecycle!Next
<1>3. CASE ~ (IsOccupiedBy(h) /\ status[h.index] = "Ready")
  <2>1. status' = status
    BY <1>0, <1>3 DEF TryClaim
  <2>2. \A g \in Handles : /\ LifecycleState(g)' = LifecycleState(g)
                           /\ LifecycleNeeds(g)' = LifecycleNeeds(g)
                           /\ LifecyclePending(g)' = LifecyclePending(g)
    BY <1>1, <2>1 DEF LifecycleState, LifecycleNeeds, LifecyclePending, IsOccupiedBy
  <2> QED BY <2>2, LifecycleStutters
<1> QED BY <1>2, <1>3

\* Completing a task finishes it.
LEMMA CompleteFinishes ==
  ASSUME Inv, NEW t \in Threads, Complete(t)
  PROVE  Lifecycle!Next
<1> USE DEF Inv, TypeInv, TypeOK
<1>0. PICK h \in Handles : h = task[t]
  BY DEF Complete, LocalsTyped
<1>1. /\ UNCHANGED <<generation, prerequisites, needs>>
      /\ status' = [status EXCEPT ![h.index] = "Completed"]
  BY <1>0 DEF Complete
<1>2. status[h.index] = "Running" /\ generation[h.index] = h.generation
  BY <1>0 DEF Complete, SharedInv, RunsOnce, IsOccupiedBy
<1>3. Lifecycle!Finish(h)
  BY <1>1, <1>2, StatusMoves DEF Lifecycle!Finish, Statuses
<1> QED BY <1>3 DEF Lifecycle!Next

\* Telling a dependant of a completion unblocks it, or lets it wait for the
\* prerequisites that are left.
LEMMA RemovePrerequisiteUnblocks ==
  ASSUME Inv, NEW t \in Threads, RemovePrerequisite(t)
  PROVE  Lifecycle!Next
<1> USE DEF Inv, TypeInv, TypeOK
<1>0. PICK p \in Handles : p = task[t]
  BY DEF RemovePrerequisite, LocalsTyped
<1>1. PICK d \in Handles :
        /\ d \in todo[t] /\ Unlocked(d.index)
        /\ prerequisites' = [prerequisites EXCEPT ![d.index] = prerequisites[d.index] \ {p}]
        /\ IF prerequisites[d.index] \ {p} = {}
           THEN status' = [status EXCEPT ![d.index] = "Ready"]
           ELSE status' = status
  <2>1. todo[t] \subseteq Handles
    OBVIOUS
  <2> QED BY <1>0, <2>1 DEF RemovePrerequisite
<1>2. /\ pc[t] = "notify" /\ UNCHANGED <<generation, needs>>
      /\ d.index \in Indices
  BY HandleParts DEF RemovePrerequisite
<1>3. /\ IsOccupiedBy(d) /\ status[d.index] \in {"Created", "Waiting"}
      /\ p \in prerequisites[d.index]
      /\ Past(p)
  BY <1>0, <1>1, <1>2 DEF SharedInv, DeliveriesAreOwed, Delivering, Past
<1>4. status[d.index] = "Waiting" /\ generation[d.index] = d.generation
  BY <1>1, <1>2, <1>3 DEF SharedInv, LocksHeldByLaunches, Unlocked, IsOccupiedBy
<1>5. LifecycleState(d) = "Waiting" /\ LifecyclePending(d) = prerequisites[d.index]
  BY <1>4, LifecycleOfTheTaskInTheSlot DEF LifecyclePending
<1>6. LifecycleState(d)' = IF prerequisites[d.index] = {p} THEN "Ready" ELSE "Waiting"
  BY <1>1, <1>2, <1>3, <1>4 DEF LifecycleState, IsOccupiedBy
<1>7. LifecyclePending(d)' = prerequisites[d.index] \ {p}
  BY <1>1, <1>2, <1>3, <1>6 DEF LifecyclePending
<1>8. LifecycleNeeds(d)' = LifecycleNeeds(d)
  BY <1>2, <1>5, <1>6 DEF LifecycleNeeds
<1>9. \A g \in Handles \ {d} : /\ LifecycleState(g)' = LifecycleState(g)
                               /\ LifecycleNeeds(g)' = LifecycleNeeds(g)
                               /\ LifecyclePending(g)' = LifecyclePending(g)
  BY <1>1, <1>2, <1>4, OthersSeeNothing
<1>10. LifecycleState(p) \in {"Completed", "Released"}
  BY <1>3, LifecycleOfTheTaskInTheSlot
<1>11. /\ [g \in Handles |-> LifecycleState(g)]'
            = [[g \in Handles |-> LifecycleState(g)] EXCEPT
                 ![d] = IF prerequisites[d.index] = {p} THEN "Ready" ELSE "Waiting"]
       /\ [g \in Handles |-> LifecyclePending(g)]'
            = [[g \in Handles |-> LifecyclePending(g)] EXCEPT ![d] = prerequisites[d.index] \ {p}]
       /\ [g \in Handles |-> LifecycleNeeds(g)]' = [g \in Handles |-> LifecycleNeeds(g)]
  BY <1>6, <1>7, <1>8, <1>9, LifecycleMoves
<1>12. Lifecycle!Unblock(d, p) /\ p \in [g \in Handles |-> LifecyclePending(g)][d]
  BY <1>3, <1>5, <1>10, <1>11 DEF Lifecycle!Unblock, Lifecycle!Done
<1> QED BY <1>12 DEF Lifecycle!Next

\* Releasing a completed task ends it; the slot's next task is not there yet.
LEMMA ReleaseReleases ==
  ASSUME Inv, NEW t \in Threads, Release(t)
  PROVE  Lifecycle!Next
<1> USE DEF Inv, TypeInv, TypeOK
<1>1. PICK h \in Handles :
        /\ Known(h) /\ status[h.index] = "Completed"
        /\ status' = [status EXCEPT ![h.index] = "Free"]
        /\ generation' = [generation EXCEPT ![h.index] = @ + 1]
        /\ needs' = [needs EXCEPT ![h] = {}]
  BY DEF Release
<1>2. /\ UNCHANGED prerequisites /\ h.index \in Indices /\ generation[h.index] = h.generation
      /\ h.generation \in Int
  BY <1>1, HandleParts DEF Release, Known, IsOccupiedBy
<1>3. ASSUME NEW g \in Handles \ {h}
      PROVE  /\ LifecycleState(g)' = LifecycleState(g)
             /\ LifecycleNeeds(g)' = LifecycleNeeds(g)
             /\ LifecyclePending(g)' = LifecyclePending(g)
  <2>1. g.index \in Indices /\ g.generation \in Int /\ needs'[g] = needs[g]
    BY <1>1, HandleParts
  <2>2. LifecycleState(g)' = LifecycleState(g)
    <3>1. CASE g.index = h.index
      <4>1. g.generation # h.generation
        BY <3>1, HandleEqual
      <4>2. generation'[g.index] = h.generation + 1 /\ status'[g.index] = "Free"
        BY <1>1, <1>2, <3>1
      <4> QED BY <1>2, <2>1, <3>1, <4>1, <4>2 DEF LifecycleState, IsOccupiedBy
    <3>2. CASE g.index # h.index
      BY <1>1, <1>2, <2>1, <3>2 DEF LifecycleState, IsOccupiedBy
    <3> QED BY <3>1, <3>2
  <2> QED BY <1>2, <2>1, <2>2 DEF LifecycleNeeds, LifecyclePending
<1>4. LifecycleState(h) = "Completed" /\ LifecycleState(h)' = "Released"
  BY <1>1, <1>2, LifecycleOfTheTaskInTheSlot DEF LifecycleState
<1>5. /\ LifecycleNeeds(h)' = {}
      /\ LifecyclePending(h)' = {} /\ LifecyclePending(h) = {}
  BY <1>1, <1>4 DEF LifecycleNeeds, LifecyclePending
<1>6. /\ [g \in Handles |-> LifecycleState(g)]'
           = [[g \in Handles |-> LifecycleState(g)] EXCEPT ![h] = "Released"]
      /\ [g \in Handles |-> LifecycleNeeds(g)]'
           = [[g \in Handles |-> LifecycleNeeds(g)] EXCEPT ![h] = {}]
      /\ [g \in Handles |-> LifecyclePending(g)]' = [g \in Handles |-> LifecyclePending(g)]
  BY <1>3, <1>4, <1>5, LifecycleMoves
<1>7. Lifecycle!Release(h)
  BY <1>4, <1>6 DEF Lifecycle!Release
<1> QED BY <1>7 DEF Lifecycle!Next

\* Preparing a launch, before it is published, is no step of the lifecycle.
LEMMA LaunchPreparationStutters ==
  ASSUME Inv, NEW t \in Threads, Construct(t) \/ AddPrerequisite(t)
  PROVE  UNCHANGED Lifecycle!vars
<1> USE DEF Inv, TypeInv, TypeOK
<1>0. PICK h \in Handles : h = task[t]
  BY DEF Construct, AddPrerequisite, LocalsTyped
<1>1. h.index \in Indices /\ generation[h.index] = h.generation
  BY <1>0, HandleParts DEF Construct, AddPrerequisite, SharedInv, LaunchHandleIsNext, LocksHeldByLaunches
<1>2. LifecycleState(h) = "Absent" /\ LifecycleState(h)' = "Absent"
  <2>1. CASE Construct(t)
    <3>1. /\ status' = [status EXCEPT ![h.index] = "Created"] /\ generation' = generation
          /\ status[h.index] = "Free"
      BY <1>0, <1>1, <2>1 DEF Construct, SharedInv, IndexInOnePlace, Holding
    <3> QED BY <1>1, <3>1, HandleParts DEF LifecycleState, IsOccupiedBy
  <2>2. CASE AddPrerequisite(t)
    <3>1. UNCHANGED <<status, generation>> /\ status[h.index] = "Created"
      BY <1>0, <1>1, <2>2, TaskGraphAssumption
         DEF AddPrerequisite, SharedInv, LocksHeldByLaunches
    <3> QED BY <1>1, <3>1, HandleParts DEF LifecycleState, IsOccupiedBy
  <2> QED BY <2>1, <2>2
<1>3. /\ UNCHANGED generation
      /\ \A i \in Indices \ {h.index} : status'[i] = status[i] /\ prerequisites'[i] = prerequisites[i]
      /\ \A g \in Handles \ {h} : needs'[g] = needs[g]
  <2>1. CASE Construct(t)
    BY <1>0, <2>1 DEF Construct
  <2>2. CASE AddPrerequisite(t)
    <3>1. UNCHANGED <<generation, status, needs>>
      BY <2>2 DEF AddPrerequisite
    <3>2. \/ prerequisites' = prerequisites
          \/ \E p \in todo[t] : prerequisites' = [prerequisites EXCEPT ![h.index] = @ \cup {p}]
      BY <1>0, <2>2 DEF AddPrerequisite
    <3> QED BY <3>1, <3>2
  <2> QED BY <2>1, <2>2
<1>4. \A g \in Handles \ {h} : /\ LifecycleState(g)' = LifecycleState(g)
                               /\ LifecycleNeeds(g)' = LifecycleNeeds(g)
                               /\ LifecyclePending(g)' = LifecyclePending(g)
  BY <1>1, <1>3, OthersSeeNothing
<1>5. LifecycleNeeds(h)' = LifecycleNeeds(h) /\ LifecyclePending(h)' = LifecyclePending(h)
  BY <1>2 DEF LifecycleNeeds, LifecyclePending
<1> QED BY <1>2, <1>4, <1>5, LifecycleStutters

\* Every step of the graph is a step of the lifecycle, or leaves it alone.
LEMMA StepsOfTheLifecycle ==
  ASSUME Inv, NeedsAreTracked, [Next]_vars
  PROVE  [Lifecycle!Next]_(Lifecycle!vars)
<1>1. ASSUME UNCHANGED <<generation, status, prerequisites, needs>>
      PROVE  UNCHANGED Lifecycle!vars
  <2>1. \A g \in Handles : /\ LifecycleState(g)' = LifecycleState(g)
                           /\ LifecycleNeeds(g)' = LifecycleNeeds(g)
                           /\ LifecyclePending(g)' = LifecyclePending(g)
    BY <1>1 DEF LifecycleState, LifecycleNeeds, LifecyclePending, IsOccupiedBy
  <2> QED BY <2>1, LifecycleStutters
<1>2. CASE UNCHANGED vars
  BY <1>1, <1>2 DEF vars, slotVars
<1>3. SUFFICES ASSUME NEW t \in Threads, Begin(t) \/ Continue(t)
               PROVE  Lifecycle!Next \/ UNCHANGED Lifecycle!vars
  BY <1>2 DEF Next
<1>4. CASE Publish(t) \/ TryClaim(t) \/ Complete(t) \/ RemovePrerequisite(t) \/ Release(t)
  BY <1>4, PublishLaunches, TryClaimStarts, CompleteFinishes, RemovePrerequisiteUnblocks, ReleaseReleases
<1>5. CASE Construct(t) \/ AddPrerequisite(t)
  BY <1>5, LaunchPreparationStutters
<1>6. CASE \/ LaunchAllocate(t) \/ EnsurePage(t) \/ EnsurePageFails(t) \/ Enqueue(t) \/ Pop(t)
           \/ Help(t) \/ Delivered(t) \/ AttachWaiter(t) \/ FreeIndex(t)
  BY <1>1, <1>6 DEF LaunchAllocate, EnsurePage, EnsurePageFails, Enqueue, Pop, Help, Delivered,
                    AttachWaiter, FreeIndex, slotVars
<1> QED BY <1>3, <1>4, <1>5, <1>6 DEF Begin, Continue

\* At first no task has been launched.
LEMMA InitOfTheLifecycle == Init => Lifecycle!Init /\ NeedsAreTracked
<1> SUFFICES ASSUME Init PROVE Lifecycle!Init /\ NeedsAreTracked
  OBVIOUS
<1>1. NeedsAreTracked
  BY DEF Init, NeedsAreTracked
<1>2. \A h \in Handles : LifecycleState(h) = "Absent"
  BY HandleParts DEF Init, LifecycleState, IsOccupiedBy
<1>3. \A h \in Handles : LifecycleNeeds(h) = {} /\ LifecyclePending(h) = {}
  BY <1>2 DEF LifecycleNeeds, LifecyclePending
<1> QED BY <1>1, <1>2, <1>3 DEF Lifecycle!Init

\* The task graph, with its slots, mutexes, queue and stale handles, behaves
\* to its callers as the lifecycle says.
THEOREM GraphImplementsLifecycle == Spec => ImplementsLifecycle
<1>1. Init => Inv /\ NeedsAreTracked /\ Lifecycle!Init
  BY InitInv, InitOfTheLifecycle
<1>2. Inv /\ NeedsAreTracked /\ [Next]_vars
        => Inv' /\ NeedsAreTracked' /\ [Lifecycle!Next]_(Lifecycle!vars)
  BY NextInv, NextNeeds, StepsOfTheLifecycle
<1> QED BY <1>1, <1>2, PTL DEF Spec, ImplementsLifecycle, Lifecycle!Spec

\* The lifecycle as the graph shows it, with what is proved of it.
Shown == INSTANCE TaskLifecycleProofs WITH
  Tasks <- Handles,
  state <- [h \in Handles |-> LifecycleState(h)],
  needs <- [h \in Handles |-> LifecycleNeeds(h)],
  pending <- [h \in Handles |-> LifecyclePending(h)]

\* In terms of the slots: a task that is ready, runs or has completed was
\* launched with prerequisites that have all completed, whatever has been
\* released and launched again since.
PrerequisitesHaveCompleted ==
  \A h \in Handles :
    IsOccupiedBy(h) /\ status[h.index] \in {"Ready", "Running", "Completed"}
      => \A p \in needs[h] : Past(p)

\* What the lifecycle promises holds of the graph that implements it.
THEOREM TasksRunAfterPrerequisites == Spec => []PrerequisitesHaveCompleted
<1>1. Spec => Shown!Spec
  <2>1. Lifecycle!Init => Shown!Init
    BY DEF Lifecycle!Init, Shown!Init
  <2>2. [Lifecycle!Next]_(Lifecycle!vars) => [Shown!Next]_(Shown!vars)
    BY DEF Lifecycle!Next, Shown!Next, Lifecycle!vars, Shown!vars, Lifecycle!LaunchReady, Shown!LaunchReady,
           Lifecycle!LaunchWaiting, Shown!LaunchWaiting, Lifecycle!Launched, Shown!Launched,
           Lifecycle!Unblock, Shown!Unblock, Lifecycle!Done, Shown!Done, Lifecycle!Start, Shown!Start,
           Lifecycle!Finish, Shown!Finish, Lifecycle!Release, Shown!Release
  <2> QED BY GraphImplementsLifecycle, <2>1, <2>2, PTL DEF ImplementsLifecycle, Lifecycle!Spec, Shown!Spec
<1>2. Spec => []Shown!PrerequisitesFirst
  BY <1>1, Shown!StartsAfterPrerequisites, PTL
<1>3. Inv /\ Shown!PrerequisitesFirst => PrerequisitesHaveCompleted
  <2> SUFFICES ASSUME Inv, Shown!PrerequisitesFirst, NEW h \in Handles, IsOccupiedBy(h),
                      status[h.index] \in {"Ready", "Running", "Completed"}, NEW p \in needs[h]
               PROVE  Past(p)
    BY DEF PrerequisitesHaveCompleted
  <2>1. LifecycleState(h) = status[h.index] /\ LifecycleNeeds(h) = needs[h]
    BY LifecycleOfTheTaskInTheSlot DEF LifecycleNeeds, IsOccupiedBy
  <2>2. p \in Handles
    BY DEF Inv, TypeInv, TypeOK
  <2>3. LifecycleState(p) \in {"Completed", "Released"}
    BY <2>1, <2>2 DEF Shown!PrerequisitesFirst, Shown!Done
  <2> QED BY <2>2, <2>3, HandleParts DEF LifecycleState, IsOccupiedBy, Past, Inv, TypeInv, TypeOK, Statuses
<1> QED BY <1>2, <1>3, InitInv, NextInv, PTL DEF Spec
=============================================================================
