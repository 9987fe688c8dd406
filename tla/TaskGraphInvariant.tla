------------------------- MODULE TaskGraphInvariant -------------------------
(***************************************************************************)
(* The inductive invariant of the task graph.  The properties TaskGraph    *)
(* states are not inductive one by one: that a delivery finds its          *)
(* dependant waiting, for one, needs that the dependant knew of the edge,  *)
(* that only one thread delivers it, that no thread ran the task twice,    *)
(* and that an index is in one place, and each of these needs the others.  *)
(***************************************************************************)
EXTENDS TaskGraph

\* Threads that are inside a call have the locals that call works with.
LocalsTyped ==
  \A t \in Threads :
    /\ pc[t] # "idle" => task[t] \in Handles
    /\ pc[t] = "enqueue" => ready[t] \in Handles
    /\ pc[t] \in {"page", "construct", "attach", "blocked", "freeIndex"} => t \in Clients

\* A slot's mutex is held across steps exactly by the launch whose task it
\* holds, and exactly while that task is not dispatched.
LocksHeldByLaunches ==
  /\ \A t \in Threads : pc[t] = "attach" =>
       owner[task[t].index] = t /\ generation[task[t].index] = task[t].generation
  /\ \A i \in Indices :
       /\ owner[i] # NoThread => pc[owner[i]] = "attach" /\ task[owner[i]].index = i
       /\ owner[i] # NoThread <=> status[i] = "Created"

\* A launch's handle is the next its slot will give out.
LaunchHandleIsNext ==
  \A t \in Threads : pc[t] \in {"page", "construct"} =>
    generation[task[t].index] = task[t].generation

\* The prerequisites a launch has still to look at are live tasks.
TodoIsLive ==
  \A t \in Threads : pc[t] \in {"page", "construct", "attach"} =>
    \A p \in todo[t] : IsOccupiedBy(p) /\ status[p.index] # "Created"

\* One thread runs a running task.
RunsOnce ==
  /\ \A t \in Threads : pc[t] = "run" =>
       IsOccupiedBy(task[t]) /\ status[task[t].index] = "Running"
  /\ \A t, u \in Threads : pc[t] = "run" /\ pc[u] = "run" /\ task[t] = task[u] => t = u

\* A task that has completed, and perhaps been released since.
Past(h) ==
  \/ generation[h.index] > h.generation
  \/ generation[h.index] = h.generation /\ status[h.index] = "Completed"

\* A completion is delivered by one thread, after the task has completed, and
\* to live dependants that count it still.
DeliveriesAreOwed ==
  \A u \in Threads :
    /\ pc[u] = "enqueue" /\ ready[u] = task[u] => todo[u] = {}
    /\ Delivering(u) =>
         /\ Past(task[u])
         /\ \A v \in Threads : Delivering(v) /\ task[v] = task[u] => v = u
         /\ \A d \in todo[u] :
              /\ IsOccupiedBy(d)
              /\ status[d.index] \in {"Created", "Waiting"}
              /\ task[u] \in prerequisites[d.index]

\* A dependant a live task is to notify counts that task as outstanding.
DependantsCount ==
  \A p \in Handles :
    IsOccupiedBy(p) /\ status[p.index] # "Completed" =>
      \A d \in dependants[p.index] :
        /\ IsOccupiedBy(d)
        /\ status[d.index] \in {"Created", "Waiting"}
        /\ p \in prerequisites[d.index]

\* Latches are attached to the tasks their threads sleep on.
LatchesMatch ==
  \A i \in Indices : latch[i] # NoThread => pc[latch[i]] = "blocked" /\ task[latch[i]].index = i

\* A handle that is in the ready queue, or about to be put there, has been
\* made ready once and for all.
EntriesWereReady ==
  \A h \in Handles :
    queued[h] > 0 \/ (\E u \in Threads : pc[u] = "enqueue" /\ ready[u] = h) =>
      \/ generation[h.index] > h.generation
      \/ IsOccupiedBy(h) /\ status[h.index] \in {"Ready", "Running", "Completed"}

\* The inductive invariant.
GraphInvariant ==
  /\ TypeOK
  /\ LocalsTyped
  /\ LocksHeldByLaunches
  /\ LaunchHandleIsNext
  /\ TodoIsLive
  /\ RunsOnce
  /\ DeliveriesAreOwed
  /\ DependantsCount
  /\ LatchesMatch
  /\ EntriesWereReady
  /\ EdgesMatch
  /\ WaiterIsOwed
  /\ IndexInOnePlace
=============================================================================
