--------------------------- MODULE TaskLifecycle ---------------------------
(***************************************************************************)
(* What the task graph promises its callers, with no slots, generations,   *)
(* locks or queues: a task is launched once with a set of prerequisites,   *)
(* becomes ready when each of them has completed, runs once, and can be    *)
(* released only when it has completed.  A task here is one launch, so a   *)
(* slot that is released and launched again is a new task.                 *)
(***************************************************************************)
EXTENDS FiniteSets

CONSTANT Tasks           \* every launch the program may make

VARIABLES
  state,                 \* how far each task has come
  needs,                 \* the prerequisites its launch named
  pending                \* those its dispatch still counts as outstanding

vars == <<state, needs, pending>>

States == {"Absent", "Waiting", "Ready", "Running", "Completed", "Released"}

Done(t) == state[t] \in {"Completed", "Released"}

Init ==
  /\ state = [t \in Tasks |-> "Absent"]
  /\ needs = [t \in Tasks |-> {}]
  /\ pending = [t \in Tasks |-> {}]

\* The tasks a launch may name as prerequisites.
Launched == {t \in Tasks : state[t] # "Absent"}

\* A launch that finds all its prerequisites done creates a ready task.
LaunchReady(t) ==
  /\ state[t] = "Absent"
  /\ state' = [state EXCEPT ![t] = "Ready"]
  /\ pending' = [pending EXCEPT ![t] = {}]
  /\ \E P \in SUBSET {p \in Tasks : Done(p)} : needs' = [needs EXCEPT ![t] = P]

\* Otherwise it may skip those that are done, and waits for the others.
LaunchWaiting(t) ==
  /\ state[t] = "Absent"
  /\ state' = [state EXCEPT ![t] = "Waiting"]
  /\ \E P \in SUBSET Launched :
       /\ needs' = [needs EXCEPT ![t] = P]
       /\ \E Q \in (SUBSET P) \ {{}} :
            /\ pending' = [pending EXCEPT ![t] = Q]
            /\ \A p \in P \ Q : Done(p)

\* Prerequisite p has completed, and that fact reaches its dependant d.
Unblock(d, p) ==
  /\ state[d] = "Waiting"
  /\ Done(p)
  /\ pending' = [pending EXCEPT ![d] = @ \ {p}]
  /\ state' = [state EXCEPT ![d] = IF pending[d] = {p} THEN "Ready" ELSE @]
  /\ UNCHANGED needs

Start(t) ==
  /\ state[t] = "Ready"
  /\ state' = [state EXCEPT ![t] = "Running"]
  /\ UNCHANGED <<needs, pending>>

Finish(t) ==
  /\ state[t] = "Running"
  /\ state' = [state EXCEPT ![t] = "Completed"]
  /\ UNCHANGED <<needs, pending>>

Release(t) ==
  /\ state[t] = "Completed"
  /\ state' = [state EXCEPT ![t] = "Released"]
  /\ needs' = [needs EXCEPT ![t] = {}]
  /\ UNCHANGED pending

Next ==
  \E t \in Tasks :
    \/ LaunchReady(t)
    \/ LaunchWaiting(t)
    \/ \E p \in pending[t] : Unblock(t, p)
    \/ Start(t)
    \/ Finish(t)
    \/ Release(t)

Spec == Init /\ [][Next]_vars

-----------------------------------------------------------------------------

\* The type invariant.
TypeOK ==
  /\ state \in [Tasks -> States]
  /\ needs \in [Tasks -> SUBSET Tasks]
  /\ pending \in [Tasks -> SUBSET Tasks]

\* A task that has started was preceded by the completion of every
\* prerequisite its launch named.
PrerequisitesFirst ==
  \A t \in Tasks :
    state[t] \in {"Ready", "Running", "Completed", "Released"}
      => \A p \in needs[t] : Done(p)
=============================================================================
