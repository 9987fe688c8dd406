------------------------ MODULE TaskLifecycleProofs ------------------------
(***************************************************************************)
(* For any set of launches: in the lifecycle a task starts only after each *)
(* prerequisite named by its launch has completed.  What makes it hold is  *)
(* that a prerequisite leaves pending only when it is done, and that a     *)
(* task with something pending is still waiting.                           *)
(***************************************************************************)
EXTENDS TaskLifecycle, TLAPS

\* The prerequisites a task does not count any more are done, and a task
\* that counts one waits.
OnlyDoneIsForgotten ==
  \A t \in Tasks : state[t] # "Absent" =>
    \A p \in needs[t] : Done(p) \/ (p \in pending[t] /\ state[t] = "Waiting")

IInv == TypeOK /\ OnlyDoneIsForgotten

\* The lifecycle starts well typed with nothing launched.
LEMMA InitIInv == Init => IInv
  BY DEF Init, IInv, TypeOK, OnlyDoneIsForgotten, States

\* A task that is done stays done.
LEMMA DoneIsStable ==
  ASSUME TypeOK, [Next]_vars, NEW p \in Tasks, Done(p)
  PROVE  Done(p)'
<1>1. CASE UNCHANGED vars
  BY <1>1 DEF vars, Done
<1>2. ASSUME NEW t \in Tasks,
             \/ LaunchReady(t) \/ LaunchWaiting(t) \/ Start(t) \/ Finish(t) \/ Release(t)
             \/ \E q \in pending[t] : Unblock(t, q)
      PROVE  Done(p)'
  BY <1>2 DEF TypeOK, Done, LaunchReady, LaunchWaiting, Unblock, Start, Finish, Release
<1> QED BY <1>1, <1>2 DEF Next

\* Every step keeps the types.
LEMMA NextTypeOK == TypeOK /\ [Next]_vars => TypeOK'
<1> SUFFICES ASSUME TypeOK, [Next]_vars PROVE TypeOK'
  OBVIOUS
<1> USE DEF TypeOK, States
<1>1. CASE UNCHANGED vars
  BY <1>1 DEF vars
<1>2. ASSUME NEW t \in Tasks, LaunchReady(t) PROVE TypeOK'
  BY <1>2 DEF LaunchReady
<1>3. ASSUME NEW t \in Tasks, LaunchWaiting(t) PROVE TypeOK'
  BY <1>3 DEF LaunchWaiting, Launched
<1>4. ASSUME NEW t \in Tasks, NEW p \in pending[t], Unblock(t, p) PROVE TypeOK'
  BY <1>4 DEF Unblock
<1>5. ASSUME NEW t \in Tasks, Start(t) \/ Finish(t) \/ Release(t) PROVE TypeOK'
  BY <1>5 DEF Start, Finish, Release
<1> QED BY <1>1, <1>2, <1>3, <1>4, <1>5 DEF Next

\* Every step keeps the strengthened invariant.
LEMMA NextIInv == IInv /\ [Next]_vars => IInv'
<1> SUFFICES ASSUME IInv, [Next]_vars PROVE OnlyDoneIsForgotten'
  BY NextTypeOK DEF IInv
<1> USE DEF IInv
<1>0. \A p \in Tasks : Done(p) => Done(p)'
  BY DoneIsStable
<1>1. CASE UNCHANGED vars
  BY <1>1 DEF vars, OnlyDoneIsForgotten, Done
<1>2. ASSUME NEW t \in Tasks, LaunchReady(t) PROVE OnlyDoneIsForgotten'
  BY <1>0, <1>2 DEF LaunchReady, OnlyDoneIsForgotten, TypeOK
<1>3. ASSUME NEW t \in Tasks, LaunchWaiting(t) PROVE OnlyDoneIsForgotten'
  <2> PICK P \in SUBSET Launched : needs' = [needs EXCEPT ![t] = P]
                                   /\ \E Q \in (SUBSET P) \ {{}} :
                                        /\ pending' = [pending EXCEPT ![t] = Q]
                                        /\ \A p \in P \ Q : Done(p)
    BY <1>3 DEF LaunchWaiting
  <2> PICK Q \in (SUBSET P) \ {{}} : /\ pending' = [pending EXCEPT ![t] = Q]
                                     /\ \A p \in P \ Q : Done(p)
    OBVIOUS
  <2> QED BY <1>0, <1>3 DEF LaunchWaiting, Launched, OnlyDoneIsForgotten, TypeOK
<1>4. ASSUME NEW t \in Tasks, NEW p \in pending[t], Unblock(t, p) PROVE OnlyDoneIsForgotten'
  BY <1>0, <1>4 DEF Unblock, OnlyDoneIsForgotten, TypeOK
<1>5. ASSUME NEW t \in Tasks, Start(t) \/ Finish(t) \/ Release(t) PROVE OnlyDoneIsForgotten'
  BY <1>0, <1>5 DEF Start, Finish, Release, OnlyDoneIsForgotten, TypeOK
<1> QED BY <1>1, <1>2, <1>3, <1>4, <1>5 DEF Next

\* The lifecycle is well typed throughout.
THEOREM LifecycleTypeOK == Spec => []TypeOK
<1>1. Init => TypeOK BY InitIInv DEF IInv
<1> QED BY <1>1, NextTypeOK, PTL DEF Spec

\* A task starts only after every prerequisite of its launch has completed,
\* for any number of tasks: the order the dispatch of a task promises.
THEOREM StartsAfterPrerequisites == Spec => []PrerequisitesFirst
<1>1. IInv => PrerequisitesFirst
  BY DEF IInv, TypeOK, OnlyDoneIsForgotten, PrerequisitesFirst
<1> QED BY InitIInv, NextIInv, <1>1, PTL DEF Spec
=============================================================================
