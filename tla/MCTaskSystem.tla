---------------------------- MODULE MCTaskSystem ----------------------------
(***************************************************************************)
(* Model-checking instances of TaskSystem: what the tasks and the main     *)
(* thread do.                                                              *)
(***************************************************************************)
EXTENDS TaskSystem

CONSTANTS A, B, C, D

launch(h) == [op |-> "launch", tasks |-> <<h>>]
wait(h) == [op |-> "wait", tasks |-> <<h>>]
waitAll(tasks) == [op |-> "waitAll", tasks |-> tasks]
runMain == [op |-> "runMain", tasks |-> <<>>]
nothing == <<>>

\* A launches B and waits for it; C needs A and launches D, which only the main
\* thread may run. The main thread waits for A, so that C and D may be left to
\* the destructor.
ForkTasks == {A, B, C, D}
ForkNeeds == [h \in ForkTasks |-> IF h = C THEN {A} ELSE {}]
ForkMainAffinity == {D}
ForkScript == [p \in ForkTasks \cup {Main} |->
  CASE p = Main -> <<launch(A), launch(C), wait(A), runMain>>
    [] p = A -> <<launch(B), wait(B)>>
    [] p = C -> <<launch(D)>>
    [] OTHER -> nothing]

\* With the same tasks: B is given A, launches its dependant C, and waits for both at once.
SpanScript == [p \in ForkTasks \cup {Main} |->
  CASE p = Main -> <<launch(A), launch(B), wait(B)>>
    [] p = B -> <<launch(C), waitAll(<<A, C>>)>>
    [] OTHER -> nothing]

ForkScripts == {ForkScript, SpanScript}

\* A prerequisite and its dependant, as in the test PrerequisiteRunsBeforeDependant.
ChainTasks == {A, B}
ChainNeeds == [h \in ChainTasks |-> IF h = B THEN {A} ELSE {}]
ChainScript == [p \in ChainTasks \cup {Main} |->
  IF p = Main THEN <<launch(A), launch(B), wait(B)>> ELSE nothing]

ChainScripts == {ChainScript}

\* D waits for the end of the chain A, B, C, whose middle becomes ready behind it.
BatchTasks == {A, B, C, D}
BatchNeeds == [h \in BatchTasks |-> IF h = B THEN {A} ELSE IF h = C THEN {B} ELSE {}]
BatchScript == [p \in BatchTasks \cup {Main} |->
  CASE p = Main -> <<launch(A), launch(B), launch(C), launch(D), wait(D)>>
    [] p = D -> <<wait(C)>>
    [] OTHER -> nothing]

BatchScripts == {BatchScript}

\* A launches B and its dependant C and waits for C while the pool is destroyed.
SpawnTasks == {A, B, C}
SpawnNeeds == [h \in SpawnTasks |-> IF h = C THEN {B} ELSE {}]
SpawnScript == [p \in SpawnTasks \cup {Main} |->
  CASE p = Main -> <<launch(A)>>
    [] p = A -> <<launch(B), launch(C), wait(C)>>
    [] OTHER -> nothing]

SpawnScripts == {SpawnScript}
=============================================================================
