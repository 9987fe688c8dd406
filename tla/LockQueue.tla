------------------------------ MODULE LockQueue ------------------------------
(***************************************************************************)
(* What the escalating lock promises, with no nodes, links or tag bits: a  *)
(* lock that one thread holds, and a first-in first-out queue of threads   *)
(* that sleep until they are let out to try for it again.  Whoever is      *)
(* awake may take the lock before them.                                    *)
(***************************************************************************)
EXTENDS Integers, Sequences

CONSTANTS Threads, None

VARIABLES
  holder,                \* the thread that holds the lock
  queue                  \* the threads that sleep, longest first

vars == <<holder, queue>>

Init == holder = None /\ queue = <<>>

Awake(t) == \A n \in 1 .. Len(queue) : queue[n] # t

Acquire(t) ==
  /\ holder = None
  /\ Awake(t)
  /\ holder' = t
  /\ UNCHANGED queue

Release ==
  /\ holder # None
  /\ holder' = None
  /\ UNCHANGED queue

\* Only a lock that is held is slept on.
Sleep(t) ==
  /\ holder \notin {None, t}
  /\ Awake(t)
  /\ queue' = Append(queue, t)
  /\ UNCHANGED holder

\* The thread that has slept longest is let out.
LetOut ==
  /\ queue # <<>>
  /\ queue' = Tail(queue)
  /\ UNCHANGED holder

Next ==
  \/ \E t \in Threads : Acquire(t) \/ Sleep(t)
  \/ Release
  \/ LetOut

Spec == Init /\ [][Next]_vars
=============================================================================
