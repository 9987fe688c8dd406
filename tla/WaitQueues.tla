----------------------------- MODULE WaitQueues -----------------------------
(***************************************************************************)
(* What the parking lot promises its callers, with no slots, buckets or    *)
(* locks: per key a first-in first-out queue of waiting threads.  A thread *)
(* leaves it when it is the longest waiting one and is woken, or, if it    *)
(* has given up, from wherever it stands; it waits in one queue at a time. *)
(* Threads may be moved to another key's queue without being woken.        *)
(***************************************************************************)
EXTENDS Naturals, Sequences

CONSTANTS Threads, Keys

VARIABLES
  waiting,               \* per key: the threads that wait, longest first
  place                  \* per thread: out of park(), in a queue, or woken

vars == <<waiting, place>>

Init ==
  /\ waiting = [k \in Keys |-> <<>>]
  /\ place = [t \in Threads |-> "out"]

Join(t, k) ==
  /\ place[t] = "out"
  /\ waiting' = [waiting EXCEPT ![k] = Append(@, t)]
  /\ place' = [place EXCEPT ![t] = "in"]

WakeFirst(k) ==
  /\ waiting[k] # <<>>
  /\ place' = [place EXCEPT ![Head(waiting[k])] = "woken"]
  /\ waiting' = [waiting EXCEPT ![k] = Tail(@)]

\* The longest waiting thread of k waits on l instead, behind those there.
MoveFirst(k, l) ==
  /\ waiting[k] # <<>>
  /\ waiting' = [waiting EXCEPT ![k] = Tail(@), ![l] = Append(@, Head(waiting[k]))]
  /\ UNCHANGED place

\* All who wait on k wait on l instead, in their order,
MoveAll(k, l) ==
  /\ waiting[k] # <<>>
  /\ waiting' = [waiting EXCEPT ![k] = <<>>, ![l] = @ \o waiting[k]]
  /\ UNCHANGED place

\* or the longest waiting is woken and only the others move.
WakeFirstMoveRest(k, l) ==
  /\ waiting[k] # <<>>
  /\ place' = [place EXCEPT ![Head(waiting[k])] = "woken"]
  /\ waiting' = [waiting EXCEPT ![k] = <<>>, ![l] = @ \o Tail(waiting[k])]

GiveUp(t, k) ==
  /\ place[t] = "in"
  /\ \E i \in DOMAIN waiting[k] :
       /\ waiting[k][i] = t
       /\ waiting' = [waiting EXCEPT ![k] = SubSeq(@, 1, i - 1) \o SubSeq(@, i + 1, Len(@))]
  /\ place' = [place EXCEPT ![t] = "out"]

Return(t) ==
  /\ place[t] = "woken"
  /\ place' = [place EXCEPT ![t] = "out"]
  /\ UNCHANGED waiting

Next ==
  \/ \E t \in Threads, k \in Keys : Join(t, k) \/ GiveUp(t, k)
  \/ \E k \in Keys : WakeFirst(k)
  \/ \E k, l \in Keys : k # l /\ (MoveFirst(k, l) \/ MoveAll(k, l) \/ WakeFirstMoveRest(k, l))
  \/ \E t \in Threads : Return(t)

Spec == Init /\ [][Next]_vars
=============================================================================
