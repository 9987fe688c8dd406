----------------------------- MODULE EntityMap ------------------------------
(***************************************************************************)
(* What a world promises, with no slots, free list or flags: entities that *)
(* are created, hold components of some types and are destroyed.  A handle *)
(* is a place and a generation, and is given out once.                     *)
(***************************************************************************)
EXTENDS Integers

CONSTANTS MaxEntities, MaxGeneration, Types

Handles == [index : 0 .. MaxEntities - 1, generation : 0 .. MaxGeneration]

VARIABLES
  live,                  \* the entities that are alive
  past,                  \* the handles given out so far
  held                   \* the components the entities hold

vars == <<live, past, held>>

Init == live = {} /\ past = {} /\ held = {}

\* A new entity has a handle of its own, a place of its own and no components.
Create ==
  \E h \in Handles \ past :
    /\ \A g \in live : g.index # h.index
    /\ live' = live \cup {h}
    /\ past' = past \cup {h}
    /\ UNCHANGED held

Destroy(h) ==
  /\ h \in live
  /\ live' = live \ {h}
  /\ held' = {c \in held : c.entity # h}
  /\ UNCHANGED past

Add(h, t) ==
  /\ h \in live
  /\ held' = held \cup {[entity |-> h, type |-> t]}
  /\ UNCHANGED <<live, past>>

\* A handle that has outlived its entity removes from that entity's successor.
Remove(h, t) ==
  /\ h \in past
  /\ held' = {c \in held : ~(c.entity.index = h.index /\ c.type = t)}
  /\ UNCHANGED <<live, past>>

Next ==
  \/ Create
  \/ \E h \in Handles : Destroy(h)
  \/ \E h \in Handles, t \in Types : Add(h, t) \/ Remove(h, t)

Spec == Init /\ [][Next]_vars
=============================================================================
