------------------------------- MODULE World --------------------------------
(***************************************************************************)
(* The world (engine/src/world/world.cpp, include/trivial/world/world.h)   *)
(* and its component stores (include/trivial/ecs/component_store.h): an    *)
(* array of entity slots whose generations tell a new entity from the one  *)
(* that had its place before, a stack of places to use again, and for each *)
(* type of component an array of flags that is as long as it had to be.    *)
(*                                                                         *)
(* A step is a call.  A call that finds its entity dead, and create() when *)
(* every place is in use, change nothing.  A store of a type nobody has    *)
(* added yet is one of length 0.  What the components say is left out.     *)
(***************************************************************************)
EXTENDS Integers, Sequences, FiniteSets

CONSTANTS
  MaxEntities,      \* TRIVIAL_ECS_ENTITY_INVALID_INDEX: the indices are those below
  MaxGeneration,    \* TRIVIAL_ECS_ENTITY_MAX_GENERATION
  Types             \* of components

ASSUME WorldAssumption ==
  /\ MaxEntities \in Nat
  /\ MaxGeneration \in Nat

Indices == 0 .. MaxEntities - 1
Handles == [index : Indices, generation : 0 .. MaxGeneration]

VARIABLES
  size,             \* m_entities.size()
  generation,       \* per index
  alive,            \* per index
  freeIndices,      \* m_freeIndices
  aliveCount,       \* m_aliveCount
  length,           \* per type: m_active.size() of its store
  active            \* per type: the indices whose flag is set

slots == <<size, generation, alive, freeIndices, aliveCount>>
stores == <<length, active>>
vars == <<slots, stores>>

-----------------------------------------------------------------------------

Init ==
  /\ size = 0
  /\ generation = [i \in Indices |-> 0]
  /\ alive = [i \in Indices |-> FALSE]
  /\ freeIndices = <<>>
  /\ aliveCount = 0
  /\ length = [t \in Types |-> 0]
  /\ active = [t \in Types |-> {}]

\* World::alive
Alive(h) ==
  /\ h.index < size
  /\ alive[h.index]
  /\ generation[h.index] = h.generation

\* The handles that create() has returned so far: a place on the free list has
\* a generation nobody has seen yet.
Given(h) ==
  /\ h.index < size
  /\ \/ h.generation < generation[h.index]
     \/ /\ h.generation = generation[h.index]
        /\ \A n \in 1 .. Len(freeIndices) : freeIndices[n] # h.index

\* Mutant: the entity that comes back is not counted.
CreateReusedUncounted ==
  /\ freeIndices # <<>>
  /\ alive' = [alive EXCEPT ![freeIndices[Len(freeIndices)]] = TRUE]
  /\ freeIndices' = SubSeq(freeIndices, 1, Len(freeIndices) - 1)
  /\ UNCHANGED <<size, generation, aliveCount, stores>>

\* create() takes the place that became free last ...
CreateReused ==
  /\ freeIndices # <<>>
  /\ alive' = [alive EXCEPT ![freeIndices[Len(freeIndices)]] = TRUE]
  /\ freeIndices' = SubSeq(freeIndices, 1, Len(freeIndices) - 1)
  /\ aliveCount' = aliveCount + 1
  /\ UNCHANGED <<size, generation, stores>>

\* ... and a new one when there is none, as long as there are indices.
CreateNew ==
  /\ freeIndices = <<>>
  /\ size < MaxEntities
  /\ size' = size + 1
  /\ generation' = [generation EXCEPT ![size] = 0]
  /\ alive' = [alive EXCEPT ![size] = TRUE]
  /\ aliveCount' = aliveCount + 1
  /\ UNCHANGED <<freeIndices, stores>>

\* Mutant: the generation wraps round.
DestroyWrapping(h) ==
  /\ Alive(h)
  /\ active' = [t \in Types |-> active[t] \ {h.index}]
  /\ alive' = [alive EXCEPT ![h.index] = FALSE]
  /\ aliveCount' = aliveCount - 1
  /\ generation' = [generation EXCEPT ![h.index] = (@ + 1) % (MaxGeneration + 1)]
  /\ freeIndices' = Append(freeIndices, h.index)
  /\ UNCHANGED <<size, length>>

\* A destroyed entity leaves every store; its place is used again unless its
\* generations are used up.
Destroy(h) ==
  /\ Alive(h)
  /\ active' = [t \in Types |-> active[t] \ {h.index}]
  /\ alive' = [alive EXCEPT ![h.index] = FALSE]
  /\ aliveCount' = aliveCount - 1
  /\ IF generation[h.index] = MaxGeneration
     THEN UNCHANGED <<generation, freeIndices>>
     ELSE /\ generation' = [generation EXCEPT ![h.index] = @ + 1]
          /\ freeIndices' = Append(freeIndices, h.index)
  /\ UNCHANGED <<size, length>>

\* A store grows up to the index it is used with, all flags in between unset.
EnsureCapacity(t, i) == length' = [length EXCEPT ![t] = IF i < @ THEN @ ELSE i + 1]

Add(h, t) ==
  /\ Alive(h)
  /\ EnsureCapacity(t, h.index)
  /\ active' = [active EXCEPT ![t] = @ \cup {h.index}]
  /\ UNCHANGED slots

\* World::remove asks for nothing but the index, alive or not.
Remove(h, t) ==
  /\ Given(h)
  /\ h.index < length[t]
  /\ active' = [active EXCEPT ![t] = @ \ {h.index}]
  /\ UNCHANGED <<slots, length>>

Next ==
  \/ CreateReused
  \/ CreateNew
  \/ \E h \in Handles : Destroy(h)
  \/ \E h \in Handles, t \in Types : Add(h, t) \/ Remove(h, t)

Spec == Init /\ [][Next]_vars

-----------------------------------------------------------------------------
(* Properties.                                                             *)

\* The type invariant: also, no store says anything about an index behind its end.
TypeOK ==
  /\ size \in 0 .. MaxEntities
  /\ generation \in [Indices -> 0 .. MaxGeneration]
  /\ alive \in [Indices -> BOOLEAN]
  /\ freeIndices \in Seq(Indices)
  /\ aliveCount \in 0 .. MaxEntities
  /\ length \in [Types -> 0 .. MaxEntities]
  /\ active \in [Types -> SUBSET Indices]
  /\ \A t \in Types : \A i \in active[t] : i < length[t]

Free(i) == \E n \in 1 .. Len(freeIndices) : freeIndices[n] = i

\* Through any creations and destructions a place is in use, or on the free
\* list once, or used up for ever, and the count is that of the places in use.
PlacesAreAccounted ==
  /\ \A m, n \in 1 .. Len(freeIndices) : freeIndices[m] = freeIndices[n] => m = n
  /\ \A i \in Indices :
       /\ alive[i] \/ Free(i) => i < size
       /\ ~ (alive[i] /\ Free(i))
       /\ i < size /\ ~ alive[i] /\ ~ Free(i) => generation[i] = MaxGeneration
  /\ aliveCount = Cardinality({i \in Indices : alive[i]})

\* A flag is only set for an entity that is alive, so that the next entity in
\* its place starts without components.
DeadPlacesAreEmpty == \A t \in Types : \A i \in active[t] : alive[i]

Promised == INSTANCE EntityMap WITH
  live <- {h \in Handles : Alive(h)},
  past <- {h \in Handles : Given(h)},
  held <- {c \in [entity : Handles, type : Types] : Alive(c.entity) /\ c.entity.index \in active[c.type]}

\* No handle is given out twice, a new entity has no components, and what one
\* entity holds is not changed by calls for another, whatever places they use
\* one after the other; only a removal through a handle that has outlived its
\* entity reaches the entity that has its place.
ImplementsEntityMap == Promised!Spec
=============================================================================
