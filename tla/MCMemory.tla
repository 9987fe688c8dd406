------------------------------ MODULE MCMemory ------------------------------
(* A behaviour exercises the segment allocator, with three segments or     *)
(* with refusals and few, the threads and their stacks, or a world of so   *)
(* few places and generations that both are used up.                       *)
EXTENDS SegmentAllocator, Threads, World

CONSTANTS t1, t2, o1, o2, position, custom

VARIABLE exercised

memoryVars == <<segmentVars, threadVars, vars, exercised>>

Host(name, segments, large, refused) ==
  [build |-> name, segments |-> segments, largePages |-> large, refusals |-> refused]

SomeHosts ==
  { Host("linux", 3, FALSE, 0), Host("macos", 2, FALSE, 1),
    Host("windows", 2, TRUE, 1), Host("lazyWindows", 1, TRUE, 1) }

\* The scan finds the first run that fits, for every bitmap of up to five bits, also
\* where a run goes over the end of a word or the last word is not whole.
ASSUME ScanIsFirstFit ==
  \A width \in 1..5, count \in 0..6 : \A bits \in SUBSET (0..(width - 1)) :
    /\ FindCachedRun(bits, width, count) = FirstFit(bits, width, count)
    /\ FindFreeRun(bits, width, count) = FirstFit((0..(width - 1)) \ bits, width, count)

\* Whatever raw address the system chooses, the reservation is aligned and whole.
ASSUME AllReservationsAreAligned ==
  \A raw \in 1..17, long \in {4, 8}, alignment \in {1, 2, 4} :
    ReservationIsAligned(raw, long, alignment)

MemoryInit ==
  /\ SegmentsInit /\ ThreadsInit /\ Init
  /\ exercised \in {"segments", "threads", "world"}
  /\ exercised # "segments" => host = CHOOSE h \in Hosts : TRUE
  /\ exercised # "threads" => threadBuild = "linux"

MemoryNext ==
  /\ UNCHANGED exercised
  /\ \/ exercised = "segments" /\ SegmentsNext /\ UNCHANGED <<threadVars, vars>>
     \/ exercised = "threads" /\ ThreadsNext /\ UNCHANGED <<segmentVars, vars>>
     \/ exercised = "world" /\ Next /\ UNCHANGED <<segmentVars, threadVars>>

MemorySpec == MemoryInit /\ [][MemoryNext]_memoryVars /\ SegmentsFairness
=============================================================================
