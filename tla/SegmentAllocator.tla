-------------------------- MODULE SegmentAllocator --------------------------
(***************************************************************************)
(* The segment allocator (core/memory/segment_allocator.cpp): one range of *)
(* address space cut into segments, handed out in runs.  The leading pages *)
(* of a segment are committed on demand; a freed segment keeps them for a  *)
(* while, in a cache that tick() empties as its segments grow old.         *)
(*                                                                         *)
(* The mutex makes every operation one step, but for a commit: that reads  *)
(* how many pages there are, claims them from the budget, has them         *)
(* committed and records them in steps of its own.  A run is used by the   *)
(* client it was given to.                                                 *)
(***************************************************************************)
EXTENDS VirtualMemory, FiniteSets, FiniteSetsExt

CONSTANTS
  Clients,               \* threads that allocate
  Hosts,                 \* what a behaviour may run on: see host
  PagesPerSegment,
  PagesPerLargePage,
  MaxCached, PurgeFraction, MinPurge, MaxPurge, DecayTicks,
  TickWrap,              \* 2^32: the ticks are counted modulo this
  BitsPerWord,           \* 64
  CommitBudget           \* in pages; 0 for none

ASSUME SegmentAllocatorAssumption ==
  /\ Hosts \subseteq [build : Builds, segments : Nat \ {0},
                      largePages : BOOLEAN, refusals : Nat]
  /\ IsFiniteSet(Hosts) /\ IsFiniteSet(Clients) /\ PagesPerSegment \in Nat \ {0}
  /\ PagesPerLargePage \in 1..PagesPerSegment
  /\ {MaxCached, MinPurge, MaxPurge, DecayTicks, CommitBudget} \subseteq Nat
  /\ {PurgeFraction, BitsPerWord} \subseteq Nat \ {0}
  /\ MinPurge <= MaxPurge
  /\ TickWrap \in Nat /\ DecayTicks < TickWrap

Pages == 0..(PagesPerSegment - 1)
None == -1

VARIABLES
  host,                  \* the build, the segments reserved, whether there are large
                         \* pages, and how often the system refuses: a bound
  lifetime,              \* "fresh", "up" once init succeeded, "over" after shutdown
  mapped,                \* the ranges that are mapped
  heap,                  \* what m_stateMutex guards, and the pages themselves
  bytes,                 \* m_committedBytes, in pages
  tick,                  \* m_tick
  purgeCursor,           \* m_purgeCursor
  largePages,            \* m_largePagesEnabled
  run,                   \* per client: the run it holds, [first, count]
  job,                   \* per client: the commit it is in the middle of
  refusals               \* how many are left

setup == <<host, lifetime, mapped, largePages>>
segmentVars == <<setup, heap, bytes, tick, purgeCursor, run, job, refusals>>

Up == lifetime = "up"
build == host.build
Capacity == host.segments
Segments == 0..(Capacity - 1)
NoRun == [first |-> None, count |-> 0]
NoJob == [step |-> "none"]
RunOf(r) == r.first..(r.first + r.count - 1)

\* Fresh metadata is zero.
EmptyHeap ==
  [allocated |-> {}, cached |-> {}, pinned |-> {}, cachedCount |-> 0,
   committed |-> [s \in Segments |-> 0],      \* SegmentRecord::committedPages
   lastFree |-> [s \in Segments |-> 0],       \* and lastFreeTick, kept while cached
   page |-> [s \in Segments |-> [p \in Pages |-> "closed"]]]

SegmentsInit ==
  /\ host \in Hosts
  /\ refusals = host.refusals
  /\ lifetime = "fresh"
  /\ mapped = {} /\ heap = EmptyHeap /\ bytes = 0
  /\ tick = 0 /\ purgeCursor = 0
  /\ largePages = FALSE
  /\ run = [c \in Clients |-> NoRun]
  /\ job = [c \in Clients |-> NoJob]

-----------------------------------------------------------------------------
(* findCachedRun and findFreeRun: the lowest run of count bits that are    *)
(* set (unset), found by a scan that skips a word of nothing else.         *)
ScanForRun(wanted, size, count) ==
  LET Word(i) == i..((i + BitsPerWord) - 1)
      Scan[i \in 0..(size + BitsPerWord)] == [length \in 0..count |->
        IF i >= size THEN None
        ELSE IF i % BitsPerWord = 0 /\ Word(i) \cap wanted = {}
             THEN Scan[i + BitsPerWord][0]
        ELSE IF i \notin wanted THEN Scan[i + 1][0]
        ELSE IF length + 1 = count THEN i + 1 - count
        ELSE Scan[i + 1][length + 1]]
  IN  IF count = 0 \/ count > size THEN None ELSE Scan[0][0]

\* A word of the bitmap may go on past the last segment, with bits never set.
WordsOf(size) == 0..((((size + BitsPerWord - 1) \div BitsPerWord) * BitsPerWord) - 1)

FindCachedRun(cached, size, count) == ScanForRun(cached, size, count)

FindFreeRun(allocated, size, count) == ScanForRun(WordsOf(size) \ allocated, size, count)

\* What the two look for: the first of the runs that fit.
FirstFit(wanted, size, count) ==
  LET fits == { i \in 0..(size - count) : i..(i + count - 1) \subseteq wanted }
  IN  IF count = 0 \/ fits = {} THEN None
      ELSE CHOOSE i \in fits : \A k \in fits : i <= k

-----------------------------------------------------------------------------
(* init: reserve and map, or leave nothing behind.  Neither it nor         *)
(* shutdown is safe with other threads: nobody holds a segment.            *)
InitAllocator ==
  /\ lifetime = "fresh"
  /\ \E reserved, first, second \in BOOLEAN :
       LET metadata == IF reserved THEN MapMetadata(build, first, second) ELSE {}
           refused == metadata = {}
       IN  /\ refused => refusals > 0
           /\ refusals' = IF refused THEN refusals - 1 ELSE refusals
           /\ lifetime' = IF refused THEN lifetime ELSE "up"
           /\ mapped' = IF refused THEN {} ELSE {"segments"} \cup metadata
  /\ UNCHANGED <<host, heap, bytes, tick, purgeCursor, largePages, run, job>>

\* All is given back at once: what is committed stays counted.
Shutdown ==
  /\ Up /\ \A c \in Clients : run[c] = NoRun
  /\ lifetime' = "over" /\ mapped' = {}
  /\ heap' = EmptyHeap /\ tick' = 0 /\ purgeCursor' = 0
  /\ UNCHANGED <<host, bytes, largePages, run, job, refusals>>

\* Windows gives a process the right to lock memory, or does not.
EnableLargePages ==
  /\ Up /\ host.largePages
  /\ \E granted \in BOOLEAN :
       /\ ~granted => build \in {"windows", "lazyWindows"} /\ refusals > 0
       /\ refusals' = IF granted THEN refusals ELSE refusals - 1
       /\ largePages' = granted
  /\ UNCHANGED <<host, lifetime, mapped, heap, bytes, tick, purgeCursor, run, job>>

DisableLargePages ==
  /\ largePages
  /\ largePages' = FALSE
  /\ UNCHANGED <<host, lifetime, mapped, heap, bytes, tick, purgeCursor, run, job, refusals>>

\* The lowest run of cached segments, which have pages already, else of free ones.
ChosenRun(count) ==
  LET cached == IF heap.cachedCount >= count
                THEN FindCachedRun(heap.cached, Capacity, count) ELSE None
  IN  IF cached # None THEN cached
      ELSE FindFreeRun(heap.allocated, Capacity, count)

(* A run that is handed out leaves the cache; when none is left the caller *)
(* gets nothing and the handler for that is called.                        *)
AllocSegments(c, count) ==
  /\ Up /\ run[c] = NoRun
  /\ LET first == ChosenRun(count)
         given == first..(first + count - 1)
     IN  /\ first # None
         /\ run' = [run EXCEPT ![c] = [first |-> first, count |-> count]]
         /\ heap' = [heap EXCEPT !.allocated = @ \cup given, !.cached = @ \ given,
                                 !.cachedCount = @ - Cardinality(given \cap heap.cached),
                                 !.lastFree = [s \in Segments |-> IF s \in given THEN 0 ELSE @[s]]]
  /\ UNCHANGED <<setup, bytes, tick, purgeCursor, job, refusals>>

(* purgeSegment, of each of a set: whatever is committed is given back.    *)
PurgeSegments(h, S, reset) ==
  [h EXCEPT
     !.page = [s \in Segments |->
                 IF s \in S THEN Decommit(build, @[s], 0..(h.committed[s] - 1), reset)
                 ELSE @[s]],
     !.committed = [s \in Segments |-> IF s \in S THEN 0 ELSE @[s]],
     !.lastFree = [s \in Segments |-> IF s \in S THEN 0 ELSE @[s]],
     !.pinned = @ \ S,
     !.cached = @ \ S,
     !.cachedCount = @ - Cardinality(S \cap h.cached)]

PagesOf(h, S) == SumFunctionOnSet(h.committed, S)

(* What of a run that is freed goes to the cache: the segments with pages, *)
(* in order, until it is full.                                             *)
Kept(R) ==
  LET paged == { s \in R : heap.committed[s] > 0 }
  IN  { s \in paged : heap.cachedCount + Cardinality({ o \in paged : o < s }) < MaxCached }

\* Whether MEM_RESET is granted matters on Windows alone.
Resets == IF build = "lazyWindows" THEN BOOLEAN ELSE {FALSE}

\* Mutant: what the cache has no room for is given up with its pages.
FreeSegmentsUnpurged(c) ==
  /\ run[c] # NoRun /\ job[c] = NoJob
  /\ LET freed == RunOf(run[c])
     IN  heap' = [heap EXCEPT
           !.allocated = @ \ freed, !.cached = @ \cup Kept(freed),
           !.cachedCount = @ + Cardinality(Kept(freed)),
           !.lastFree = [s \in Segments |-> IF s \in Kept(freed) THEN tick ELSE @[s]]]
  /\ run' = [run EXCEPT ![c] = NoRun]
  /\ UNCHANGED <<setup, bytes, tick, purgeCursor, job, refusals>>

\* The rest is purged at once.
FreeSegments(c) ==
  /\ run[c] # NoRun /\ job[c] = NoJob
  /\ LET freed == RunOf(run[c])
         kept == Kept(freed)
     IN  /\ \E reset \in Resets :
              heap' = [PurgeSegments(heap, freed \ kept, reset) EXCEPT
                !.allocated = @ \ freed, !.cached = @ \cup kept,
                !.cachedCount = @ + Cardinality(kept),
                !.lastFree = [s \in Segments |-> IF s \in kept THEN tick ELSE @[s]]]
         /\ bytes' = bytes - PagesOf(heap, freed \ kept)
  /\ run' = [run EXCEPT ![c] = NoRun]
  /\ UNCHANGED <<setup, tick, purgeCursor, job, refusals>>

-----------------------------------------------------------------------------
(* ensureCommittedPages, step by step: how many pages there are is read    *)
(* under the mutex, and there may be enough.                               *)
Begin(c, s, pages, large) ==
  /\ s \in RunOf(run[c]) /\ job[c] = NoJob
  /\ heap.committed[s] < pages
  /\ job' = [job EXCEPT ![c] = [step |-> "claim", segment |-> s, large |-> large,
                                from |-> heap.committed[s], to |-> pages]]
  /\ UNCHANGED <<setup, heap, bytes, tick, purgeCursor, run, refusals>>

EnsureCommittedPages(c, s, pages) == Begin(c, s, pages, FALSE)

(* ensureCommittedLargePages is for whole large pages, where the caller    *)
(* has asked for large ones alone; not enabled, it is the other.           *)
EnsureCommittedLargePages(c, s, pages) ==
  /\ largePages
  /\ pages % PagesPerLargePage = 0
  /\ (pages - heap.committed[s]) % PagesPerLargePage = 0
  /\ Begin(c, s, pages, TRUE)

Wanted(c) == job[c].to - job[c].from
Go(c, step) == job' = [job EXCEPT ![c].step = step]
EndJob(c) == job' = [job EXCEPT ![c] = NoJob]

\* Mutant: the limit is compared with what is there, not with what would be.
ClaimCommitBudgetBelow(c) ==
  /\ job[c].step = "claim"
  /\ CommitBudget = 0 \/ bytes <= CommitBudget
  /\ bytes' = bytes + Wanted(c)
  /\ Go(c, "commit")
  /\ UNCHANGED <<setup, heap, tick, purgeCursor, run, refusals>>

\* The compare and exchange is repeated until it is for what was read.
ClaimCommitBudget(c) ==
  /\ job[c].step = "claim"
  /\ CommitBudget = 0 \/ bytes + Wanted(c) <= CommitBudget
  /\ bytes' = bytes + Wanted(c)
  /\ Go(c, "commit")
  /\ UNCHANGED <<setup, heap, tick, purgeCursor, run, refusals>>

ExceedBudget(c) ==
  /\ job[c].step = "claim"
  /\ CommitBudget # 0 /\ bytes + Wanted(c) > CommitBudget
  /\ EndJob(c)
  /\ UNCHANGED <<setup, heap, bytes, tick, purgeCursor, run, refusals>>

\* Outside the mutex; when it fails the budget gets back what was claimed.
CommitMemory(c) ==
  /\ job[c].step = "commit"
  /\ LET s == job[c].segment
         range == job[c].from..(job[c].to - 1)
     IN  \E outcome \in IF job[c].large THEN CommitLarge(build, heap.page[s], range)
                        ELSE Commit(build, heap.page[s], range) :
           /\ ~outcome.ok => refusals > 0
           /\ refusals' = IF outcome.ok THEN refusals ELSE refusals - 1
           /\ heap' = [heap EXCEPT !.page[s] = outcome.page]
           /\ Go(c, IF outcome.ok THEN "record" ELSE "giveBack")
  /\ UNCHANGED <<setup, bytes, tick, purgeCursor, run>>

ReleaseCommitBudget(c) ==
  /\ job[c].step = "giveBack"
  /\ bytes' = bytes - Wanted(c)
  /\ EndJob(c)
  /\ UNCHANGED <<setup, heap, tick, purgeCursor, run, refusals>>

Recorded(c) ==
  LET s == job[c].segment
  IN  [heap EXCEPT !.committed[s] = IF @ < job[c].to THEN job[c].to ELSE @]

RecordCommit(c) ==
  /\ job[c].step = "record" /\ ~job[c].large
  /\ heap' = Recorded(c)
  /\ EndJob(c)
  /\ UNCHANGED <<setup, bytes, tick, purgeCursor, run, refusals>>

\* Windows locks large pages, so the purge sweep has to leave the segment alone.
RecordLargeCommit(c) ==
  /\ job[c].step = "record" /\ job[c].large
  /\ heap' = IF build \in {"linux", "macos"} THEN Recorded(c)
             ELSE [Recorded(c) EXCEPT !.pinned = @ \cup {job[c].segment}]
  /\ EndJob(c)
  /\ UNCHANGED <<setup, bytes, tick, purgeCursor, run, refusals>>

\* trimCommittedPagesTo keeps the first pages; locked ones cannot be parted.
TrimCommittedPagesTo(c, s, pages) ==
  /\ s \in RunOf(run[c]) /\ job[c] = NoJob
  /\ s \notin heap.pinned /\ heap.committed[s] > pages
  /\ \E reset \in Resets :
       heap' = [heap EXCEPT
         !.page[s] = Decommit(build, @, pages..(heap.committed[s] - 1), reset),
         !.committed[s] = pages]
  /\ bytes' = bytes - (heap.committed[s] - pages)
  /\ UNCHANGED <<setup, tick, purgeCursor, run, job, refusals>>

-----------------------------------------------------------------------------
\* std::clamp
PurgeBudget ==
  LET share == heap.cachedCount \div PurgeFraction
  IN  IF share < MinPurge THEN MinPurge ELSE IF share > MaxPurge THEN MaxPurge ELSE share

Age(now, s) == (now - heap.lastFree[s]) % TickWrap

(* One round of the sweep at most: from the cursor on, cached segments     *)
(* that are old enough are purged until the budget of this tick is spent.  *)
Old(now) == { s \in heap.cached \ heap.pinned : Age(now, s) >= DecayTicks }
Distance(s) == (s - purgeCursor) % Capacity
NearerThan(S, s) == Cardinality({ o \in S : Distance(o) < Distance(s) })
Swept(now) == { s \in Old(now) : NearerThan(Old(now), s) < PurgeBudget }

\* Mutant: the sweep begins at the first segment each time.
CursorAtStart(swept) == 0

\* The cursor stops behind the last, or comes round to where it was.
CursorAfter(swept) ==
  IF swept = {} \/ Cardinality(swept) < PurgeBudget THEN purgeCursor
  ELSE ((CHOOSE s \in swept : NearerThan(swept, s) = Cardinality(swept) - 1) + 1) % Capacity

\* Called by one thread every few frames.
Tick ==
  /\ Up
  /\ tick' = (tick + 1) % TickWrap
  /\ LET swept == Swept(tick')
     IN  /\ \E reset \in Resets : heap' = PurgeSegments(heap, swept, reset)
         /\ bytes' = bytes - PagesOf(heap, swept)
         /\ purgeCursor' = CursorAfter(swept)
  /\ UNCHANGED <<setup, run, job, refusals>>

-----------------------------------------------------------------------------
SegmentsNext ==
  \/ InitAllocator \/ Shutdown \/ EnableLargePages \/ DisableLargePages \/ Tick
  \/ \E c \in Clients :
       \/ \E count \in 1..Capacity : AllocSegments(c, count)
       \/ FreeSegments(c)
       \/ \E s \in Segments, pages \in 1..PagesPerSegment :
            EnsureCommittedPages(c, s, pages) \/ EnsureCommittedLargePages(c, s, pages)
       \/ ClaimCommitBudget(c) \/ ExceedBudget(c) \/ CommitMemory(c)
       \/ ReleaseCommitBudget(c) \/ RecordCommit(c) \/ RecordLargeCommit(c)
       \/ \E s \in Segments, pages \in Pages : TrimCommittedPagesTo(c, s, pages)

\* One thread calls tick every so often.
SegmentsFairness == WF_segmentVars(Tick)
SegmentsSpec == SegmentsInit /\ [][SegmentsNext]_segmentVars /\ SegmentsFairness

-----------------------------------------------------------------------------
\* What a client has claimed from the budget and not yet recorded or given back.
InFlight ==
  [c \in Clients |-> IF job[c].step \in {"commit", "record", "giveBack"} THEN Wanted(c) ELSE 0]

(* The count of committed bytes is that of the pages recorded and of those *)
(* being committed, and within the budget: claims, refusals, trims and     *)
(* purges by several threads neither lose nor invent a page.               *)
BudgetIsExact == Up =>
  /\ bytes = PagesOf(heap, Segments) + SumFunction(InFlight)
  /\ CommitBudget # 0 => bytes <= CommitBudget

(* A segment is either in a client's run, in the cache or without pages:   *)
(* no two runs meet, no page is left where neither its owner nor the sweep *)
(* will find it, and the count of the cache is right and within its limit. *)
(* Every page recorded as committed can be read and written, on each       *)
(* platform.  An allocator that is not up has nothing mapped: an init that *)
(* failed leaves nothing behind.                                           *)
EverySegmentHasItsPlace ==
  /\ mapped = IF Up THEN {"segments", "metadata"} ELSE {}
  /\ heap.allocated = UNION { RunOf(run[c]) : c \in Clients }
  /\ \A c, d \in Clients : c # d => RunOf(run[c]) \cap RunOf(run[d]) = {}
  /\ heap.cached = { s \in Segments \ heap.allocated : heap.committed[s] > 0 }
  /\ heap.cachedCount = Cardinality(heap.cached) /\ heap.cachedCount <= MaxCached
  /\ \A s \in Segments : \A p \in Pages : p < heap.committed[s] => heap.page[s][p] = "open"

(* An unpinned segment in the cache is purged, or handed out, in the end:  *)
(* whatever else is freed, and though the age of a segment starts again    *)
(* when the count of ticks wraps round.                                    *)
CachedPagesAreReturned ==
  \A s \in UNION { 0..(h.segments - 1) : h \in Hosts } :
    s \in heap.cached \ heap.pinned ~> s \notin heap.cached
=============================================================================
