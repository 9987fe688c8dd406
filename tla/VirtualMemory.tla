--------------------------- MODULE VirtualMemory ---------------------------
(***************************************************************************)
(* What the engine asks of the operating system's virtual memory           *)
(* (core/memory/virtual_memory_*.cpp, segment_allocator_metadata_*.cpp):   *)
(* address space is reserved, pages of it are committed and given back.    *)
(*                                                                         *)
(* A page is "closed" (reserved, no memory behind it), "sealed" (given     *)
(* back lazily on Windows: committed still, without access) or "open".     *)
(* Each commit is a set of outcomes, the ones that fail half-way included. *)
(***************************************************************************)
EXTENDS Integers

(* The configurations of a build that differ in what a page goes through.  *)
Builds == {"linux", "macos", "windows", "lazyWindows"}

\* mprotect does all or nothing.
CommitOnLinux(page, range) ==
  { [ok |-> TRUE, page |-> [p \in DOMAIN page |-> IF p \in range THEN "open" ELSE page[p]]],
    [ok |-> FALSE, page |-> page] }

\* The pages are open by the time madvise is asked to account for them again.
CommitOnMacos(page, range) ==
  CommitOnLinux(page, range) \cup { [o EXCEPT !.ok = FALSE] : o \in CommitOnLinux(page, range) }

\* VirtualAlloc commits what is closed and leaves a sealed page as it is;
Allocated(page, range) ==
  [p \in DOMAIN page |-> IF p \in range /\ page[p] = "closed" THEN "open" ELSE page[p]]

\* with lazy decommits a second call opens what is sealed, or fails.
CommitOnWindows(page, range, lazily) ==
  LET allocated == Allocated(page, range)
      opened == [p \in DOMAIN page |-> IF p \in range THEN "open" ELSE page[p]]
  IN  { [ok |-> TRUE, page |-> IF lazily THEN opened ELSE allocated],
        [ok |-> FALSE, page |-> page] }
      \cup (IF lazily THEN {[ok |-> FALSE, page |-> allocated]} ELSE {})

Commit(build, page, range) ==
  CASE build = "linux" -> CommitOnLinux(page, range)
    [] build = "macos" -> CommitOnMacos(page, range)
    [] OTHER -> CommitOnWindows(page, range, build = "lazyWindows")

(* Large pages: advice on Linux, nothing more on macOS.  On Windows memory *)
(* of another kind, which can only be had where there are no pages yet.    *)
CommitLarge(build, page, range) ==
  IF build \in {"linux", "macos"} THEN CommitOnLinux(page, range)
  ELSE { o \in CommitOnWindows(page, range, FALSE) :
           o.ok => \A p \in range : page[p] = "closed" }

\* madvise and mprotect close the pages, or the program stops.
DecommitOnPosix(page, range) ==
  [p \in DOMAIN page |-> IF p \in range THEN "closed" ELSE page[p]]

\* With lazy decommits the pages are sealed, unless MEM_RESET is refused.
DecommitOnWindows(page, range, lazily, reset) ==
  LET given == IF lazily /\ reset THEN "sealed" ELSE "closed"
  IN  [p \in DOMAIN page |-> IF p \in range THEN given ELSE page[p]]

Decommit(build, page, range, reset) ==
  IF build \in {"linux", "macos"} THEN DecommitOnPosix(page, range)
  ELSE DecommitOnWindows(page, range, build = "lazyWindows", reset)

-----------------------------------------------------------------------------
(* reserveAligned on POSIX: a raw range that is longer by one alignment is *)
(* reserved, and what is before and after the aligned range unmapped.      *)
Offset(raw, alignment) == (alignment - (raw % alignment)) % alignment

ReserveAligned(raw, bytes, alignment) ==
  LET head == Offset(raw, alignment)
  IN  [base |-> raw + head, head |-> head, tail |-> (bytes + alignment) - head - bytes]

\* The aligned range is a multiple of the alignment, and with the two parts that
\* are unmapped it makes up the raw one: nothing of the reservation is lost.
ReservationIsAligned(raw, bytes, alignment) ==
  LET r == ReserveAligned(raw, bytes, alignment)
  IN  /\ r.base % alignment = 0
      /\ r.base - r.head = raw
      /\ r.head >= 0 /\ r.tail >= 0
      /\ r.base + bytes + r.tail = raw + bytes + alignment

-----------------------------------------------------------------------------
(* mapMetadata reserves a range with a guard page at each end, and then    *)
(* commits what is between them: what is left mapped, by how far it got.   *)
MapMetadataOnPosix(mmap, mprotect) ==
  IF mmap /\ mprotect THEN {"metadata"} ELSE {}

MapMetadataOnWindows(reserved, committed) ==
  IF reserved /\ committed THEN {"metadata"} ELSE {}

MapMetadata(build, first, second) ==
  IF build \in {"linux", "macos"} THEN MapMetadataOnPosix(first, second)
  ELSE MapMetadataOnWindows(first, second)
=============================================================================
