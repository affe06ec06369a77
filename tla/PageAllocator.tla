--------------------------- MODULE PageAllocator ---------------------------
(***************************************************************************)
(* Page allocation and release by one schema operation at a time: the      *)
(* pageEdit of ddl.go, allocatePages, releasePages, freeChainPages,        *)
(* applyDrop and flushPages, with extendFile of ddl_grow.go.               *)
(*                                                                         *)
(* A schema operation buffers the pages it changes and writes them one at  *)
(* a time at the end; two header fields, TotalPageCount and LastUsedPageNo,*)
(* bypass the buffer and are written at once.  An operation either         *)
(* allocates (CREATE TABLE, CREATE INDEX, a growing internal file) or      *)
(* releases (DROP TABLE; DROP INDEX and a shrinking internal file through  *)
(* freeChainPages); none does both.  It may return an error before it      *)
(* flushes, and the process may die, or a write fail, between any two      *)
(* page writes.                                                            *)
(***************************************************************************)
EXTENDS PageMap

CONSTANTS
  InitialPages,  \* pages in the file at the start
  SystemPages,   \* how many of them, from page 0 up, the database itself owns
  MaxCalls,      \* bound: allocatePages calls one operation makes
  MaxRequest     \* bound: pages one allocatePages call asks for

ASSUME PageAllocatorAssumption ==
  /\ InitialPages \in Nat
  /\ InitialPages <= MappablePages
  /\ SystemPages \in 1 .. InitialPages
  /\ MaxCalls \in Nat
  /\ MaxRequest \in Nat

VARIABLES
  pageCount,  \* TotalPageCount of the file header
  lastUsed,   \* LastUsedPageNo of the file header
  pfs,        \* page 0 on disk
  eam,        \* page 1 on disk
  header,     \* each page's ABSP header on disk
  op,         \* the schema operation in progress
  stage,      \* whether it still edits its buffers or already flushes them
  calls,      \* allocatePages calls it has made
  bufPfs,     \* page 0 as buffered
  bufEam,     \* page 1 as buffered
  pending,    \* pages whose buffered header differs from the disk's
  pfsDirty, eamDirty,  \* whether page 0, page 1 is still to be written
  failed,     \* some operation returned an error, or was cut short
  torn        \* some flush was cut short

disk == <<pageCount, lastUsed, pfs, eam, header>>
buffers == <<bufPfs, bufEam, pending, pfsDirty, eamDirty>>
faults == <<failed, torn>>
vars == <<disk, op, stage, calls, buffers, faults>>

\* A page never given out, a page in use, and a page whose State is the
\* tombstone pageStateFree.
Blank == "blank"
Live == "live"
Freed == "freed"

Releasing == {"drop", "shrink"}

LivePages == {p \in Pages : header[p] = Live}

TypeOK ==
  /\ pageCount \in InitialPages .. MappablePages
  /\ lastUsed \in -1 .. pageCount - 1
  /\ pfs \subseteq 0 .. pageCount - 1
  /\ eam \in [Extents -> ExtentStates]
  /\ header \in [Pages -> {Blank, Live, Freed}]
  /\ op \in {"none", "allocate"} \cup Releasing
  /\ stage \in {"edit", "flush"}
  /\ calls \in 0 .. MaxCalls
  /\ bufPfs \subseteq 0 .. pageCount - 1
  /\ bufEam \in [Extents -> ExtentStates]
  /\ pending \subseteq 0 .. pageCount - 1
  /\ pfsDirty \in BOOLEAN
  /\ eamDirty \in BOOLEAN
  /\ failed \in BOOLEAN
  /\ torn \in BOOLEAN

Init ==
  /\ pageCount = InitialPages
  /\ lastUsed = SystemPages - 1
  /\ pfs = 0 .. SystemPages - 1
  /\ eam = [e \in Extents |-> ComputeExtentState(pfs, e, pageCount)]
  /\ header = [p \in Pages |-> IF p \in pfs THEN Live ELSE Blank]
  /\ op = "none"
  /\ stage = "edit"
  /\ calls = 0
  /\ bufPfs = pfs
  /\ bufEam = eam
  /\ pending = {}
  /\ pfsDirty = FALSE
  /\ eamDirty = FALSE
  /\ failed = FALSE
  /\ torn = FALSE

-----------------------------------------------------------------------------
(* allocatePages.                                                          *)

\* The pages are marked in both buffered maps and stamped with a live header;
\* the last used page moves on disk at once.  The payload is left as it is.
Grant(new, count) ==
  /\ op' = "allocate"
  /\ calls' = calls + 1
  /\ bufPfs' = bufPfs \cup new
  /\ bufEam' = UpdateExtentMap(bufPfs \cup new, bufEam, new, count)
  /\ pending' = pending \cup new
  /\ pfsDirty' = TRUE
  /\ eamDirty' = (eamDirty \/ bufEam' # bufEam)
  /\ lastUsed' = Max(new \cup {lastUsed})
  /\ UNCHANGED <<pfs, eam, header, stage, faults>>

\* A further allocation of the operation in progress, or the first of a new
\* one.
MayAllocate ==
  /\ op \in {"none", "allocate"}
  /\ stage = "edit"
  /\ calls < MaxCalls

\* The file already holds n free pages.
AllocatePages(n) ==
  LET new == FindFreePages(bufPfs, pageCount, n)
  IN  /\ MayAllocate
      /\ Cardinality(new) = n
      /\ Grant(new, pageCount)
      /\ UNCHANGED pageCount

\* The length extendFile asks for when n pages are wanted.
GrownCount(n) ==
  ExtendedCount(pageCount, n - Cardinality(FindFreePages(bufPfs, pageCount, n)))

\* The file is short of pages: it is lengthened, the header announces the new
\* length at once, and the search is repeated.
AllocateGrowing(n) ==
  /\ MayAllocate
  /\ Cardinality(FindFreePages(bufPfs, pageCount, n)) < n
  /\ GrownCount(n) <= MappablePages
  /\ pageCount' = GrownCount(n)
  /\ Grant(FindFreePages(bufPfs, GrownCount(n), n), GrownCount(n))

-----------------------------------------------------------------------------
(* releasePages, and the tombstoning that precedes it.                     *)

\* The two callers differ in when the last used page is written: applyDrop
\* after its flush, freeChainPages before it.
Release(kind, gone) ==
  /\ op = "none"
  /\ gone # {}
  /\ gone \subseteq LivePages \ (0 .. SystemPages - 1)
  /\ gone \subseteq bufPfs
  /\ op' = kind
  /\ bufPfs' = bufPfs \ gone
  /\ bufEam' = DowngradeExtents(bufEam, gone)
  /\ pending' = gone
  /\ pfsDirty' = TRUE
  /\ eamDirty' = (bufEam' # bufEam)
  /\ UNCHANGED <<pageCount, pfs, eam, header, stage, calls, faults>>

DropPages(gone) ==
  /\ Release("drop", gone)
  /\ UNCHANGED lastUsed

FreeChainPages(gone) ==
  /\ Release("shrink", gone)
  /\ lastUsed' = HighestAllocated(bufPfs \ gone)

-----------------------------------------------------------------------------
(* flushPages: the dirty pages in the order they were first touched.  An   *)
(* allocation touches page 0, page 1, then the new pages in ascending      *)
(* order; a release touches the pages it tombstones, then page 0, page 1.  *)

BeginFlush ==
  /\ op # "none"
  /\ stage = "edit"
  /\ stage' = "flush"
  /\ UNCHANGED <<disk, op, calls, buffers, faults>>

\* Mutants: the dirty pages are written in no particular order.
HeadersMayFlushAnytime == TRUE
MapsMayFlushAnytime == TRUE

HeadersMayFlush == op = "allocate" => ~pfsDirty /\ ~eamDirty
MapsMayFlush == op \in Releasing => pending = {}

FlushHeader ==
  /\ stage = "flush"
  /\ pending # {}
  /\ HeadersMayFlush
  /\ LET p == Min(pending)
     IN  /\ header' = [header EXCEPT ![p] = IF op = "allocate" THEN Live ELSE Freed]
         /\ pending' = pending \ {p}
  /\ UNCHANGED <<pageCount, lastUsed, pfs, eam, op, stage, calls,
                 bufPfs, bufEam, pfsDirty, eamDirty, faults>>

FlushPfs ==
  /\ stage = "flush"
  /\ pfsDirty
  /\ MapsMayFlush
  /\ pfs' = bufPfs
  /\ pfsDirty' = FALSE
  /\ UNCHANGED <<pageCount, lastUsed, eam, header, op, stage, calls,
                 bufPfs, bufEam, pending, eamDirty, faults>>

FlushEam ==
  /\ stage = "flush"
  /\ eamDirty
  /\ ~pfsDirty
  /\ MapsMayFlush
  /\ eam' = bufEam
  /\ eamDirty' = FALSE
  /\ UNCHANGED <<pageCount, lastUsed, pfs, header, op, stage, calls,
                 bufPfs, bufEam, pending, pfsDirty, faults>>

\* Every page is written.  applyDrop moves the last used page only now.
FinishEdit ==
  /\ stage = "flush"
  /\ pending = {}
  /\ ~pfsDirty
  /\ ~eamDirty
  /\ lastUsed' = IF op = "drop" THEN HighestAllocated(bufPfs) ELSE lastUsed
  /\ op' = "none"
  /\ stage' = "edit"
  /\ calls' = 0
  /\ UNCHANGED <<pageCount, pfs, eam, header, buffers, faults>>

-----------------------------------------------------------------------------
(* Failures.  The buffers are discarded; what was written stays written.   *)

DiscardBuffers ==
  /\ op' = "none"
  /\ stage' = "edit"
  /\ calls' = 0
  /\ bufPfs' = pfs
  /\ bufEam' = eam
  /\ pending' = {}
  /\ pfsDirty' = FALSE
  /\ eamDirty' = FALSE
  /\ failed' = TRUE
  /\ UNCHANGED disk

\* extendFile refuses to grow past what the maps describe (ErrDatabaseTooLarge)
\* and the operation that asked fails with it.
AllocateRefused(n) ==
  /\ MayAllocate
  /\ Cardinality(FindFreePages(bufPfs, pageCount, n)) < n
  /\ GrownCount(n) > MappablePages
  /\ DiscardBuffers
  /\ UNCHANGED torn

\* The operation returns some other error before its flush.
FailEdit ==
  /\ op # "none"
  /\ stage = "edit"
  /\ DiscardBuffers
  /\ UNCHANGED torn

\* The process dies during the flush, or a page write fails.
CutShort ==
  /\ stage = "flush"
  /\ DiscardBuffers
  /\ torn' = TRUE

Next ==
  \/ \E n \in 1 .. MaxRequest :
       AllocatePages(n) \/ AllocateGrowing(n) \/ AllocateRefused(n)
  \/ \E gone \in SUBSET LivePages : DropPages(gone) \/ FreeChainPages(gone)
  \/ BeginFlush
  \/ FlushHeader
  \/ FlushPfs
  \/ FlushEam
  \/ FinishEdit
  \/ FailEdit
  \/ CutShort

Spec == Init /\ [][Next]_vars

-----------------------------------------------------------------------------

\* The page map and the page headers are two records of the same fact, read by
\* different code: readers and ownedPages trust the header, findFreePages the
\* map.  A page whose header is live on disk is never free in the map on disk,
\* at any point of any operation and after any failure, so no allocation can
\* ever take a page some table still reads.  It rests on the order flushPages
\* writes in.
LivePagesAllocated == LivePages \subseteq pfs

\* Unless a flush was cut short, both maps describe the pages in use exactly
\* between flushes: the page map names the live pages and no others, so no page
\* leaks, and the extent map agrees with the page map, even after operations
\* that failed before their flush and after the file has grown.
MapsAgree ==
  ~torn /\ stage = "edit" =>
    /\ pfs = LivePages
    /\ ExtentMapSound(pfs, eam)

\* Between operations the header's LastUsedPageNo is the highest allocated
\* page, which is what compaction truncates the file to.
LastUsedExact ==
  ~failed /\ op = "none" => lastUsed = HighestAllocated(pfs)

\* The file grows by no more than the request needs: once the allocation that
\* lengthened it has taken its pages, less than one extent is left free.
GrowthIsMinimal ==
  [][pageCount' > pageCount =>
       Cardinality((0 .. pageCount' - 1) \ bufPfs') < PagesInExtent]_vars

\* The abstract page space: a page is reserved before anything uses it and
\* released only after its last user has retired it.
Space == INSTANCE PageSpace
           WITH Permanent <- 0 .. SystemPages - 1, used <- pfs, live <- LivePages

\* Every write of a schema operation, cut short or not, is one of the four
\* steps of the page space, or none.
ReserveBeforePublish == Space!Spec
=============================================================================
