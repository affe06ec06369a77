------------------------ MODULE PageAllocatorProofs ------------------------
(***************************************************************************)
(* Proofs about PageAllocator, for every number of pages and extents, any  *)
(* number of operations and every point at which one may be cut short.     *)
(***************************************************************************)
EXTENDS PageAllocator, Extrema, FiniteSetTheorems

-----------------------------------------------------------------------------
(* The operators of PageMap.                                               *)

\* The pages ExtentPages(e) lists are the ones ExtentOf sends to e.
LEMMA ExtentOfItsPages ==
  ASSUME NEW e \in Int, NEW p \in ExtentPages(e)
  PROVE  p \in Int /\ ExtentOf(p) = e
<1>1. PICK i \in 0 .. PagesInExtent - 1 : p = e * PagesInExtent + i
  BY DEF ExtentPages
<1>2. (e * PagesInExtent + i) \div PagesInExtent = e
  BY PageMapAssumption
<1>3. QED
  BY <1>1, <1>2, PageMapAssumption DEF ExtentOf

\* Conversely, every page is one of the pages of its extent.
LEMMA PagesOfTheirExtent ==
  ASSUME NEW p \in Pages
  PROVE  p \in ExtentPages(ExtentOf(p))
<1>1. PagesInExtent \in Nat \ {0} /\ p \in Nat
  BY PageMapAssumption DEF Pages
<1>2. p = (p \div PagesInExtent) * PagesInExtent + (p % PagesInExtent)
  BY <1>1
<1>3. p % PagesInExtent \in 0 .. PagesInExtent - 1
  BY <1>1
<1>4. QED
  BY <1>2, <1>3 DEF ExtentPages, ExtentOf

\* So an extent no given page falls into holds none of the given pages.
LEMMA UntouchedExtent ==
  ASSUME NEW S, NEW e \in Extents, e \notin TouchedExtents(S)
  PROVE  ExtentPages(e) \cap S = {}
<1>1. e \in Int
  BY PageMapAssumption DEF Extents, ExtentOf, Pages
<1>2. QED
  BY <1>1, ExtentOfItsPages DEF TouchedExtents

\* An extent is never empty, so it is not at once full and free.
LEMMA ExtentHasPages ==
  ASSUME NEW e \in Extents
  PROVE  ExtentPages(e) # {}
<1>1. 0 \in 0 .. PagesInExtent - 1
  BY PageMapAssumption
<1>2. QED
  BY <1>1 DEF ExtentPages

\* A state computed from the page map says what ExtentMapSound asks of it.
LEMMA ComputedStateSound ==
  ASSUME NEW count \in Nat, NEW used, used \subseteq 0 .. count - 1,
         NEW e \in Extents
  PROVE  LET state == ComputeExtentState(used, e, count)
         IN  /\ state \in ExtentStates
             /\ state = Full <=> ExtentPages(e) \subseteq used
             /\ state = Free => ExtentPages(e) \cap used = {}
<1> DEFINE allocated == {p \in ExtentPages(e) : p < count /\ p \in used}
<1>1. allocated = ExtentPages(e) \cap used
  <2>1. \A p \in used : p < count
    OBVIOUS
  <2>2. QED
    BY <2>1
<1>2. QED
  BY <1>1, ExtentHasPages DEF ComputeExtentState, ExtentStates, Free, Partial, Full

\* Recomputing the touched extents after an allocation keeps the extent map
\* sound, and it remains a map of the same extents.
LEMMA UpdateKeepsSound ==
  ASSUME NEW used, NEW new, NEW count \in Nat,
         used \cup new \subseteq 0 .. count - 1,
         NEW map \in [Extents -> ExtentStates]
  PROVE  LET after == UpdateExtentMap(used \cup new, map, new, count)
         IN  /\ after \in [Extents -> ExtentStates]
             /\ ExtentMapSound(used, map) => ExtentMapSound(used \cup new, after)
<1> DEFINE after == UpdateExtentMap(used \cup new, map, new, count)
<1>1. \A e \in Extents : ComputeExtentState(used \cup new, e, count) \in ExtentStates
  BY DEF ComputeExtentState, ExtentStates
<1>2. after \in [Extents -> ExtentStates]
  BY <1>1 DEF UpdateExtentMap
<1>3. ASSUME ExtentMapSound(used, map), NEW e \in Extents
      PROVE  /\ after[e] = Full <=> ExtentPages(e) \subseteq used \cup new
             /\ after[e] = Free => ExtentPages(e) \cap (used \cup new) = {}
  <2>1. CASE e \in TouchedExtents(new)
    <3>1. after[e] = ComputeExtentState(used \cup new, e, count)
      BY <2>1 DEF UpdateExtentMap
    <3>2. QED
      BY <3>1, ComputedStateSound
  <2>2. CASE e \notin TouchedExtents(new)
    <3>1. after[e] = map[e]
      BY <2>2 DEF UpdateExtentMap
    <3>2. ExtentPages(e) \cap new = {}
      BY <2>2, UntouchedExtent
    <3>3. /\ map[e] = Full <=> ExtentPages(e) \subseteq used
          /\ map[e] = Free => ExtentPages(e) \cap used = {}
      BY <1>3 DEF ExtentMapSound
    <3>4. QED
      BY <3>1, <3>2, <3>3
  <2>3. QED
    BY <2>1, <2>2
<1>4. DOMAIN after = Extents
  BY DEF UpdateExtentMap
<1>5. QED
  BY <1>2, <1>3, <1>4 DEF ExtentMapSound

\* So does downgrading the full extents a release touches.
LEMMA DowngradeKeepsSound ==
  ASSUME NEW used, NEW gone, gone \subseteq used \cap Pages,
         NEW map \in [Extents -> ExtentStates]
  PROVE  LET after == DowngradeExtents(map, gone)
         IN  /\ after \in [Extents -> ExtentStates]
             /\ ExtentMapSound(used, map) => ExtentMapSound(used \ gone, after)
<1> DEFINE after == DowngradeExtents(map, gone)
<1>1. after \in [Extents -> ExtentStates]
  BY DEF DowngradeExtents, ExtentStates
<1>2. ASSUME ExtentMapSound(used, map), NEW e \in Extents
      PROVE  /\ after[e] = Full <=> ExtentPages(e) \subseteq used \ gone
             /\ after[e] = Free => ExtentPages(e) \cap (used \ gone) = {}
  <2>1. /\ map[e] = Full <=> ExtentPages(e) \subseteq used
        /\ map[e] = Free => ExtentPages(e) \cap used = {}
    BY <1>2 DEF ExtentMapSound
  <2>2. CASE e \in TouchedExtents(gone)
    <3>1. ~ (ExtentPages(e) \subseteq used \ gone)
      <4>1. PICK p \in gone : e = ExtentOf(p)
        BY <2>2 DEF TouchedExtents
      <4>2. p \in ExtentPages(e)
        BY <4>1, PagesOfTheirExtent
      <4>3. QED
        BY <4>1, <4>2
    <3>2. after[e] # Full /\ (after[e] = Free => map[e] = Free)
      BY <2>2 DEF DowngradeExtents, Free, Partial, Full
    <3>3. QED
      BY <2>1, <3>1, <3>2
  <2>3. CASE e \notin TouchedExtents(gone)
    <3>1. after[e] = map[e]
      BY <2>3 DEF DowngradeExtents
    <3>2. ExtentPages(e) \cap gone = {}
      BY <2>3, UntouchedExtent
    <3>3. QED
      BY <2>1, <3>1, <3>2
  <2>4. QED
    BY <2>2, <2>3
<1>3. DOMAIN after = Extents
  BY DEF DowngradeExtents
<1>4. QED
  BY <1>1, <1>2, <1>3 DEF ExtentMapSound

\* Growing the file lengthens it.
LEMMA ExtendedCountType ==
  ASSUME NEW count \in Nat, NEW shortfall \in Nat \ {0}
  PROVE  ExtendedCount(count, shortfall) \in Nat
         /\ ExtendedCount(count, shortfall) > count
<1> DEFINE extents == (shortfall + PagesInExtent - 1) \div PagesInExtent
<1>1. PagesInExtent \in Nat \ {0}
  BY PageMapAssumption
<1>2. extents \in Nat /\ extents >= 1
  BY <1>1
<1>3. extents * PagesInExtent \in Nat /\ extents * PagesInExtent >= 1
  <2> HIDE DEF extents
  <2> QED BY <1>1, <1>2
<1>4. QED
  <2> DEFINE more == extents * PagesInExtent
  <2>1. ExtendedCount(count, shortfall) = count + more
    BY DEF ExtendedCount
  <2>2. more \in Nat /\ more >= 1
    BY <1>3
  <2> HIDE DEF more
  <2>3. QED
    BY <2>1, <2>2

USE PageMapAssumption, PageAllocatorAssumption

-----------------------------------------------------------------------------
(* The inductive invariant: what the buffers are to the disk.              *)

IdleHasNothingBuffered ==
  op = "none" => /\ stage = "edit"
                 /\ bufPfs = pfs
                 /\ bufEam = eam
                 /\ pending = {}
                 /\ ~pfsDirty
                 /\ ~eamDirty

\* While pages are being allocated the buffered map only adds to the disk's,
\* and the pages whose header is still to be written are not live yet.
AllocationAddsPages ==
  op = "allocate" => /\ pfs \subseteq bufPfs
                     /\ pending \subseteq bufPfs
                     /\ pending \cap LivePages = {}

\* While pages are being released the buffered map only takes pages away, and
\* what is live and no longer in it is about to be tombstoned.
ReleaseRemovesPages ==
  op \in Releasing => /\ bufPfs \subseteq pfs
                      /\ LivePages \subseteq bufPfs \cup pending
                      /\ pending \subseteq LivePages
                      /\ pending \cap (bufPfs \cup 0 .. SystemPages - 1) = {}

CleanBuffersAreWritten ==
  /\ ~pfsDirty => pfs = bufPfs
  /\ ~eamDirty => eam = bufEam

SystemPagesStay == 0 .. SystemPages - 1 \subseteq LivePages \cap bufPfs

IInv ==
  /\ TypeOK
  /\ IdleHasNothingBuffered
  /\ AllocationAddsPages
  /\ ReleaseRemovesPages
  /\ CleanBuffersAreWritten
  /\ SystemPagesStay
  /\ LivePagesAllocated

\* What the buffered map says of the headers, and the extent map of the page
\* map, as long as no flush was cut short.
BuffersDescribePages ==
  ~torn => /\ ExtentMapSound(bufPfs, bufEam)
           /\ op = "allocate" => bufPfs = LivePages \cup pending
           /\ op \in Releasing => bufPfs = LivePages \ pending

\* Every operation but DROP TABLE moves the last used page with its buffers.
LastUsedFollowsBuffer ==
  ~failed /\ op # "drop" => lastUsed = HighestAllocated(bufPfs)

-----------------------------------------------------------------------------

\* findFreePages returns pages of the file whose bit is clear.
LEMMA FreePagesAreFree ==
  ASSUME NEW used, NEW count, NEW n
  PROVE  /\ FindFreePages(used, count, n) \subseteq 0 .. count - 1
         /\ FindFreePages(used, count, n) \cap used = {}
BY DEF FindFreePages

\* Growing is asked for only when pages are missing, so it lengthens the file.
LEMMA GrowthLengthens ==
  ASSUME TypeOK, NEW n \in 1 .. MaxRequest,
         Cardinality(FindFreePages(bufPfs, pageCount, n)) < n
  PROVE  GrownCount(n) \in Nat /\ GrownCount(n) > pageCount
<1> DEFINE found == FindFreePages(bufPfs, pageCount, n)
<1>1. pageCount \in Nat /\ n \in Nat
  BY DEF TypeOK
<1>2. Cardinality(found) \in Nat
  <2>1. IsFiniteSet(0 .. pageCount - 1)
    BY <1>1, FS_Interval
  <2>2. found \subseteq 0 .. pageCount - 1
    BY FreePagesAreFree
  <2>3. QED
    BY <2>1, <2>2, FS_Subset, FS_CardinalityType
<1>3. n - Cardinality(found) \in Nat \ {0}
  <2> HIDE DEF found
  <2>1. Cardinality(FindFreePages(bufPfs, pageCount, n)) < n
    OBVIOUS
  <2>2. QED
    BY <1>1, <1>2, <2>1 DEF found
<1>4. QED
  BY <1>1, <1>3, ExtendedCountType DEF GrownCount

\* The last used page written for a set of allocated pages is one of the
\* file's pages, or -1.
LEMMA HighestAllocatedType ==
  ASSUME NEW count \in Nat, NEW used, used \subseteq 0 .. count - 1
  PROVE  /\ HighestAllocated(used) \in -1 .. count - 1
         /\ HighestAllocated(used) \in used \cup {-1}
         /\ \A p \in used \cup {-1} : p <= HighestAllocated(used)
<1> DEFINE S == used \cup {-1}
<1>1. S \subseteq Int /\ S # {} /\ count - 1 \in Int /\ \A x \in S : x <= count - 1
  OBVIOUS
<1>2. Max(S) \in S /\ \A y \in S : y <= Max(S)
  <2> HIDE DEF S
  <2>1. QED
    BY <1>1, MaxOfBounded
<1>3. HighestAllocated(used) = Max(S)
  BY DEF HighestAllocated
<1>4. S \subseteq -1 .. count - 1
  OBVIOUS
<1>5. QED
  BY <1>2, <1>3, <1>4

\* Moving the last used page to the highest page just granted keeps it below
\* the end of the file.
LEMMA HighestAfterGrant ==
  ASSUME NEW count \in Nat,
         NEW new \in SUBSET (0 .. count - 1), NEW last \in -1 .. count - 1
  PROVE  Max(new \cup {last}) \in -1 .. count - 1
<1> DEFINE S == new \cup {last}
<1>1. S \subseteq Int /\ S # {} /\ count - 1 \in Int /\ \A x \in S : x <= count - 1
  OBVIOUS
<1>2. S \subseteq -1 .. count - 1
  OBVIOUS
<1> HIDE DEF S
<1>3. Max(S) \in S
  BY <1>1, MaxOfBounded
<1>4. Max(S) \in -1 .. count - 1
  BY <1>2, <1>3
<1>5. QED
  BY <1>4 DEF S

\* Where it was the highest page of the buffered map, it still is.
LEMMA HighestOfGrant ==
  ASSUME NEW count \in Nat,
         NEW used \in SUBSET (0 .. count - 1), NEW new \in SUBSET (0 .. count - 1)
  PROVE  Max(new \cup {HighestAllocated(used)}) = HighestAllocated(used \cup new)
<1> DEFINE last == HighestAllocated(used)
           S == new \cup {last}
           top == Max(S)
           high == HighestAllocated(used \cup new)
<1>1. /\ last \in -1 .. count - 1
      /\ last \in used \cup {-1}
      /\ \A p \in used \cup {-1} : p <= last
  BY HighestAllocatedType
<1>2. /\ high \in used \cup new \cup {-1}
      /\ \A p \in used \cup new \cup {-1} : p <= high
  <2>1. used \cup new \in SUBSET (0 .. count - 1)
    OBVIOUS
  <2>2. QED
    BY <2>1, HighestAllocatedType
<1> HIDE DEF last, high
<1>3. S \subseteq Int /\ S # {} /\ count - 1 \in Int /\ \A x \in S : x <= count - 1
  BY <1>1
<1>4. top \in new \cup {last} /\ \A y \in new \cup {last} : y <= top
  <2> HIDE DEF S
  <2>1. Max(S) \in S /\ \A y \in S : y <= Max(S)
    BY <1>3, MaxOfBounded
  <2>2. QED
    BY <2>1 DEF S
<1> HIDE DEF top
<1>5. top <= high
  BY <1>1, <1>2, <1>4
<1>6. high <= top
  <2>1. CASE high \in new
    BY <1>4, <2>1
  <2>2. CASE high \in used \cup {-1}
    <3>1. high <= last /\ last <= top
      BY <1>1, <1>4, <2>2
    <3>2. QED
      BY <1>1, <1>2, <1>4, <3>1
  <2>3. QED
    BY <1>2, <2>1, <2>2
<1>7. top \in Int /\ high \in Int
  BY <1>1, <1>2, <1>4
<1>8. QED
  BY <1>5, <1>6, <1>7 DEF top, high, last

-----------------------------------------------------------------------------
(* IInv is an invariant.                                                   *)

\* It holds of a database file nobody is changing.
LEMMA InitIInv == Init => IInv
<1> SUFFICES ASSUME Init PROVE IInv
  OBVIOUS
<1>1. pfs \subseteq 0 .. pageCount - 1 /\ pageCount \in Nat
  BY DEF Init
<1>2. eam \in [Extents -> ExtentStates]
  <2>1. \A e \in Extents : ComputeExtentState(pfs, e, pageCount) \in ExtentStates
    BY DEF ComputeExtentState, ExtentStates
  <2>2. QED
    BY <2>1 DEF Init
<1>3. lastUsed \in -1 .. pageCount - 1 /\ pageCount \in InitialPages .. MappablePages
  BY DEF Init
<1>4. TypeOK
  <2>1. header \in [Pages -> {Blank, Live, Freed}]
    BY DEF Init
  <2>2. /\ op \in {"none", "allocate"} \cup Releasing
        /\ stage \in {"edit", "flush"}
        /\ calls \in 0 .. MaxCalls
        /\ pfsDirty \in BOOLEAN /\ eamDirty \in BOOLEAN
        /\ failed \in BOOLEAN /\ torn \in BOOLEAN
    <3>1. 0 \in 0 .. MaxCalls
      OBVIOUS
    <3>2. QED
      BY <3>1 DEF Init
  <2>3. /\ bufPfs \subseteq 0 .. pageCount - 1
        /\ bufEam \in [Extents -> ExtentStates]
        /\ pending \subseteq 0 .. pageCount - 1
    BY <1>1, <1>2 DEF Init
  <2>4. QED
    BY <1>1, <1>2, <1>3, <2>1, <2>2, <2>3 DEF TypeOK
<1>5. LivePages = pfs
  BY <1>1 DEF Init, LivePages, Pages, Live, Blank
<1>6. QED
  BY <1>4, <1>5
  DEF Init, IInv, IdleHasNothingBuffered, AllocationAddsPages, ReleaseRemovesPages,
      CleanBuffersAreWritten, SystemPagesStay, LivePagesAllocated, Releasing

\* Granting free pages, whether or not the file had to grow for them.
LEMMA GrantIInv ==
  ASSUME IInv, NEW new, NEW count \in Nat, pageCount <= count, count <= MappablePages,
         new \subseteq 0 .. count - 1, new \cap bufPfs = {},
         MayAllocate, Grant(new, count), pageCount' = count
  PROVE  IInv'
<1> USE DEF Grant, MayAllocate, disk, faults
<1>1. bufPfs \cup new \subseteq 0 .. count - 1
  BY DEF IInv, TypeOK
<1>2. TypeOK'
  <2>1. lastUsed' \in -1 .. count - 1
    <3>1. /\ bufPfs \in SUBSET (0 .. count - 1)
          /\ new \in SUBSET (0 .. count - 1)
          /\ lastUsed \in -1 .. count - 1
      BY <1>1 DEF IInv, TypeOK
    <3>2. QED
      BY <3>1, HighestAfterGrant
  <2>2. bufEam' \in [Extents -> ExtentStates]
    BY <1>1, UpdateKeepsSound DEF IInv, TypeOK
  <2>3. pending' \subseteq 0 .. count - 1 /\ pfs' \subseteq 0 .. count - 1
    BY DEF IInv, TypeOK
  <2>4. calls' \in 0 .. MaxCalls
    BY DEF IInv, TypeOK
  <2>5. pfsDirty' \in BOOLEAN /\ eamDirty' \in BOOLEAN
    OBVIOUS
  <2>6. op' \in {"none", "allocate"} \cup Releasing
    OBVIOUS
  <2>7. count \in InitialPages .. MappablePages
    BY DEF IInv, TypeOK
  <2>8. QED
    BY <1>1, <2>1, <2>2, <2>3, <2>4, <2>5, <2>6, <2>7 DEF IInv, TypeOK
<1>3. LivePages' = LivePages
  BY DEF LivePages
<1>4. pending \subseteq bufPfs /\ pfs \subseteq bufPfs /\ pending \cap LivePages = {}
  BY DEF IInv, IdleHasNothingBuffered, AllocationAddsPages
<1>5. LivePages \subseteq pfs
  BY DEF IInv, LivePagesAllocated
<1>6. AllocationAddsPages'
  BY <1>3, <1>4, <1>5 DEF AllocationAddsPages
<1>7. CleanBuffersAreWritten'
  BY DEF IInv, CleanBuffersAreWritten
<1>8. SystemPagesStay' /\ LivePagesAllocated'
  BY <1>3 DEF IInv, SystemPagesStay, LivePagesAllocated
<1>9. IdleHasNothingBuffered' /\ ReleaseRemovesPages'
  BY DEF IdleHasNothingBuffered, ReleaseRemovesPages, Releasing
<1>10. QED
  BY <1>2, <1>6, <1>7, <1>8, <1>9 DEF IInv

\* Starting a release.
LEMMA ReleaseIInv ==
  ASSUME IInv, NEW gone, NEW kind \in Releasing, Release(kind, gone),
         \/ UNCHANGED lastUsed
         \/ lastUsed' = HighestAllocated(bufPfs \ gone)
  PROVE  IInv'
<1> USE DEF Release, faults
<1>1. gone \subseteq pfs \cap Pages /\ bufPfs = pfs /\ eam = bufEam /\ ~eamDirty
  BY DEF IInv, IdleHasNothingBuffered, LivePages
<1>2. TypeOK'
  <2>1. lastUsed' \in -1 .. pageCount - 1
    <3>1. pageCount \in Nat /\ bufPfs \ gone \subseteq 0 .. pageCount - 1
      BY DEF IInv, TypeOK
    <3>2. QED
      BY <3>1, HighestAllocatedType DEF IInv, TypeOK
  <2>2. bufEam' \in [Extents -> ExtentStates]
    BY <1>1, DowngradeKeepsSound DEF IInv, TypeOK
  <2>3. pending' \subseteq 0 .. pageCount - 1 /\ bufPfs' \subseteq 0 .. pageCount - 1
    BY <1>1 DEF IInv, TypeOK
  <2>4. pfsDirty' \in BOOLEAN /\ eamDirty' \in BOOLEAN
    OBVIOUS
  <2>5. QED
    BY <2>1, <2>2, <2>3, <2>4 DEF IInv, TypeOK
<1>3. LivePages' = LivePages
  BY DEF LivePages
<1>4. LivePages \subseteq bufPfs
  BY <1>1 DEF IInv, LivePagesAllocated
<1>5. ReleaseRemovesPages'
  BY <1>1, <1>3, <1>4 DEF ReleaseRemovesPages
<1>6. SystemPagesStay'
  BY <1>3 DEF IInv, SystemPagesStay
<1>7. CleanBuffersAreWritten' /\ LivePagesAllocated'
  BY <1>1, <1>3, <1>4 DEF CleanBuffersAreWritten, LivePagesAllocated
<1>8. IdleHasNothingBuffered' /\ AllocationAddsPages'
  BY DEF IdleHasNothingBuffered, AllocationAddsPages, Releasing
<1>9. QED
  BY <1>2, <1>5, <1>6, <1>7, <1>8 DEF IInv

\* Giving the buffers up leaves the disk as it is.
LEMMA DiscardIInv ==
  ASSUME IInv, DiscardBuffers, torn' \in BOOLEAN
  PROVE  IInv'
<1> USE DEF DiscardBuffers, disk
<1>1. LivePages' = LivePages
  BY DEF LivePages
<1>2. TypeOK'
  <2>1. /\ op' \in {"none", "allocate"} \cup Releasing
        /\ stage' \in {"edit", "flush"}
        /\ calls' \in 0 .. MaxCalls
    OBVIOUS
  <2>2. /\ bufPfs' \subseteq 0 .. pageCount' - 1
        /\ bufEam' \in [Extents -> ExtentStates]
        /\ pending' \subseteq 0 .. pageCount' - 1
    BY DEF IInv, TypeOK
  <2>3. QED
    BY <2>1, <2>2 DEF IInv, TypeOK
<1>3. LivePages \subseteq pfs /\ 0 .. SystemPages - 1 \subseteq LivePages
  BY DEF IInv, LivePagesAllocated, SystemPagesStay
<1>4. QED
  BY <1>1, <1>2, <1>3
  DEF IInv, IdleHasNothingBuffered, AllocationAddsPages, ReleaseRemovesPages,
      CleanBuffersAreWritten, SystemPagesStay, LivePagesAllocated, Releasing

-----------------------------------------------------------------------------
(* The writes of a flush.                                                  *)

\* The header written next is one of those still to be written.
LEMMA PendingIsTaken ==
  ASSUME IInv, pending # {}
  PROVE  Min(pending) \in pending
<1>1. pending \subseteq Nat
  BY DEF IInv, TypeOK
<1>2. QED
  BY <1>1, MinOfBounded

\* One header: a granted page becomes live, or a released one is tombstoned.
LEMMA FlushHeaderLivePages ==
  ASSUME IInv, FlushHeader
  PROVE  LET p == Min(pending)
         IN  /\ p \in pending
             /\ pending' = pending \ {p}
             /\ op = "allocate" => LivePages' = LivePages \cup {p}
             /\ op # "allocate" => LivePages' = LivePages \ {p}
             /\ header' \in [Pages -> {Blank, Live, Freed}]
<1> DEFINE p == Min(pending)
<1>1. p \in pending
  BY PendingIsTaken DEF FlushHeader
<1>2. p \in Pages
  <2>1. pending \subseteq 0 .. pageCount - 1 /\ pageCount \in InitialPages .. MappablePages
    BY DEF IInv, TypeOK
  <2>2. pending \subseteq Pages
    BY <2>1 DEF Pages
  <2>3. QED
    BY <1>1, <2>2
<1>3. /\ header' = [header EXCEPT ![p] = IF op = "allocate" THEN Live ELSE Freed]
      /\ pending' = pending \ {p}
  BY DEF FlushHeader
<1>4. header \in [Pages -> {Blank, Live, Freed}]
  BY DEF IInv, TypeOK
<1> HIDE DEF p
<1>5. header' \in [Pages -> {Blank, Live, Freed}]
  BY <1>3, <1>4
<1>6. LivePages' = {q \in Pages : header'[q] = Live}
  BY DEF LivePages
<1>7. CASE op = "allocate"
  <2>1. \A q \in Pages : header'[q] = Live <=> header[q] = Live \/ q = p
    BY <1>2, <1>3, <1>4, <1>7
  <2>2. LivePages' = LivePages \cup {p}
    BY <1>2, <1>6, <2>1 DEF LivePages
  <2>3. QED
    BY <1>1, <1>3, <1>5, <1>7, <2>2 DEF p
<1>8. CASE op # "allocate"
  <2>1. \A q \in Pages : header'[q] = Live <=> header[q] = Live /\ q # p
    BY <1>2, <1>3, <1>4, <1>8 DEF Live, Freed
  <2>2. LivePages' = LivePages \ {p}
    BY <1>2, <1>6, <2>1 DEF LivePages
  <2>3. QED
    BY <1>1, <1>3, <1>5, <1>8, <2>2 DEF p
<1>9. QED
  BY <1>7, <1>8

\* The order of an allocation's flush (maps, then headers) is what this step
\* needs: the page it makes live is already reserved on disk.
LEMMA FlushHeaderIInv ==
  ASSUME IInv, FlushHeader
  PROVE  IInv'
<1> DEFINE p == Min(pending)
<1>1. /\ p \in pending
      /\ pending' = pending \ {p}
      /\ op = "allocate" => LivePages' = LivePages \cup {p}
      /\ op # "allocate" => LivePages' = LivePages \ {p}
      /\ header' \in [Pages -> {Blank, Live, Freed}]
  BY FlushHeaderLivePages
<1>2. /\ stage = "flush" /\ HeadersMayFlush
      /\ UNCHANGED <<pageCount, lastUsed, pfs, eam, op, stage, calls,
                     bufPfs, bufEam, pfsDirty, eamDirty, faults>>
  BY DEF FlushHeader
<1> HIDE DEF p
<1>3. TypeOK'
  BY <1>1, <1>2 DEF IInv, TypeOK, faults
<1>4. op \in {"allocate"} \cup Releasing
  BY <1>2 DEF IInv, IdleHasNothingBuffered, TypeOK
<1>5. CleanBuffersAreWritten' /\ IdleHasNothingBuffered'
  BY <1>2, <1>4 DEF IInv, CleanBuffersAreWritten, IdleHasNothingBuffered, Releasing
<1>6. CASE op = "allocate"
  <2>1. pfs = bufPfs
    BY <1>2, <1>6 DEF IInv, CleanBuffersAreWritten, HeadersMayFlush
  <2>2. pending \subseteq bufPfs /\ pending \cap LivePages = {}
    BY <1>6 DEF IInv, AllocationAddsPages
  <2>3. AllocationAddsPages' /\ ReleaseRemovesPages'
    BY <1>1, <1>2, <1>6, <2>1, <2>2 DEF AllocationAddsPages, ReleaseRemovesPages, Releasing
  <2>4. SystemPagesStay' /\ LivePagesAllocated'
    BY <1>1, <1>2, <1>6, <2>1, <2>2 DEF IInv, SystemPagesStay, LivePagesAllocated
  <2>5. QED
    BY <1>3, <1>5, <2>3, <2>4 DEF IInv
<1>7. CASE op \in Releasing
  <2>1. /\ bufPfs \subseteq pfs
        /\ LivePages \subseteq bufPfs \cup pending
        /\ pending \subseteq LivePages
        /\ pending \cap (bufPfs \cup 0 .. SystemPages - 1) = {}
    BY <1>7 DEF IInv, ReleaseRemovesPages
  <2>2. LivePages' = LivePages \ {p}
    BY <1>1, <1>7 DEF Releasing
  <2>3. AllocationAddsPages' /\ ReleaseRemovesPages'
    BY <1>1, <1>2, <1>7, <2>1, <2>2 DEF AllocationAddsPages, ReleaseRemovesPages, Releasing
  <2>4. SystemPagesStay' /\ LivePagesAllocated'
    BY <1>1, <1>2, <2>1, <2>2 DEF IInv, SystemPagesStay, LivePagesAllocated
  <2>5. QED
    BY <1>3, <1>5, <2>3, <2>4 DEF IInv
<1>8. QED
  BY <1>4, <1>6, <1>7

\* Likewise the order of a release's flush (headers, then maps): no page this
\* write frees is live on disk any more.
LEMMA FlushPfsIInv ==
  ASSUME IInv, FlushPfs
  PROVE  IInv'
<1> USE DEF FlushPfs, faults
<1>1. LivePages' = LivePages
  BY DEF LivePages
<1>2. TypeOK'
  BY DEF IInv, TypeOK
<1>3. LivePagesAllocated'
  <2>1. CASE op \in Releasing
    BY <1>1, <2>1 DEF IInv, ReleaseRemovesPages, MapsMayFlush, LivePagesAllocated
  <2>2. CASE op = "allocate"
    BY <1>1, <2>2 DEF IInv, AllocationAddsPages, LivePagesAllocated
  <2>3. QED
    BY <2>1, <2>2 DEF IInv, TypeOK, IdleHasNothingBuffered
<1>4. QED
  BY <1>1, <1>2, <1>3
  DEF IInv, IdleHasNothingBuffered, AllocationAddsPages, ReleaseRemovesPages,
      CleanBuffersAreWritten, SystemPagesStay

\* The extent map is written after the page map.
LEMMA FlushEamIInv ==
  ASSUME IInv, FlushEam
  PROVE  IInv'
<1> USE DEF FlushEam, faults
<1>1. LivePages' = LivePages
  BY DEF LivePages
<1>2. TypeOK'
  BY DEF IInv, TypeOK
<1>3. QED
  BY <1>1, <1>2
  DEF IInv, IdleHasNothingBuffered, AllocationAddsPages, ReleaseRemovesPages,
      CleanBuffersAreWritten, SystemPagesStay, LivePagesAllocated

\* An operation that has written everything leaves nothing buffered.
LEMMA FinishEditIInv ==
  ASSUME IInv, FinishEdit
  PROVE  IInv'
<1> USE DEF FinishEdit, buffers, faults
<1>1. LivePages' = LivePages
  BY DEF LivePages
<1>2. TypeOK'
  <2>1. lastUsed' \in -1 .. pageCount - 1
    <3>1. pageCount \in Nat /\ bufPfs \subseteq 0 .. pageCount - 1
      BY DEF IInv, TypeOK
    <3>2. QED
      BY <3>1, HighestAllocatedType DEF IInv, TypeOK
  <2>2. QED
    BY <2>1 DEF IInv, TypeOK
<1>3. QED
  BY <1>1, <1>2
  DEF IInv, IdleHasNothingBuffered, AllocationAddsPages, ReleaseRemovesPages,
      CleanBuffersAreWritten, SystemPagesStay, LivePagesAllocated, Releasing

-----------------------------------------------------------------------------
(* The theorems.                                                           *)

\* An allocation the file has room for grants free pages of the file.
LEMMA AllocatePagesGrants ==
  ASSUME IInv, NEW n \in 1 .. MaxRequest, AllocatePages(n)
  PROVE  \E new \in SUBSET (0 .. pageCount - 1) :
           /\ new \cap bufPfs = {}
           /\ MayAllocate
           /\ Grant(new, pageCount)
           /\ pageCount' = pageCount
<1>1. FindFreePages(bufPfs, pageCount, n) \in SUBSET (0 .. pageCount - 1)
      /\ FindFreePages(bufPfs, pageCount, n) \cap bufPfs = {}
  BY FreePagesAreFree
<1>2. QED
  BY <1>1 DEF AllocatePages

\* One it has no room for grants free pages of a longer file.
LEMMA AllocateGrowingGrants ==
  ASSUME IInv, NEW n \in 1 .. MaxRequest, AllocateGrowing(n)
  PROVE  \E count \in Nat : \E new \in SUBSET (0 .. count - 1) :
           /\ new \cap bufPfs = {}
           /\ pageCount <= count /\ count <= MappablePages
           /\ MayAllocate
           /\ Grant(new, count)
           /\ pageCount' = count
<1>1. GrownCount(n) \in Nat /\ GrownCount(n) > pageCount /\ pageCount \in Nat
  BY GrowthLengthens DEF AllocateGrowing, IInv, TypeOK
<1> DEFINE new == FindFreePages(bufPfs, GrownCount(n), n)
<1>2. new \in SUBSET (0 .. GrownCount(n) - 1) /\ new \cap bufPfs = {}
  BY FreePagesAreFree
<1>3. /\ pageCount <= GrownCount(n) /\ GrownCount(n) <= MappablePages
      /\ MayAllocate
      /\ Grant(new, GrownCount(n))
      /\ pageCount' = GrownCount(n)
  BY <1>1 DEF AllocateGrowing
<1> HIDE DEF new
<1>4. QED
  BY <1>1, <1>2, <1>3

\* Every step keeps the invariant.
LEMMA NextIInv == IInv /\ [Next]_vars => IInv'
<1> SUFFICES ASSUME IInv, [Next]_vars PROVE IInv'
  OBVIOUS
<1>1. ASSUME NEW n \in 1 .. MaxRequest, AllocatePages(n) PROVE IInv'
  <2>1. PICK new \in SUBSET (0 .. pageCount - 1) :
          /\ new \cap bufPfs = {}
          /\ MayAllocate
          /\ Grant(new, pageCount)
          /\ pageCount' = pageCount
    BY <1>1, AllocatePagesGrants
  <2>2. pageCount \in Nat /\ pageCount <= pageCount /\ pageCount <= MappablePages
    BY DEF IInv, TypeOK
  <2>3. QED
    BY <2>1, <2>2, GrantIInv
<1>2. ASSUME NEW n \in 1 .. MaxRequest, AllocateGrowing(n) PROVE IInv'
  BY <1>2, AllocateGrowingGrants, GrantIInv
<1>3. ASSUME NEW n \in 1 .. MaxRequest, AllocateRefused(n) PROVE IInv'
  BY <1>3, DiscardIInv DEF AllocateRefused, IInv, TypeOK
<1>4. ASSUME NEW gone, DropPages(gone) PROVE IInv'
  BY <1>4, ReleaseIInv DEF DropPages, Releasing
<1>5. ASSUME NEW gone, FreeChainPages(gone) PROVE IInv'
  BY <1>5, ReleaseIInv DEF FreeChainPages, Releasing
<1>6. CASE BeginFlush
  <2>1. LivePages' = LivePages
    BY <1>6 DEF BeginFlush, disk, LivePages
  <2>2. TypeOK'
    BY <1>6 DEF IInv, TypeOK, BeginFlush, disk, buffers, faults
  <2>3. QED
    BY <1>6, <2>1, <2>2
    DEF BeginFlush, disk, buffers, faults,
        IInv, IdleHasNothingBuffered, AllocationAddsPages, ReleaseRemovesPages,
        CleanBuffersAreWritten, SystemPagesStay, LivePagesAllocated
<1>7. CASE FlushHeader
  BY <1>7, FlushHeaderIInv
<1>8. CASE FlushPfs
  BY <1>8, FlushPfsIInv
<1>9. CASE FlushEam
  BY <1>9, FlushEamIInv
<1>10. CASE FinishEdit
  BY <1>10, FinishEditIInv
<1>11. CASE FailEdit
  BY <1>11, DiscardIInv DEF FailEdit, IInv, TypeOK
<1>12. CASE CutShort
  BY <1>12, DiscardIInv DEF CutShort
<1>13. CASE UNCHANGED vars
  <2>1. LivePages' = LivePages
    BY <1>13 DEF vars, disk, LivePages
  <2>2. TypeOK'
    BY <1>13 DEF vars, disk, buffers, faults, IInv, TypeOK
  <2>3. QED
    BY <1>13, <2>1, <2>2
    DEF vars, disk, buffers, faults,
        IInv, IdleHasNothingBuffered, AllocationAddsPages, ReleaseRemovesPages,
        CleanBuffersAreWritten, SystemPagesStay, LivePagesAllocated
<1>14. QED
  BY <1>1, <1>2, <1>3, <1>4, <1>5, <1>6, <1>7, <1>8, <1>9, <1>10, <1>11, <1>12, <1>13 DEF Next

\* The inductive invariant holds of every state of the allocator: its maps,
\* buffers and headers stay in the relations above across pageEdit's operations.
THEOREM SpecIInv == Spec => []IInv
<1>1. Init => IInv
  BY InitIInv
<1>2. IInv /\ [Next]_vars => IInv'
  BY NextIInv
<1>3. QED
  BY <1>1, <1>2, PTL DEF Spec

\* Type correctness: the maps, the page count and the last used page stay within
\* the file whatever is allocated, released or cut short.
THEOREM TypeCorrect == Spec => []TypeOK
<1>1. IInv => TypeOK
  BY DEF IInv
<1>2. QED
  BY <1>1, SpecIInv, PTL

\* A page whose header is live on disk is never free in the page map on disk:
\* no crash and no failed operation lets an allocation take a page in use.
THEOREM LiveAllocated == Spec => []LivePagesAllocated
<1>1. IInv => LivePagesAllocated
  BY DEF IInv
<1>2. QED
  BY <1>1, SpecIInv, PTL

-----------------------------------------------------------------------------
(* The allocator implements the page space.                                *)

\* The files the allocator starts from are files of the page space.
LEMMA InitIsSpaceInit == Init => Space!Init
<1> SUFFICES ASSUME Init PROVE Space!Init
  OBVIOUS
<1>1. pfs \subseteq Pages /\ 0 .. SystemPages - 1 \subseteq pfs
  BY DEF Init, Pages
<1>2. LivePages = pfs
  BY <1>1 DEF Init, LivePages, Live, Blank
<1>3. QED
  BY <1>1, <1>2 DEF Space!Init

\* Writing a header publishes a reserved page or retires a live one.
LEMMA FlushHeaderIsSpaceStep ==
  ASSUME IInv, FlushHeader
  PROVE  Space!Next
<1> DEFINE p == Min(pending)
<1>1. /\ p \in pending
      /\ op = "allocate" => LivePages' = LivePages \cup {p}
      /\ op # "allocate" => LivePages' = LivePages \ {p}
  BY FlushHeaderLivePages
<1>2. pfs' = pfs /\ HeadersMayFlush /\ stage = "flush"
  BY DEF FlushHeader
<1> HIDE DEF p
<1>3. p \in Pages
  <2>1. pending \subseteq Pages
    BY DEF IInv, TypeOK, Pages
  <2>2. QED
    BY <1>1, <2>1
<1>4. CASE op = "allocate"
  <2>1. pfs = bufPfs
    BY <1>2, <1>4 DEF IInv, CleanBuffersAreWritten, HeadersMayFlush
  <2>2. p \in pfs \ LivePages
    BY <1>1, <1>4, <2>1 DEF IInv, AllocationAddsPages
  <2>3. Space!Publish(p)
    BY <1>1, <1>2, <1>4, <2>2 DEF Space!Publish
  <2>4. QED
    BY <1>3, <2>3 DEF Space!Next
<1>5. CASE op \in Releasing
  <2>1. p \in LivePages \ (0 .. SystemPages - 1)
    BY <1>1, <1>5 DEF IInv, ReleaseRemovesPages
  <2>2. Space!Retire(p)
    BY <1>1, <1>2, <1>5, <2>1 DEF Space!Retire, Releasing
  <2>3. QED
    BY <1>3, <2>2 DEF Space!Next
<1>6. QED
  BY <1>2, <1>4, <1>5 DEF IInv, IdleHasNothingBuffered, TypeOK

\* Writing page 0 reserves pages nothing holds, or releases retired ones.
LEMMA FlushPfsIsSpaceStep ==
  ASSUME IInv, FlushPfs
  PROVE  Space!Next
<1>1. LivePages' = LivePages /\ pfs' = bufPfs
  BY DEF FlushPfs, LivePages
<1>2. pfs \subseteq Pages /\ bufPfs \subseteq Pages
  BY DEF IInv, TypeOK, Pages
<1>3. CASE op = "allocate"
  <2>1. Space!Reserve(bufPfs \ pfs)
    BY <1>1, <1>3 DEF IInv, AllocationAddsPages, Space!Reserve
  <2>2. QED
    BY <1>2, <2>1 DEF Space!Next
<1>4. CASE op \in Releasing
  <2>1. bufPfs \subseteq pfs /\ LivePages \subseteq bufPfs
    BY <1>4 DEF FlushPfs, MapsMayFlush, IInv, ReleaseRemovesPages
  <2>2. Space!Release(pfs \ bufPfs)
    BY <1>1, <2>1 DEF Space!Release
  <2>3. QED
    BY <1>2, <2>2 DEF Space!Next
<1>5. QED
  BY <1>3, <1>4 DEF FlushPfs, IInv, IdleHasNothingBuffered, TypeOK

\* No other step changes the page map or a header on disk.
LEMMA NextIsSpaceStep == IInv /\ [Next]_vars => [Space!Next]_(Space!vars)
<1> SUFFICES ASSUME IInv, [Next]_vars PROVE [Space!Next]_(Space!vars)
  OBVIOUS
<1>1. CASE FlushHeader
  BY <1>1, FlushHeaderIsSpaceStep
<1>2. CASE FlushPfs
  BY <1>2, FlushPfsIsSpaceStep
<1>3. CASE UNCHANGED <<pfs, header>>
  BY <1>3 DEF Space!vars, LivePages
<1>4. ASSUME ~ FlushHeader, ~ FlushPfs
      PROVE  UNCHANGED <<pfs, header>>
  BY <1>4
  DEF Next, vars, disk, AllocatePages, AllocateGrowing, AllocateRefused, Grant,
      DropPages, FreeChainPages, Release, BeginFlush, FlushEam, FinishEdit, FailEdit,
      CutShort, DiscardBuffers
<1>5. QED
  BY <1>1, <1>2, <1>3, <1>4

\* Every write the allocator makes, of an operation that completes or one that
\* is cut short, reserves pages before they are used or frees them after.
THEOREM AllocatorImplementsPageSpace == Spec => ReserveBeforePublish
<1>1. Init => Space!Init
  BY InitIsSpaceInit
<1>2. IInv /\ [Next]_vars => [Space!Next]_(Space!vars)
  BY NextIsSpaceStep
<1>3. QED
  BY <1>1, <1>2, SpecIInv, PTL DEF Spec, ReserveBeforePublish, Space!Spec

-----------------------------------------------------------------------------
(* The maps agree with the headers and with one another.                   *)

DInv == IInv /\ BuffersDescribePages /\ MapsAgree

\* The two maps of an untouched file agree.
LEMMA InitDInv == Init => DInv
<1> SUFFICES ASSUME Init PROVE DInv
  OBVIOUS
<1>1. pfs \subseteq 0 .. pageCount - 1 /\ pageCount \in Nat /\ pfs \subseteq Pages
  BY DEF Init, Pages
<1>2. LivePages = pfs
  BY <1>1 DEF Init, LivePages, Live, Blank
<1>3. ExtentMapSound(pfs, eam)
  <2>1. DOMAIN eam = Extents /\ \A e \in Extents : eam[e] = ComputeExtentState(pfs, e, pageCount)
    BY DEF Init
  <2>2. ASSUME NEW e \in Extents
        PROVE  /\ eam[e] = Full <=> ExtentPages(e) \subseteq pfs
               /\ eam[e] = Free => ExtentPages(e) \cap pfs = {}
    <3>1. eam[e] = ComputeExtentState(pfs, e, pageCount)
      BY <2>1
    <3>2. /\ ComputeExtentState(pfs, e, pageCount) = Full <=> ExtentPages(e) \subseteq pfs
          /\ ComputeExtentState(pfs, e, pageCount) = Free => ExtentPages(e) \cap pfs = {}
      BY <1>1, ComputedStateSound
    <3>3. QED
      BY <3>1, <3>2
  <2>3. QED
    BY <2>1, <2>2 DEF ExtentMapSound
<1>4. QED
  BY <1>2, <1>3, InitIInv DEF Init, DInv, BuffersDescribePages, MapsAgree, Releasing

\* allocatePages keeps the buffered maps and headers in agreement.
LEMMA GrantDInv ==
  ASSUME DInv, IInv', NEW new, NEW count \in Nat, pageCount <= count,
         new \subseteq 0 .. count - 1, MayAllocate, Grant(new, count)
  PROVE  DInv'
<1> USE DEF Grant, MayAllocate, disk, faults
<1>1. LivePages' = LivePages
  BY DEF LivePages
<1>2. bufPfs \cup new \subseteq 0 .. count - 1
  BY DEF DInv, IInv, TypeOK
<1>3. ASSUME ~torn
      PROVE  ExtentMapSound(bufPfs', bufEam')
  <2>1. bufEam \in [Extents -> ExtentStates] /\ ExtentMapSound(bufPfs, bufEam)
    BY <1>3 DEF DInv, IInv, TypeOK, BuffersDescribePages
  <2>2. QED
    BY <1>2, <2>1, UpdateKeepsSound
<1>4. ASSUME ~torn
      PROVE  bufPfs' = LivePages' \cup pending'
  <2>1. bufPfs = LivePages \cup pending
    <3>1. CASE op = "none"
      BY <1>4, <3>1 DEF DInv, IInv, IdleHasNothingBuffered, MapsAgree
    <3>2. CASE op = "allocate"
      BY <1>4, <3>2 DEF DInv, BuffersDescribePages
    <3>3. QED
      BY <3>1, <3>2
  <2>2. QED
    BY <1>1, <2>1
<1>5. BuffersDescribePages'
  BY <1>3, <1>4 DEF BuffersDescribePages, Releasing
<1>6. MapsAgree'
  BY <1>1 DEF DInv, MapsAgree
<1>7. QED
  BY <1>5, <1>6 DEF DInv

\* So does releasePages.
LEMMA ReleaseDInv ==
  ASSUME DInv, IInv', NEW gone, NEW kind \in Releasing, Release(kind, gone)
  PROVE  DInv'
<1> USE DEF Release, faults
<1>1. LivePages' = LivePages
  BY DEF LivePages
<1>2. gone \subseteq bufPfs \cap Pages /\ bufPfs = pfs /\ stage = "edit"
  BY DEF DInv, IInv, IdleHasNothingBuffered, LivePages
<1>3. ASSUME ~torn
      PROVE  ExtentMapSound(bufPfs', bufEam')
  <2>1. bufEam \in [Extents -> ExtentStates] /\ ExtentMapSound(bufPfs, bufEam)
    BY <1>3 DEF DInv, IInv, TypeOK, BuffersDescribePages
  <2>2. QED
    BY <1>2, <2>1, DowngradeKeepsSound
<1>4. ASSUME ~torn
      PROVE  bufPfs' = LivePages' \ pending'
  BY <1>1, <1>2, <1>4 DEF DInv, MapsAgree
<1>5. BuffersDescribePages'
  BY <1>3, <1>4 DEF BuffersDescribePages, Releasing
<1>6. MapsAgree'
  BY <1>1 DEF DInv, MapsAgree
<1>7. QED
  BY <1>5, <1>6 DEF DInv

\* An operation that fails before its flush leaves the maps it found.
LEMMA DiscardDInv ==
  ASSUME DInv, IInv', DiscardBuffers, (stage = "edit" /\ torn' = torn) \/ torn' = TRUE
  PROVE  DInv'
<1> USE DEF DiscardBuffers, disk
<1>1. LivePages' = LivePages
  BY DEF LivePages
<1>2. QED
  BY <1>1 DEF DInv, BuffersDescribePages, MapsAgree, Releasing

\* A header write moves one page from the pending headers to the live ones.
LEMMA FlushHeaderDInv ==
  ASSUME DInv, IInv', FlushHeader
  PROVE  DInv'
<1> DEFINE p == Min(pending)
<1>1. /\ p \in pending
      /\ pending' = pending \ {p}
      /\ op = "allocate" => LivePages' = LivePages \cup {p}
      /\ op # "allocate" => LivePages' = LivePages \ {p}
  BY FlushHeaderLivePages DEF DInv
<1>2. UNCHANGED <<op, stage, bufPfs, bufEam, torn>> /\ stage = "flush"
  BY DEF FlushHeader, faults
<1> HIDE DEF p
<1>3. pending \cap bufPfs = {} \/ op = "allocate"
  BY <1>2 DEF DInv, IInv, TypeOK, IdleHasNothingBuffered, ReleaseRemovesPages
<1>4. QED
  BY <1>1, <1>2, <1>3 DEF DInv, BuffersDescribePages, MapsAgree, Releasing

\* With everything written the disk has the buffers' agreement.
LEMMA FinishEditDInv ==
  ASSUME DInv, IInv', FinishEdit
  PROVE  DInv'
<1> USE DEF FinishEdit, buffers, faults
<1>1. LivePages' = LivePages
  BY DEF LivePages
<1>2. pfs = bufPfs /\ eam = bufEam
  BY DEF DInv, IInv, CleanBuffersAreWritten
<1>3. ~torn => pfs = LivePages
  BY <1>2 DEF DInv, BuffersDescribePages, IInv, TypeOK, IdleHasNothingBuffered
<1>4. QED
  BY <1>1, <1>2, <1>3 DEF DInv, BuffersDescribePages, MapsAgree, Releasing

\* Every step keeps the maps in agreement.
LEMMA NextDInv == DInv /\ [Next]_vars => DInv'
<1> SUFFICES ASSUME DInv, [Next]_vars PROVE DInv'
  OBVIOUS
<1>1. IInv /\ IInv'
  BY NextIInv DEF DInv
<1>2. ASSUME NEW n \in 1 .. MaxRequest, AllocatePages(n) PROVE DInv'
  <2>1. PICK new \in SUBSET (0 .. pageCount - 1) : MayAllocate /\ Grant(new, pageCount)
    BY <1>1, <1>2, AllocatePagesGrants
  <2>2. pageCount \in Nat /\ pageCount <= pageCount
    BY <1>1 DEF IInv, TypeOK
  <2>3. QED
    BY <1>1, <2>1, <2>2, GrantDInv
<1>3. ASSUME NEW n \in 1 .. MaxRequest, AllocateGrowing(n) PROVE DInv'
  BY <1>1, <1>3, AllocateGrowingGrants, GrantDInv
<1>4. ASSUME NEW n \in 1 .. MaxRequest, AllocateRefused(n) PROVE DInv'
  BY <1>1, <1>4, DiscardDInv DEF AllocateRefused, MayAllocate
<1>5. ASSUME NEW gone, DropPages(gone) PROVE DInv'
  BY <1>1, <1>5, ReleaseDInv DEF DropPages, Releasing
<1>6. ASSUME NEW gone, FreeChainPages(gone) PROVE DInv'
  BY <1>1, <1>6, ReleaseDInv DEF FreeChainPages, Releasing
<1>7. CASE FlushHeader
  BY <1>1, <1>7, FlushHeaderDInv
<1>8. CASE FinishEdit
  BY <1>1, <1>8, FinishEditDInv
<1>9. CASE FailEdit
  BY <1>1, <1>9, DiscardDInv DEF FailEdit
<1>10. CASE CutShort
  BY <1>1, <1>10, DiscardDInv DEF CutShort
<1>11. CASE BeginFlush \/ FlushPfs \/ FlushEam
  <2>1. /\ UNCHANGED <<header, op, bufPfs, bufEam, pending, torn>>
        /\ stage' = "flush"
    BY <1>11 DEF BeginFlush, FlushPfs, FlushEam, disk, buffers, faults
  <2>2. LivePages' = LivePages
    BY <2>1 DEF LivePages
  <2>3. QED
    BY <1>1, <2>1, <2>2 DEF DInv, BuffersDescribePages, MapsAgree
<1>12. CASE UNCHANGED vars
  <2>1. LivePages' = LivePages
    BY <1>12 DEF vars, disk, LivePages
  <2>2. QED
    BY <1>1, <1>12, <2>1 DEF vars, disk, buffers, faults, DInv, BuffersDescribePages, MapsAgree
<1>13. QED
  BY <1>2, <1>3, <1>4, <1>5, <1>6, <1>7, <1>8, <1>9, <1>10, <1>11, <1>12 DEF Next

\* No flush cut short, the page map names exactly the live pages between
\* flushes, and the extent map is exactly what the page map makes it.
THEOREM MapsStayInAgreement == Spec => []MapsAgree
<1>1. Init => DInv
  BY InitDInv
<1>2. DInv /\ [Next]_vars => DInv'
  BY NextDInv
<1>3. DInv => MapsAgree
  BY DEF DInv
<1>4. QED
  BY <1>1, <1>2, <1>3, PTL DEF Spec

-----------------------------------------------------------------------------
(* The last used page.                                                     *)

LInv == IInv /\ LastUsedFollowsBuffer

\* The database's own pages are the allocated ones of an untouched file.
LEMMA InitLInv == Init => LInv
<1> SUFFICES ASSUME Init PROVE LInv
  OBVIOUS
<1>1. SystemPages \in Nat /\ bufPfs \subseteq 0 .. SystemPages - 1
  BY DEF Init
<1>2. /\ HighestAllocated(bufPfs) \in -1 .. SystemPages - 1
      /\ \A p \in bufPfs \cup {-1} : p <= HighestAllocated(bufPfs)
  BY <1>1, HighestAllocatedType
<1>3. SystemPages - 1 \in bufPfs
  BY DEF Init
<1>4. HighestAllocated(bufPfs) = SystemPages - 1
  BY <1>1, <1>2, <1>3
<1>5. QED
  BY <1>4, InitIInv DEF Init, LInv, LastUsedFollowsBuffer

\* allocatePages moves the last used page with the pages it grants.
LEMMA GrantLInv ==
  ASSUME LInv, IInv', NEW count \in Nat, NEW new \in SUBSET (0 .. count - 1),
         bufPfs \in SUBSET (0 .. count - 1), lastUsed \in -1 .. count - 1,
         MayAllocate, Grant(new, count)
  PROVE  LInv'
<1>2. ~failed => lastUsed = HighestAllocated(bufPfs)
  BY DEF MayAllocate, LInv, LastUsedFollowsBuffer
<1>3. /\ lastUsed' = Max(new \cup {lastUsed})
      /\ bufPfs' = bufPfs \cup new
      /\ failed' = failed
  BY DEF Grant, faults
<1>4. lastUsed = HighestAllocated(bufPfs) =>
        Max(new \cup {lastUsed}) = HighestAllocated(bufPfs \cup new)
  BY HighestOfGrant
<1>5. ASSUME ~failed' PROVE lastUsed' = HighestAllocated(bufPfs')
  <2>1. ~failed
    BY <1>3, <1>5
  <2>2. Max(new \cup {lastUsed}) = HighestAllocated(bufPfs \cup new)
    BY <1>2, <1>4, <2>1
  <2>3. QED
    BY <1>3, <2>2
<1>6. QED
  BY <1>5 DEF LInv, LastUsedFollowsBuffer

\* Every step keeps the last used page in step, as long as nothing has failed.
LEMMA NextLInv == LInv /\ [Next]_vars => LInv'
<1> SUFFICES ASSUME LInv, [Next]_vars PROVE LInv'
  OBVIOUS
<1>1. IInv /\ IInv'
  BY NextIInv DEF LInv
<1>2. ASSUME NEW n \in 1 .. MaxRequest, AllocatePages(n) PROVE LInv'
  <2>1. PICK new \in SUBSET (0 .. pageCount - 1) : MayAllocate /\ Grant(new, pageCount)
    BY <1>1, <1>2, AllocatePagesGrants
  <2>2. /\ pageCount \in Nat
        /\ bufPfs \in SUBSET (0 .. pageCount - 1)
        /\ lastUsed \in -1 .. pageCount - 1
    BY <1>1 DEF IInv, TypeOK
  <2>3. QED
    BY <1>1, <2>1, <2>2, GrantLInv
<1>3. ASSUME NEW n \in 1 .. MaxRequest, AllocateGrowing(n) PROVE LInv'
  <2>1. PICK count \in Nat : \E new \in SUBSET (0 .. count - 1) :
          pageCount <= count /\ MayAllocate /\ Grant(new, count)
    BY <1>1, <1>3, AllocateGrowingGrants
  <2>2. PICK new \in SUBSET (0 .. count - 1) :
          pageCount <= count /\ MayAllocate /\ Grant(new, count)
    BY <2>1
  <2>3. /\ bufPfs \in SUBSET (0 .. count - 1)
        /\ lastUsed \in -1 .. count - 1
    BY <1>1, <2>2 DEF IInv, TypeOK
  <2>4. QED
    BY <1>1, <2>2, <2>3, GrantLInv
<1>4. ASSUME NEW n \in 1 .. MaxRequest, AllocateRefused(n) PROVE LInv'
  BY <1>1, <1>4 DEF AllocateRefused, DiscardBuffers, LInv, LastUsedFollowsBuffer
<1>5. ASSUME NEW gone, DropPages(gone) PROVE LInv'
  BY <1>1, <1>5 DEF DropPages, Release, LInv, LastUsedFollowsBuffer
<1>6. ASSUME NEW gone, FreeChainPages(gone) PROVE LInv'
  BY <1>1, <1>6 DEF FreeChainPages, Release, LInv, LastUsedFollowsBuffer
<1>7. CASE FinishEdit
  BY <1>1, <1>7 DEF FinishEdit, buffers, faults, LInv, LastUsedFollowsBuffer
<1>8. CASE FailEdit \/ CutShort
  BY <1>1, <1>8 DEF FailEdit, CutShort, DiscardBuffers, LInv, LastUsedFollowsBuffer
<1>9. CASE \/ BeginFlush \/ FlushHeader \/ FlushPfs \/ FlushEam
           \/ UNCHANGED vars
  <2>1. UNCHANGED <<lastUsed, op, bufPfs, failed>>
    BY <1>9
    DEF BeginFlush, FlushHeader, FlushPfs, FlushEam, vars, disk, buffers, faults
  <2>2. QED
    BY <1>1, <2>1 DEF LInv, LastUsedFollowsBuffer
<1>10. QED
  BY <1>2, <1>3, <1>4, <1>5, <1>6, <1>7, <1>8, <1>9 DEF Next

\* As long as no operation has failed, the header's LastUsedPageNo is the
\* highest allocated page between operations.
THEOREM LastUsedIsExact == Spec => []LastUsedExact
<1>1. Init => LInv
  BY InitLInv
<1>2. LInv /\ [Next]_vars => LInv'
  BY NextLInv
<1>3. LInv => LastUsedExact
  BY DEF LInv, LastUsedFollowsBuffer, LastUsedExact, IInv, IdleHasNothingBuffered
<1>4. QED
  BY <1>1, <1>2, <1>3, PTL DEF Spec

-----------------------------------------------------------------------------
(* The file grows by no more than it has to.                               *)

\* findFreePages takes the lowest free pages of the file.
LEMMA FreePagesAreLowest ==
  ASSUME NEW used, NEW count, NEW n
  PROVE  FindFreePages(used, count, n) = LowestOf((0 .. count - 1) \ used, n)
BY DEF FindFreePages, LowestOf

\* Whole extents for the pages that are missing are as many pages, and less than
\* one extent more.
LEMMA ExtendedCountMinimal ==
  ASSUME NEW count \in Nat, NEW shortfall \in Nat
  PROVE  /\ ExtendedCount(count, shortfall) \in Nat
         /\ ExtendedCount(count, shortfall) >= count + shortfall
         /\ ExtendedCount(count, shortfall) < count + shortfall + PagesInExtent
<1> DEFINE whole == shortfall + PagesInExtent - 1
           more == (whole \div PagesInExtent) * PagesInExtent
<1>1. PagesInExtent \in Nat \ {0} /\ whole \in Nat
  OBVIOUS
<1>2. /\ whole = more + (whole % PagesInExtent)
      /\ whole % PagesInExtent \in 0 .. PagesInExtent - 1
      /\ more \in Nat
  <2> HIDE DEF whole
  <2>1. whole \div PagesInExtent \in Nat
    BY <1>1
  <2>2. more \in Nat
    BY <1>1, <2>1
  <2>3. whole = more + (whole % PagesInExtent)
    BY <1>1
  <2>4. whole % PagesInExtent \in 0 .. PagesInExtent - 1
    BY <1>1
  <2>5. QED
    BY <2>2, <2>3, <2>4
<1>3. ExtendedCount(count, shortfall) = count + more
  BY DEF ExtendedCount
<1>4. more >= shortfall /\ more < shortfall + PagesInExtent
  <2> DEFINE rest == whole % PagesInExtent
  <2>1. whole = more + rest /\ rest \in 0 .. PagesInExtent - 1 /\ more \in Nat
    BY <1>2
  <2> HIDE DEF more, rest
  <2>2. QED
    BY <1>1, <2>1
<1>5. QED
  <2> HIDE DEF more
  <2>1. QED
    BY <1>2, <1>3, <1>4

\* How many pages below a length are free.
FreeBelow(count, used) == Cardinality((0 .. count - 1) \ used)

\* Of the pages of a file those that are not used are free.
LEMMA FreeBelowCount ==
  ASSUME NEW count \in Nat, NEW used \in SUBSET (0 .. count - 1)
  PROVE  /\ IsFiniteSet(used)
         /\ Cardinality(used) \in Nat
         /\ IsFiniteSet((0 .. count - 1) \ used)
         /\ FreeBelow(count, used) = count - Cardinality(used)
<1>1. IsFiniteSet(0 .. count - 1) /\ Cardinality(0 .. count - 1) = count
  <2>1. 0 \in Int /\ count - 1 \in Int
    OBVIOUS
  <2>2. /\ IsFiniteSet(0 .. count - 1)
        /\ Cardinality(0 .. count - 1) = IF 0 > count - 1 THEN 0 ELSE count - 1 - 0 + 1
    BY ONLY <2>1, FS_Interval
  <2>3. QED
    BY <2>2
<1>2. IsFiniteSet(used) /\ Cardinality(used) \in Nat
  BY <1>1, FS_Subset, FS_CardinalityType
<1>3. (0 .. count - 1) \cap used = used
  OBVIOUS
<1>4. /\ IsFiniteSet((0 .. count - 1) \ used)
      /\ Cardinality((0 .. count - 1) \ used)
           = Cardinality(0 .. count - 1) - Cardinality((0 .. count - 1) \cap used)
  BY <1>1, FS_Difference
<1>5. QED
  BY <1>1, <1>2, <1>3, <1>4 DEF FreeBelow

\* Once the lengthened file has given the pages asked for, less than one extent of
\* it is free.
LEMMA GrowingIsMinimal ==
  ASSUME IInv, IInv', NEW n \in 1 .. MaxRequest, AllocateGrowing(n)
  PROVE  Cardinality((0 .. pageCount' - 1) \ bufPfs') < PagesInExtent
<1> DEFINE old == (0 .. pageCount - 1) \ bufPfs
           found == FindFreePages(bufPfs, pageCount, n)
           count == GrownCount(n)
           free == (0 .. count - 1) \ bufPfs
           new == FindFreePages(bufPfs, count, n)
           taken == Cardinality(bufPfs)
<1>1. pageCount \in Nat /\ n \in Nat /\ bufPfs \in SUBSET (0 .. pageCount - 1)
  BY DEF IInv, TypeOK
<1>2. Cardinality(found) < n /\ pageCount' = count /\ bufPfs' = bufPfs \cup new
  BY DEF AllocateGrowing, Grant
<1>3. /\ IsFiniteSet(old) /\ taken \in Nat
      /\ Cardinality(old) = pageCount - taken
      /\ old \subseteq Nat
  BY <1>1, FreeBelowCount DEF FreeBelow
<1>4. Cardinality(found) = pageCount - taken /\ pageCount - taken < n
  <2>1. found = LowestOf(old, n)
    BY FreePagesAreLowest
  <2>2. Cardinality(old) \in Nat
    BY <1>3, FS_CardinalityType
  <2>3. /\ Cardinality(old) >= n => Cardinality(LowestOf(old, n)) = n
        /\ Cardinality(old) < n => LowestOf(old, n) = old
    <3> HIDE DEF old
    <3>1. QED
      BY <1>1, <1>3, LowestCount
  <2> HIDE DEF old, found
  <2>4. QED
    BY <1>1, <1>2, <1>3, <2>1, <2>2, <2>3
<1>5. n - (pageCount - taken) \in Nat /\ count = ExtendedCount(pageCount, n - (pageCount - taken))
  <2>1. n - (pageCount - taken) \in Nat
    <3> HIDE DEF taken
    <3>1. QED
      BY <1>1, <1>3, <1>4
  <2>2. QED
    BY <1>4, <2>1 DEF GrownCount
<1>6. /\ count \in Nat
      /\ count >= n + taken
      /\ count < n + taken + PagesInExtent
  <2> DEFINE short == n - (pageCount - taken)
  <2>1. short \in Nat
    BY <1>5
  <2>2. /\ ExtendedCount(pageCount, short) \in Nat
        /\ ExtendedCount(pageCount, short) >= pageCount + short
        /\ ExtendedCount(pageCount, short) < pageCount + short + PagesInExtent
    <3> HIDE DEF short
    <3>1. QED
      BY <1>1, <2>1, ExtendedCountMinimal
  <2>3. pageCount + short = n + taken
    <3> HIDE DEF taken
    <3>1. QED
      BY <1>1, <1>3
  <2>4. count = ExtendedCount(pageCount, short)
    BY <1>5
  <2> HIDE DEF short, count, taken
  <2>5. QED
    BY <1>1, <1>3, <2>2, <2>3, <2>4
<1>7. count >= pageCount /\ bufPfs \in SUBSET (0 .. count - 1)
  <2>1. count > pageCount
    BY <1>2, GrowthLengthens DEF IInv
  <2> HIDE DEF count
  <2>2. QED
    BY <1>1, <1>6, <2>1
<1>8. IsFiniteSet(free) /\ Cardinality(free) = count - taken /\ free \subseteq Nat
  <2> HIDE DEF count
  <2>1. QED
    BY <1>6, <1>7, FreeBelowCount DEF FreeBelow
<1>9. new \in SUBSET free /\ Cardinality(new) = n
  <2>1. new = LowestOf(free, n)
    BY FreePagesAreLowest
  <2>2. Cardinality(free) >= n
    <3> HIDE DEF free, count, taken
    <3>1. QED
      BY <1>1, <1>3, <1>6, <1>8
  <2>3. Cardinality(LowestOf(free, n)) = n
    <3> HIDE DEF free
    <3>1. QED
      BY <1>1, <1>8, <2>2, LowestCount
  <2>4. LowestOf(free, n) \in SUBSET free
    <3> HIDE DEF free
    <3>1. QED
      BY DEF LowestOf
  <2>5. QED
    BY <2>1, <2>3, <2>4
<1>10. (0 .. pageCount' - 1) \ bufPfs' = free \ new
  <2> HIDE DEF count, new
  <2>1. QED
    BY <1>2
<1>11. Cardinality(free \ new) = Cardinality(free) - Cardinality(free \cap new)
  <2> HIDE DEF free, new
  <2>1. QED
    BY <1>8, FS_Difference
<1>12. free \cap new = new
  <2> HIDE DEF free, new
  <2>1. QED
    BY <1>9
<1>13. QED
  <2> HIDE DEF free, new, count, taken
  <2>1. Cardinality(free \ new) = (count - taken) - n
    BY <1>8, <1>9, <1>11, <1>12
  <2>2. (count - taken) - n < PagesInExtent
    BY <1>1, <1>3, <1>6
  <2>3. QED
    BY <1>10, <2>1, <2>2

\* Only an allocation that found too few free pages lengthens the file, and it
\* leaves less than one extent of it free.
THEOREM GrowthStaysMinimal == Spec => GrowthIsMinimal
<1>1. ASSUME IInv, IInv', [Next]_vars, pageCount' > pageCount
      PROVE  Cardinality((0 .. pageCount' - 1) \ bufPfs') < PagesInExtent
  <2>1. ASSUME NEW n \in 1 .. MaxRequest, AllocateGrowing(n)
        PROVE  Cardinality((0 .. pageCount' - 1) \ bufPfs') < PagesInExtent
    BY <1>1, <2>1, GrowingIsMinimal
  <2>2. ASSUME \A n \in 1 .. MaxRequest : ~AllocateGrowing(n)
        PROVE  pageCount' = pageCount
    BY <1>1, <2>2
    DEF Next, vars, disk, AllocatePages, AllocateRefused, DropPages, FreeChainPages,
        Release, BeginFlush, FlushHeader, FlushPfs, FlushEam, FinishEdit, FailEdit,
        CutShort, DiscardBuffers
  <2>3. pageCount \in Nat
    BY <1>1 DEF IInv, TypeOK
  <2>4. QED
    BY <1>1, <2>1, <2>2, <2>3
<1>2. IInv /\ IInv' /\ [Next]_vars =>
        [pageCount' > pageCount =>
           Cardinality((0 .. pageCount' - 1) \ bufPfs') < PagesInExtent]_vars
  BY <1>1
<1>3. QED
  BY <1>2, SpecIInv, PTL DEF Spec, GrowthIsMinimal
=============================================================================
