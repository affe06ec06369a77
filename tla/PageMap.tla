------------------------------ MODULE PageMap ------------------------------
(***************************************************************************)
(* The two allocation maps of an .abs file and the pure algorithms over    *)
(* them (ddl.go, ddl_grow.go).                                             *)
(*                                                                         *)
(* Page 0 holds the Page Free Space map, one bit per page: here the set of *)
(* allocated pages.  Page 1 holds the Extent Allocation Map, two bits per  *)
(* extent of PagesInExtent pages: here a function from extents to one of   *)
(* three states.                                                           *)
(***************************************************************************)
EXTENDS Integers, FiniteSets, FiniteSetsExt

CONSTANTS
  PagesInExtent,  \* PageCountInExtent of the database header
  MappablePages   \* how many pages the two maps can describe

ASSUME PageMapAssumption ==
  /\ PagesInExtent \in Nat \ {0}
  /\ MappablePages \in Nat

Pages == 0 .. MappablePages - 1

ExtentOf(p) == p \div PagesInExtent
Extents == {ExtentOf(p) : p \in Pages}
ExtentPages(e) == {e * PagesInExtent + i : i \in 0 .. PagesInExtent - 1}
TouchedExtents(pages) == {ExtentOf(p) : p \in pages}

Free == "free"
Partial == "partial"
Full == "full"
ExtentStates == {Free, Partial, Full}

\* Mutant: the scan reads one bit past the end of the file.
FindFreePagesPastEnd(pfs, count, n) ==
  LET free == (0 .. count) \ pfs
  IN  {p \in free : Cardinality({q \in free : q < p}) < n}

\* The lowest n pages below count whose bit is clear; fewer when the file has
\* fewer.
FindFreePages(pfs, count, n) ==
  LET free == (0 .. count - 1) \ pfs
  IN  {p \in free : Cardinality({q \in free : q < p}) < n}

\* Mutant: an extent cut off by the end of the file counts as full.
ComputeExtentStateClipped(pfs, e, count) ==
  LET existing == {p \in ExtentPages(e) : p < count}
  IN  IF existing \cap pfs = {} THEN Free
      ELSE IF existing \subseteq pfs THEN Full
      ELSE Partial

\* An extent's state derived from the page map.  A page past the end of the
\* file counts as free, so a trailing extent is full only once the file is
\* long enough to hold all of it.
ComputeExtentState(pfs, e, count) ==
  LET allocated == {p \in ExtentPages(e) : p < count /\ p \in pfs}
  IN  IF allocated = {} THEN Free
      ELSE IF allocated = ExtentPages(e) THEN Full
      ELSE Partial

\* After an allocation: every extent a new page lies in is recomputed.
UpdateExtentMap(pfs, eam, new, count) ==
  [e \in DOMAIN eam |-> IF e \in TouchedExtents(new)
                        THEN ComputeExtentState(pfs, e, count)
                        ELSE eam[e]]

\* After a release: an extent that was full becomes partial, and nothing else
\* changes; an extent that lost its last page stays partial.
DowngradeExtents(eam, gone) ==
  [e \in DOMAIN eam |-> IF e \in TouchedExtents(gone) /\ eam[e] = Full
                        THEN Partial
                        ELSE eam[e]]

\* Mutant: rounds the shortfall up twice.
ExtendedCountTwice(count, shortfall) ==
  count + ((shortfall + PagesInExtent - 1) \div PagesInExtent + 1) * PagesInExtent

\* The length of the file after growing by enough whole extents for shortfall
\* more pages.
ExtendedCount(count, shortfall) ==
  count + ((shortfall + PagesInExtent - 1) \div PagesInExtent) * PagesInExtent

\* Mutant: counts the pages instead of finding the last.
HighestAllocatedCounted(pfs) == Cardinality(pfs) - 1

HighestAllocated(pfs) == Max(pfs \cup {-1})

\* What the extent map promises about the page map: an extent is called full
\* exactly when each of its pages is allocated, and free only when none is.
ExtentMapSound(pfs, eam) ==
  \A e \in DOMAIN eam :
    /\ eam[e] = Full <=> ExtentPages(e) \subseteq pfs
    /\ eam[e] = Free => ExtentPages(e) \cap pfs = {}
=============================================================================
