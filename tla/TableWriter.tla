---------------------------- MODULE TableWriter ----------------------------
(***************************************************************************)
(* A TableWriter of writer.go and writer_index.go: records inserted,       *)
(* updated and deleted in buffered pages, and the bookkeeping a commit     *)
(* brings along: the unique index of the table, the record-page index that *)
(* lists its data pages with a count each, and the record count of its     *)
(* info page.                                                              *)
(*                                                                         *)
(* One writer is open at a time, over an unencrypted file.  Every page is  *)
(* buffered until Commit, with one exception: a table that runs out of     *)
(* slots grows by a page, and growTable writes that page and its entry in  *)
(* the record-page index at once, while the allocation map stays buffered. *)
(***************************************************************************)
EXTENDS Integers, FiniteSets, Sequences, SequencesExt

CONSTANTS
  Tables,       \* the tables, as numbers in the order of their index roots
  Pages,        \* the page numbers tables may come to hold records on
  Keys,         \* values of the indexed column
  SlotsPerPage, \* records that fit a data page
  ListCapacity, \* entries that fit a record-page index root
  LeafCapacity, \* entries that fit an index leaf
  MaxChanges,   \* bound: records one writer changes
  MaxChangesDamaged, \* bound: the same once something has gone wrong
  MaxDrops      \* bound: DROP TABLE statements

ASSUME TableWriterAssumption ==
  /\ Tables \subseteq Nat \ {0}
  /\ Pages \subseteq Nat /\ IsFiniteSet(Pages)
  /\ Keys \subseteq Nat \ {0}
  /\ SlotsPerPage \in Nat \ {0}
  /\ ListCapacity \in Nat
  /\ LeafCapacity \in Nat
  /\ MaxChanges \in Nat
  /\ MaxChangesDamaged \in 0 .. MaxChanges
  /\ MaxDrops \in Nat

NoTable == 0
NoKey == 0
Slots == 1 .. SlotsPerPage
EmptyPage == [s \in Slots |-> NoKey]

VARIABLES
  disk,       \* the file
  buf,        \* the pages as the writer buffers them
  phase,      \* of the writer: none, open, writing its commit out, closed
  table,      \* the writer's table
  dataPages,  \* its data pages, as the writer knows them
  delta,      \* records added, less records removed, per page
  dirty,      \* pages still to be written by the commit
  grown,      \* pages in the order growth first touched them
  changes,    \* records changed so far
  drops,      \* DROP TABLE statements so far
  atOpen,     \* the file as it was when the writer was opened
  intact      \* nothing has gone wrong so far: no growth was left uncommitted or
              \* unlisted or found old records, and no commit was cut short

writer == <<buf, phase, table, dataPages, delta, dirty, grown, changes, atOpen>>
vars == <<disk, writer, drops, intact>>

\* The pages a writer may change, as units of writing.
Pfs == <<"pfs">>
DataPage(p) == <<"data", p>>
Leaf(t) == <<"leaf", t>>
List(t) == <<"list", t>>
Info(t) == <<"info", t>>
Units == {Pfs} \cup {DataPage(p) : p \in Pages}
         \cup UNION {{Leaf(t), List(t), Info(t)} : t \in Tables}

\* One entry of an index leaf, and of a record-page index.
IndexEntries == [key : Keys, page : Pages, slot : Slots]
ListEntries == [page : Pages, count : 0 .. SlotsPerPage]

\* What a file or a buffered copy of it holds: the allocated pages, each
\* page's owner by its header, its records, and per table the leaf of its
\* unique index, its record-page index and its record count.
Contents ==
  [pfs   : SUBSET Pages,
   owner : [Pages -> Tables \cup {NoTable}],
   rows  : [Pages -> [Slots -> Keys \cup {NoKey}]],
   leaf  : [Tables -> SUBSET IndexEntries],
   list  : [Tables -> Seq(ListEntries)],
   count : [Tables -> Nat]]

OwnedPages(c, t) == {p \in Pages : c.owner[p] = t}
RowsOf(c, t) == {e \in IndexEntries : c.owner[e.page] = t /\ c.rows[e.page][e.slot] = e.key}
Occupied(c, p) == Cardinality({s \in Slots : c.rows[p][s] # NoKey})
ListedPages(c, t) == {c.list[t][i].page : i \in DOMAIN c.list[t]}

TypeOK ==
  /\ disk \in Contents
  /\ buf \in Contents
  /\ atOpen \in Contents
  /\ phase \in {"none", "open", "commit", "closed"}
  /\ table \in Tables \cup {NoTable}
  /\ dataPages \in Seq(Pages)
  /\ delta \in [Pages -> -SlotsPerPage .. SlotsPerPage]
  /\ dirty \subseteq Units
  /\ grown \in Seq(Units)
  /\ changes \in 0 .. MaxChanges
  /\ drops \in 0 .. MaxDrops
  /\ intact \in BOOLEAN

\* Tables just created: no data page yet, an empty leaf, an empty list.
Init ==
  /\ disk = [pfs   |-> {},
             owner |-> [p \in Pages |-> NoTable],
             rows  |-> [p \in Pages |-> EmptyPage],
             leaf  |-> [t \in Tables |-> {}],
             list  |-> [t \in Tables |-> <<>>],
             count |-> [t \in Tables |-> 0]]
  /\ buf = disk
  /\ atOpen = disk
  /\ phase = "none"
  /\ table = NoTable
  /\ dataPages = <<>>
  /\ delta = [p \in Pages |-> 0]
  /\ dirty = {}
  /\ grown = <<>>
  /\ changes = 0
  /\ drops = 0
  /\ intact = TRUE

-----------------------------------------------------------------------------
(* Opening a writer, and giving it up.                                     *)

InFileOrder(S) ==
  CHOOSE s \in [1 .. Cardinality(S) -> S] : \A i, j \in DOMAIN s : i < j => s[i] < s[j]

\* A new handle starts from the file; its data pages are found by scanning the
\* page headers in file order.
Handle(t, ph) ==
  /\ table' = t
  /\ phase' = ph
  /\ buf' = disk'
  /\ atOpen' = disk'
  /\ dataPages' = IF t = NoTable THEN <<>> ELSE InFileOrder(OwnedPages(disk', t))
  /\ delta' = [p \in Pages |-> 0]
  /\ dirty' = {}
  /\ grown' = <<>>
  /\ changes' = 0

OpenWriter(t) ==
  /\ phase = "none"
  /\ UNCHANGED <<disk, drops, intact>>
  /\ Handle(t, "open")

\* The page map has not been written since the writer grew its table.
AbandonedGrowth == Pfs \in dirty

\* Rollback, Close, or the process dying: the buffers are gone.
Rollback ==
  /\ phase = "open"
  /\ intact' = (intact /\ ~AbandonedGrowth)
  /\ UNCHANGED <<disk, drops>>
  /\ Handle(NoTable, "none")

\* The program lets go of a writer it committed.
Forget ==
  /\ phase = "closed"
  /\ UNCHANGED <<disk, drops, intact>>
  /\ Handle(NoTable, "none")

\* DROP TABLE and CREATE TABLE of the same name, on a file in good order; the
\* last table cannot be dropped.  CREATE TABLE takes the lowest free pages, so
\* the old index roots are the new ones; the data pages stay free, with their
\* records still on them.
DropAndCreate(t) ==
  /\ phase = "none"
  /\ Cardinality(Tables) > 1
  /\ intact
  /\ drops < MaxDrops
  /\ drops' = drops + 1
  /\ disk' = [disk EXCEPT
                !.pfs = @ \ OwnedPages(disk, t),
                !.owner = [p \in Pages |-> IF @[p] = t THEN NoTable ELSE @[p]],
                !.leaf[t] = {},
                !.list[t] = <<>>,
                !.count[t] = 0]
  /\ UNCHANGED intact
  /\ Handle(NoTable, "none")

-----------------------------------------------------------------------------
(* Insert, Update and Delete.                                              *)

Entry(k, p, s) == [key |-> k, page |-> p, slot |-> s]
EntriesAt(t, p, s) == {e \in buf.leaf[t] : e.page = p /\ e.slot = s}

\* Every write first resolves the table's indexes from the file: an index of
\* another table that points at this table's pages stops it.  The answer is kept
\* for the writer's lifetime.
Maintainable ==
  \A u \in Tables \ {table} : \A e \in atOpen.leaf[u] : atOpen.owner[e.page] # table

MayWrite ==
  /\ changes < (IF intact THEN MaxChanges ELSE MaxChangesDamaged)
  /\ Maintainable

\* Mutant: the duplicate check reads the leaf on disk.
KeyIsFreeOnDisk(k) == \A e \in disk.leaf[table] : e.key # k

\* indexRoom and checkKeyIndexes, before anything is changed.
KeyIsFree(k) == \A e \in buf.leaf[table] : e.key # k
LeafHasRoom == Cardinality(buf.leaf[table]) < LeafCapacity

\* freeSlot: the first free slot of the first data page that has one.
RoomyPages == {i \in DOMAIN dataPages : \E s \in Slots : buf.rows[dataPages[i]][s] = NoKey}
FirstFreeSlot(p) == Min({s \in Slots : buf.rows[p][s] = NoKey})

\* Mutant: the record is stored and its index entry forgotten.
StoredUnindexed(c, k, p, s) == [c EXCEPT !.rows[p][s] = k]

\* c with the record stored and indexed.
Stored(c, k, p, s) ==
  [c EXCEPT !.rows[p][s] = k, !.leaf[table] = @ \cup {Entry(k, p, s)}]

Insert(k) ==
  /\ phase = "open"
  /\ MayWrite
  /\ LeafHasRoom
  /\ KeyIsFree(k)
  /\ RoomyPages # {}
  /\ LET p == dataPages[Min(RoomyPages)]
     IN  /\ buf' = Stored(buf, k, p, FirstFreeSlot(p))
         /\ delta' = [delta EXCEPT ![p] = @ + 1]
         /\ dirty' = dirty \cup {DataPage(p), Leaf(table)}
  /\ changes' = changes + 1
  /\ UNCHANGED <<disk, phase, table, dataPages, grown, atOpen, drops, intact>>

\* Delete takes the first index entry that points at the slot, and refuses a
\* record without one.
Delete(p, s) ==
  /\ phase = "open"
  /\ MayWrite
  /\ p \in Range(dataPages)
  /\ buf.rows[p][s] # NoKey
  /\ EntriesAt(table, p, s) # {}
  /\ buf' = [buf EXCEPT
               !.rows[p][s] = NoKey,
               !.leaf[table] = @ \ {CHOOSE e \in EntriesAt(table, p, s) :
                                      \A f \in EntriesAt(table, p, s) : e.key <= f.key}]
  /\ delta' = [delta EXCEPT ![p] = @ - 1]
  /\ dirty' = dirty \cup {DataPage(p), Leaf(table)}
  /\ changes' = changes + 1
  /\ UNCHANGED <<disk, phase, table, dataPages, grown, atOpen, drops, intact>>

\* Update stores the record before it moves the index entry: where there is no
\* entry to move it fails with the record already changed in the buffer.
Update(p, s, k) ==
  /\ phase = "open"
  /\ MayWrite
  /\ p \in Range(dataPages)
  /\ buf.rows[p][s] # NoKey
  /\ LET moved == k # buf.rows[p][s]
         found == EntriesAt(table, p, s)
         gone == CHOOSE e \in found : \A f \in found : e.key <= f.key
     IN  /\ moved => KeyIsFree(k)
         /\ IF moved /\ found # {}
            THEN /\ buf' = [Stored(buf, k, p, s) EXCEPT !.leaf[table] = @ \ {gone}]
                 /\ dirty' = dirty \cup {DataPage(p), Leaf(table)}
            ELSE /\ buf' = [buf EXCEPT !.rows[p][s] = k]
                 /\ dirty' = dirty \cup {DataPage(p)}
  /\ changes' = changes + 1
  /\ UNCHANGED <<disk, phase, table, dataPages, delta, grown, atOpen, drops, intact>>

-----------------------------------------------------------------------------
(* growTable and appendRecordPageEntry.                                    *)

\* Insert finds no slot.  A writer that is already closed gets this far too:
\* only the step that follows growth looks at closed.
MustGrow(k) ==
  /\ phase \in {"open", "closed"}
  /\ MayWrite
  /\ LeafHasRoom
  /\ KeyIsFree(k)
  /\ RoomyPages = {}
  /\ Pages \ buf.pfs # {}

NewPage == Min(Pages \ buf.pfs)

\* The new page's header and whatever records the buffer has on it, written out
\* at once.
WithNewPage(c, p) == [c EXCEPT !.owner[p] = table, !.rows[p] = buf.rows[p]]
Reserved(c, p) == [c EXCEPT !.pfs = @ \cup {p}]

\* The buffered list with an entry for the new page, also written out at once.
Listed(c, p) == [c EXCEPT !.list[table] = Append(buf.list[table], [page |-> p, count |-> 0])]
\* Mutants: the list entry is left to the commit, as everything else is; every
\* buffered data page goes out with the new one.
GrownOnDiskUnlisted(p) == WithNewPage(disk, p)
GrownOnDiskWithAll(p) == [Listed(WithNewPage(disk, p), p) EXCEPT !.rows = buf.rows]

GrownOnDisk(p) == Listed(WithNewPage(disk, p), p)
ListHasRoom == Len(buf.list[table]) < ListCapacity

\* Growth touches the page map, then the page unless the writer has read it before.
Touched(touched, u) == IF u \in Range(touched) THEN touched ELSE Append(touched, u)
Grew(p) ==
  IF p \in Range(dataPages) THEN Touched(grown, Pfs) ELSE Touched(Touched(grown, Pfs), DataPage(p))

\* The new page holds no old records, and a commit may still follow.
GrowsCleanly(p) == buf.rows[p] = EmptyPage /\ phase = "open"

\* The table grows; the record is stored in the new page's first slot unless the
\* writer is closed or the slot is taken.
InsertGrowing(k) ==
  /\ MustGrow(k)
  /\ ListHasRoom
  /\ LET p == NewPage
         after == Listed(WithNewPage(Reserved(buf, p), p), p)
         fits == phase = "open" /\ buf.rows[p][1] = NoKey
     IN  /\ disk' = GrownOnDisk(p)
         /\ buf' = IF fits THEN Stored(after, k, p, 1) ELSE after
         /\ delta' = IF fits THEN [delta EXCEPT ![p] = @ + 1] ELSE delta
         /\ dirty' = dirty \cup {Pfs, DataPage(p), List(table)}
                           \cup (IF fits THEN {Leaf(table)} ELSE {})
         /\ changes' = IF fits THEN changes + 1 ELSE changes
         /\ dataPages' = Append(dataPages, p)
         /\ grown' = Touched(Grew(p), List(table))
         /\ intact' = (intact /\ GrowsCleanly(p))
  /\ UNCHANGED <<phase, table, atOpen, drops>>

\* The record-page index root is full: the insert fails with ErrTableFull, the
\* page already written and reserved.
InsertUnlisted(k) ==
  /\ MustGrow(k)
  /\ ~ListHasRoom
  /\ disk' = WithNewPage(disk, NewPage)
  /\ buf' = WithNewPage(Reserved(buf, NewPage), NewPage)
  /\ dirty' = dirty \cup {Pfs, DataPage(NewPage)}
  /\ grown' = Grew(NewPage)
  /\ intact' = FALSE
  /\ UNCHANGED <<phase, table, dataPages, delta, changes, atOpen, drops>>

\* The process dies after the new page is written, before it is listed.
GrowthCut(k) ==
  /\ MustGrow(k)
  /\ ListHasRoom
  /\ disk' = WithNewPage(disk, NewPage)
  /\ intact' = FALSE
  /\ UNCHANGED drops
  /\ Handle(NoTable, "none")

-----------------------------------------------------------------------------
(* Commit.                                                                 *)

\* The internal indexes the table can see: on a file with more tables than one,
\* those that list one of its pages.
VisibleLists ==
  IF Cardinality(Tables) = 1 THEN Tables
  ELSE {u \in Tables : \E p \in ListedPages(disk, u) : disk.owner[p] = table}

\* recordPageIndex: the first of them that lists exactly the writer's data
\* pages.
MatchingLists ==
  {u \in VisibleLists : /\ ListedPages(disk, u) \subseteq Range(dataPages)
                        /\ Cardinality(ListedPages(disk, u)) = Len(dataPages)}

\* Its counts as they are on disk, added up; a page listed twice counts once,
\* with its last entry.
ListedTotal(u) ==
  LET last(p) == Max({i \in DOMAIN disk.list[u] : disk.list[u][i].page = p})
      counts == [p \in ListedPages(disk, u) |-> disk.list[u][last(p)].count]
  IN  MapThenSumSet(LAMBDA p : counts[p], ListedPages(disk, u))

\* updatePageCounts: an entry of a page that changed must have held what the
\* page held.  The entries in front of one that did not are rewritten.
EntryAgrees(e) == delta[e.page] # 0 => e.count = Occupied(buf, e.page) - delta[e.page]
CountsAgree(u) == \A i \in DOMAIN buf.list[u] : EntryAgrees(buf.list[u][i])

Recounted(u) ==
  [i \in DOMAIN buf.list[u] |->
     LET e == buf.list[u][i]
     IN  IF delta[e.page] # 0 /\ \A j \in 1 .. i : EntryAgrees(buf.list[u][j])
         THEN [e EXCEPT !.count = Occupied(buf, e.page)]
         ELSE e]

\* Mutants: removed records are not taken off; the sign is wrong.
AddedRecordsOnly == Cardinality({p \in Pages : delta[p] > 0})
AddedRecordsNegated == 0 - MapThenSumSet(LAMBDA p : delta[p], Pages)

\* updateCounters: the record count moves only if it was right.
AddedRecords == MapThenSumSet(LAMBDA p : delta[p], Pages)

MayCommit == phase = "open" /\ dirty # {}
CommitAccepted == MatchingLists # {} /\ CountsAgree(Min(MatchingLists))

\* The counters are brought in step in the buffers, then the pages go out.
BeginCommit ==
  /\ MayCommit
  /\ CommitAccepted
  /\ LET u == Min(MatchingLists)
         counted == ListedTotal(u) = buf.count[table]
     IN  /\ buf' = [buf EXCEPT
                      !.list[u] = Recounted(u),
                      !.count[table] = IF counted THEN @ + AddedRecords ELSE @]
         /\ dirty' = dirty \cup (IF Recounted(u) # buf.list[u] THEN {List(u)} ELSE {})
                           \cup (IF counted THEN {Info(table)} ELSE {})
  /\ phase' = "commit"
  /\ UNCHANGED <<disk, table, dataPages, delta, grown, changes, atOpen, drops, intact>>

\* Commit returns an error; the writer is closed all the same.
CommitRefused ==
  /\ MayCommit
  /\ ~CommitAccepted
  /\ phase' = "closed"
  /\ intact' = (intact /\ ~AbandonedGrowth)
  /\ dirty' = {}
  /\ buf' = IF MatchingLists = {} THEN buf
            ELSE [buf EXCEPT !.list[Min(MatchingLists)] = Recounted(Min(MatchingLists))]
  /\ UNCHANGED <<disk, table, dataPages, delta, grown, changes, atOpen, drops>>

CommitNothing ==
  /\ phase = "open"
  /\ dirty = {}
  /\ phase' = "closed"
  /\ UNCHANGED <<disk, buf, table, dataPages, delta, dirty, grown, changes, atOpen, drops, intact>>

Written(c, from, u) ==
  CASE u = Pfs -> [c EXCEPT !.pfs = from.pfs]
    [] u[1] = "data" -> [c EXCEPT !.owner[u[2]] = from.owner[u[2]], !.rows[u[2]] = from.rows[u[2]]]
    [] u[1] = "leaf" -> [c EXCEPT !.leaf[u[2]] = from.leaf[u[2]]]
    [] u[1] = "list" -> [c EXCEPT !.list[u[2]] = from.list[u[2]]]
    [] u[1] = "info" -> [c EXCEPT !.count[u[2]] = from.count[u[2]]]

\* flushPages goes by first touch.  The leaf and the pages the table had are
\* touched in whatever order the program reads and writes records; what growth
\* touches comes after them, then the list and the info page.
LastUnits == {List(t) : t \in Tables} \cup {Info(t) : t \in Tables}
Precedes(u, v) ==
  \/ u \notin Range(grown) \cup LastUnits /\ v \in Range(grown) \cup LastUnits
  \/ u \in Range(grown) /\ v \in LastUnits \ Range(grown)
  \/ \E i, j \in DOMAIN grown : i < j /\ grown[i] = u /\ grown[j] = v
  \/ u[1] = "list" /\ v[1] = "info"

FlushPage(u) ==
  /\ phase = "commit"
  /\ u \in dirty
  /\ \A v \in dirty : ~Precedes(v, u)
  /\ disk' = Written(disk, buf, u)
  /\ dirty' = dirty \ {u}
  /\ phase' = IF dirty = {u} THEN "closed" ELSE "commit"
  /\ UNCHANGED <<buf, table, dataPages, delta, grown, changes, atOpen, drops, intact>>

\* A page write fails: Commit returns the error and the writer is closed.
FlushFails ==
  /\ phase = "commit"
  /\ phase' = "closed"
  /\ dirty' = {}
  /\ intact' = FALSE
  /\ UNCHANGED <<disk, buf, table, dataPages, delta, grown, changes, atOpen, drops>>

\* The process dies during the flush.
CutShort ==
  /\ phase = "commit"
  /\ intact' = FALSE
  /\ UNCHANGED <<disk, drops>>
  /\ Handle(NoTable, "none")

Next ==
  \/ \E t \in Tables : OpenWriter(t) \/ DropAndCreate(t)
  \/ \E k \in Keys : Insert(k) \/ InsertGrowing(k) \/ InsertUnlisted(k) \/ GrowthCut(k)
  \/ \E p \in Pages, s \in Slots : Delete(p, s) \/ \E k \in Keys : Update(p, s, k)
  \/ BeginCommit
  \/ CommitRefused
  \/ CommitNothing
  \/ \E u \in Units : FlushPage(u)
  \/ FlushFails
  \/ CutShort
  \/ Rollback
  \/ Forget

Spec == Init /\ [][Next]_vars

-----------------------------------------------------------------------------

\* As long as nothing went wrong, and whatever order rows were inserted, moved
\* and removed in by however many writers, the unique index on disk names exactly
\* the records on disk: maintained indexes never drift from the rows.
IndexMatchesRows ==
  intact /\ phase # "commit" => \A t \in Tables : disk.leaf[t] = RowsOf(disk, t)

\* Three records of how many rows a table holds, kept by three pieces of code,
\* agree: the record-page index lists every data page once with the records on
\* it, the info page holds their sum, and every data page is allocated but those
\* the open writer has just grown by.
CountsMatchRows ==
  intact /\ phase # "commit" =>
    \A t \in Tables :
      LET list == disk.list[t]
      IN  /\ ListedPages(disk, t) = OwnedPages(disk, t)
          /\ Len(list) = Cardinality(OwnedPages(disk, t))
          /\ \A i \in DOMAIN list : list[i].count = Occupied(disk, list[i].page)
          /\ disk.count[t] = Cardinality(RowsOf(disk, t))
          /\ \A p \in OwnedPages(disk, t) :
               p \in disk.pfs \/ (phase = "open" /\ t = table /\ DataPage(p) \in dirty)

\* No leaf on disk ever holds a key twice, not even after a torn commit or on a
\* table whose bookkeeping is broken: UNIQUE and PRIMARY KEY hold of the index.
LeafKeysUnique ==
  \A t \in Tables : \A e, f \in disk.leaf[t] : e.key = f.key => e = f

\* On a file nothing went wrong with, no commit is refused: what growTable wrote
\* ahead of the commit is what recordPageIndex needs to find on disk, and the
\* counts agree.
CommitsAreAccepted == [][intact => ~CommitRefused]_vars

\* The abstract table: rows change on disk only by a whole commit, until
\* something goes wrong, and then only in the ways it lists.
Writing == phase \in {"open", "commit"}
Transactions ==
  INSTANCE TransactionalTable
    WITH committed <- [t \in Tables |-> RowsOf(IF phase = "commit" /\ t = table THEN atOpen ELSE disk, t)],
         writing <- IF Writing THEN table ELSE NoTable,
         view <- IF Writing THEN RowsOf(buf, table) ELSE {},
         intact <- intact
WritesAreTransactions == Transactions!Spec

-----------------------------------------------------------------------------
(* What the documentation says and the code does not do.                   *)

\* Rollback leaves the file exactly as it was when the writer was opened
\* (Rollback's comment).
RollbackIsExact == [][Rollback => disk' = atOpen]_vars
=============================================================================
