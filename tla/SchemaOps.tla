----------------------------- MODULE SchemaOps -----------------------------
(***************************************************************************)
(* CREATE and DROP of tables and indexes (ddl.go, ddl_create.go,           *)
(* ddl_index.go, catalog.go), with the record writer as far as it moves    *)
(* data pages, and the attribution of pages that all of them rely on       *)
(* (index.go, writer_index.go).                                            *)
(*                                                                         *)
(* Of all pages only data pages name their table.  Internal files are      *)
(* reached from the catalog, the record-page index and the user indexes    *)
(* from the schema stream, and an index nobody names is given to the table *)
(* its entries point at.  A page that is released keeps its type and its   *)
(* contents, and the search for indexes does not look at the tombstone.    *)
(*                                                                         *)
(* An operation is one step here: the order of its page writes and what    *)
(* happens when they are cut short is the subject of PageAllocator, that   *)
(* of a writer's the subject of TableWriter.                               *)
(***************************************************************************)
EXTENDS PageMap, SequencesExt

CONSTANTS
  Names,          \* table names
  IndexNames,     \* index names
  DatabasePages,  \* how many pages, from page 0 up, the database itself owns
  SystemChain,    \* pages of a table's system internal file
  Columns,        \* columns of a table
  SlotsPerPage,   \* records that fit a data page, more than one
  Batches,        \* bound: how many records one writer adds or removes
  MaxListed,      \* bound: data pages of one table
  MaxObjectID     \* bound: object ids given out

ASSUME SchemaOpsAssumption ==
  /\ DatabasePages \in 1 .. MappablePages
  /\ SystemChain \in Nat \ {0}
  /\ Columns \in Nat \ {0}
  /\ SlotsPerPage \in Nat \ {0, 1}
  /\ Batches \subseteq 1 .. SlotsPerPage
  /\ MaxListed \in Nat
  /\ MaxObjectID \in Nat

VARIABLES
  file,   \* the database file
  intact  \* every growth so far was committed, with the table's own index

vars == <<file, intact>>

NoOwner == 0
NoPage == 0
NoID == 0

\* A catalog entry and the pages of the three internal files it names; an index
\* record with the id of its UNIQUE constraint, if it has one; what a schema
\* stream says of indexes; an entry of a record-page index.
TableInfos ==
  [name : Names, id : 1 .. MaxObjectID, system : SUBSET Pages, schema : Pages, info : Pages]
IndexRecords ==
  [name : IndexNames, id : 1 .. MaxObjectID, constraint : 0 .. MaxObjectID, root : Pages]
SchemaStreams == [list : Pages, indexes : SUBSET IndexRecords]
ListEntries == [page : Pages, count : 0 .. SlotsPerPage]

NoSchema == [list |-> NoPage, indexes |-> {}]

\* What a page is, by the type in its header.  Record-page indexes ("list") and
\* user indexes share a type.  The keys of a list are four bytes wide, those of a
\* user index wider ("tree") or, over a VARCHAR(2) column, as wide ("narrow").
\* The first page of a system file and the others are told apart by the header of
\* the internal file.
Kinds ==
  {"none", "database", "system", "rest", "schema", "info", "list", "tree", "narrow", "data"}
UserKinds == {"tree", "narrow"}

\* The file: its catalog, the page map and LastObjectID, then per page the
\* header (type, tombstone, owner) and the contents as its type has them: a
\* schema stream, the entries of a record-page index, the pages a user index
\* points at, the number of records.
Contents ==
  [catalog : SUBSET TableInfos,
   pfs     : SUBSET Pages,
   lastID  : 0 .. MaxObjectID,
   kind    : [Pages -> Kinds],
   freed   : [Pages -> BOOLEAN],
   owner   : [Pages -> 0 .. MaxObjectID],
   schema  : [Pages -> SchemaStreams],
   list    : [Pages -> Seq(ListEntries)],
   refs    : [Pages -> SUBSET Pages],
   records : [Pages -> 0 .. SlotsPerPage]]

TypeOK == file \in Contents /\ intact \in BOOLEAN

\* A database CREATE DATABASE has just made.
Init ==
  /\ file = [catalog |-> {},
             pfs     |-> 0 .. DatabasePages - 1,
             lastID  |-> 0,
             kind    |-> [p \in Pages |-> IF p < DatabasePages THEN "database" ELSE "none"],
             freed   |-> [p \in Pages |-> FALSE],
             owner   |-> [p \in Pages |-> NoOwner],
             schema  |-> [p \in Pages |-> NoSchema],
             list    |-> [p \in Pages |-> <<>>],
             refs    |-> [p \in Pages |-> {}],
             records |-> [p \in Pages |-> 0]]
  /\ intact = TRUE

-----------------------------------------------------------------------------
(* What a file says about its tables.                                      *)

InternalFiles(t) == t.system \cup {t.schema, t.info}
ListRoot(f, t) == f.schema[t.schema].list
Definitions(f, t) == f.schema[t.schema].indexes
NamedRoots(f, t) == {i.root : i \in Definitions(f, t)}

\* A table's data pages, by a scan of the headers.
DataPages(f, t) == {p \in Pages : f.kind[p] = "data" /\ ~f.freed[p] /\ f.owner[p] = t.id}

ListedPages(f, r) == {f.list[r][i].page : i \in DOMAIN f.list[r]}

\* Every index root of the file, released ones included.
Roots(f) == {p \in Pages : f.kind[p] \in UserKinds \cup {"list"}}

\* The roots any schema page names, released ones included.
NamedAnywhere(f) ==
  UNION {{i.root : i \in f.schema[p].indexes} : p \in {q \in Pages : f.kind[q] = "schema"}}

\* A root is internal when its keys are four bytes wide and no schema stream
\* names it: a dropped index over a VARCHAR(2) column is taken for one.
IsSystem(f, r) == f.kind[r] \in {"list", "narrow"} /\ r \notin NamedAnywhere(f)

\* rootReferences reads every leaf with the stride of a user index, ten bytes,
\* and the entries of a record-page index are six: the keys it finds there are
\* pages 1, 6, 11, ... of the list and, when the last key runs over the end, that
\* entry's count.  What lies behind the last entry is taken to be zero, as on a
\* page not used before; page numbers stay below 2^16.
LastCount(l, rest) == IF Len(l) % 5 = rest THEN {Last(l).count} ELSE {}
KeysRead(l) == {l[i].page : i \in {j \in DOMAIN l : j % 5 = 1}} \cup LastCount(l, 2)

\* The page numbers it finds when it takes the same leaf for a user index.
PageNosRead(l) == {l[i].page : i \in {j \in DOMAIN l : j % 5 = 0}} \cup LastCount(l, 1)

\* Taken for page numbers, the keys of a narrow index, a null flag and text, are
\* 0, 1 or past 255: pages of the database itself or behind a small file's end.
RootReferences(f, r, own) ==
  LET read == CASE f.kind[r] = "list" /\ IsSystem(f, r) -> KeysRead(f.list[r])
                [] f.kind[r] = "list" /\ ~IsSystem(f, r) -> PageNosRead(f.list[r])
                [] f.kind[r] = "narrow" /\ IsSystem(f, r) -> {}
                [] OTHER -> f.refs[r]
  IN  read \cap own # {}

\* Table.OpenIndex: the only table of a file has every root, any other those its
\* schema names and those that point at its data pages.
Visible(f, t) ==
  IF Cardinality(f.catalog) = 1 THEN Roots(f)
  ELSE {r \in Roots(f) : r \in NamedRoots(f, t) \/ RootReferences(f, r, DataPages(f, t))}

UserIndexes(f, t) == {r \in Visible(f, t) : ~IsSystem(f, r)}

\* discoverIndexes: an index the pages show and the schema does not name stops
\* every write.
Maintainable(f, t) == UserIndexes(f, t) \subseteq NamedRoots(f, t)

\* recordPageIndex: the first internal index that lists exactly the data pages.
\* There is one when it is looked for, and the text keys of a narrow index are none.
MatchingLists(f, t) ==
  {r \in Visible(f, t) :
     f.kind[r] = "list" /\ IsSystem(f, r) /\ ListedPages(f, r) = DataPages(f, t)}

\* ownedPages: the pages attributed to a table, and the pages in use attributed
\* to none.
Claimed(f, t) ==
  InternalFiles(t) \cup {ListRoot(f, t)} \cup Visible(f, t) \cup DataPages(f, t)
InUse(f) == {p \in Pages : f.kind[p] # "none" /\ ~f.freed[p]}
Unattributed(f) ==
  {p \in InUse(f) : f.kind[p] # "database"} \ UNION {Claimed(f, t) : t \in f.catalog}
\* Mutant: a page two tables claim goes to the one dropped.
ClaimedOnceUnchecked(f) == TRUE
ClaimedOnce(f) ==
  \A t, u \in f.catalog : t.id # u.id => Claimed(f, t) \cap Claimed(f, u) = {}

\* The pages that are really the table's: those its catalog entry, its schema
\* stream and its record-page index lead to.
OwnPages(f, t) ==
  InternalFiles(t) \cup {ListRoot(f, t)} \cup NamedRoots(f, t) \cup ListedPages(f, ListRoot(f, t))

-----------------------------------------------------------------------------
(* CREATE TABLE and DROP TABLE.                                            *)

Nth(S, n) == CHOOSE p \in S : Cardinality({q \in S : q < p}) = n - 1

\* planNewTable: the table takes the next object id, its columns those after.
CreateTable(name) ==
  LET new == FindFreePages(file.pfs, MappablePages, SystemChain + 3)
      chain == {Nth(new, i) : i \in 1 .. SystemChain}
      schema == Nth(new, SystemChain + 1)
      info == Nth(new, SystemChain + 2)
      list == Nth(new, SystemChain + 3)
      kindOf(p) == CASE p = Nth(new, 1) -> "system"
                     [] p \in chain -> "rest"
                     [] p = schema -> "schema"
                     [] p = info -> "info"
                     [] OTHER -> "list"
      id == file.lastID + 1
  IN  /\ intact
      /\ \A t \in file.catalog : t.name # name
      /\ Cardinality(new) = SystemChain + 3
      /\ file.lastID + 1 + Columns <= MaxObjectID
      /\ file' = [file EXCEPT
                    !.catalog = @ \cup {[name |-> name, id |-> id, system |-> chain,
                                         schema |-> schema, info |-> info]},
                    !.pfs = @ \cup new,
                    !.lastID = id + Columns,
                    !.kind = [p \in Pages |-> IF p \in new THEN kindOf(p) ELSE @[p]],
                    !.freed = [p \in Pages |-> @[p] /\ p \notin new],
                    !.owner = [p \in Pages |-> IF p \in new THEN NoOwner ELSE @[p]],
                    !.schema[schema] = [list |-> list, indexes |-> {}],
                    !.list[list] = <<>>]
      /\ UNCHANGED intact

\* A drop is accepted when every page in use has one table, there is another
\* table, and none of the pages attributed to this one is free already.
DropAccepted(f, t) ==
  /\ ClaimedOnce(f)
  /\ Unattributed(f) = {}
  /\ Cardinality(f.catalog) > 1
  /\ Claimed(f, t) \subseteq f.pfs

\* Released pages keep type, owner and contents.
Released(f, pages) ==
  [f EXCEPT !.pfs = @ \ pages, !.freed = [p \in Pages |-> @[p] \/ p \in pages]]

DropTable(t) ==
  /\ intact
  /\ DropAccepted(file, t)
  /\ file' = [Released(file, Claimed(file, t)) EXCEPT !.catalog = @ \ {t}]
  /\ UNCHANGED intact

-----------------------------------------------------------------------------
(* CREATE INDEX and DROP INDEX.                                            *)

\* Mutant: the id of the constraint is not counted.
IDsTakenByIndexAlone(unique) == 1

\* A unique index brings a constraint record, which takes the id after its own.
IDsTakenByIndex(unique) == IF unique THEN 2 ELSE 1

CreateIndex(t, name, unique, kind) ==
  LET root == Nth(FindFreePages(file.pfs, MappablePages, 1), 1)
      id == file.lastID + 1
      last == file.lastID + IDsTakenByIndex(unique)
  IN  /\ intact
      /\ \A i \in Definitions(file, t) : i.name # name
      /\ FindFreePages(file.pfs, MappablePages, 1) # {}
      /\ last <= MaxObjectID
      /\ file' = [file EXCEPT
                    !.pfs = @ \cup {root},
                    !.lastID = last,
                    !.kind[root] = kind,
                    !.freed[root] = FALSE,
                    !.owner[root] = NoOwner,
                    !.refs[root] = {p \in DataPages(file, t) : file.records[p] > 0},
                    !.schema[t.schema].indexes =
                      @ \cup {[name |-> name, id |-> id, root |-> root,
                               constraint |-> IF unique THEN id + 1 ELSE NoID]}]
      /\ UNCHANGED intact

\* Mutants: the schema stream keeps the record; the page is not released.
IndexDroppedStillNamed(f, t, i) == Released(f, {i.root})
IndexDroppedStillInUse(f, t, i) == [f EXCEPT !.schema[t.schema].indexes = @ \ {i}]

IndexDropped(f, t, i) == [Released(f, {i.root}) EXCEPT !.schema[t.schema].indexes = @ \ {i}]

\* The index of a constraint is refused.
DropIndex(t, i) ==
  /\ intact
  /\ i \in Definitions(file, t)
  /\ i.constraint = NoID
  /\ i.root \in file.pfs
  /\ file' = IndexDropped(file, t, i)
  /\ UNCHANGED intact

-----------------------------------------------------------------------------
(* A record writer that adds or removes records on one page, and commits.   *)

\* The count of a page, where the list has it, must be what the page held.
CommitAccepted(f, t, p) ==
  /\ MatchingLists(f, t) # {}
  /\ LET l == f.list[Min(MatchingLists(f, t))]
     IN  \A i \in DOMAIN l : l[i].page = p => l[i].count = f.records[p]

\* The page now holds n records.  The list found is the one recounted, and the
\* write of its page advances the State in its header, a tombstone's too.
Committed(f, t, p, n) ==
  LET l == Min(MatchingLists(f, t))
  IN  [f EXCEPT
         !.records[p] = n,
         !.list[l] = [i \in DOMAIN @ |-> IF @[i].page = p THEN [@[i] EXCEPT !.count = n] ELSE @[i]],
         !.freed[l] = FALSE,
         !.refs = [r \in Pages |->
                     IF r \notin NamedRoots(f, t) THEN @[r]
                     ELSE IF n > 0 THEN @[r] \cup {p} ELSE @[r] \ {p}]]

FindsOwnList(f, t) == Min(MatchingLists(f, t)) = ListRoot(f, t)
RoomyPages(f, t) == {p \in DataPages(f, t) : f.records[p] < SlotsPerPage}

\* Records are added to the first page with a free slot.
InsertRows(t, k) ==
  /\ intact
  /\ Maintainable(file, t)
  /\ RoomyPages(file, t) # {}
  /\ LET p == Min(RoomyPages(file, t))
     IN  /\ file.records[p] + k <= SlotsPerPage
         /\ CommitAccepted(file, t, p)
         /\ file' = Committed(file, t, p, file.records[p] + k)
         /\ intact' = FindsOwnList(file, t)

DeleteRows(t, p, k) ==
  /\ intact
  /\ Maintainable(file, t)
  /\ p \in DataPages(file, t)
  /\ k <= file.records[p]
  /\ CommitAccepted(file, t, p)
  /\ file' = Committed(file, t, p, file.records[p] - k)
  /\ intact' = FindsOwnList(file, t)

\* A page that does not bring old bytes along as an occupancy bitmap.  The first
\* byte of an internal file, 10, marks slots 1 and 3, that of an index root slot 0;
\* a system file is all zero behind its header.
Clean(f, p) == f.kind[p] \in {"none", "rest"} \/ (f.kind[p] = "data" /\ f.records[p] = 0)

\* growTable writes the page's header and its entry in the record-page index at
\* once.
Grown(f, t, p) ==
  [f EXCEPT !.kind[p] = "data", !.freed[p] = FALSE, !.owner[p] = t.id,
            !.list[ListRoot(f, t)] = Append(@, [page |-> p, count |-> 0])]

NextFreePage == FindFreePages(file.pfs, MappablePages, 1)

MustGrow(t) ==
  /\ RoomyPages(file, t) = {}
  /\ Cardinality(DataPages(file, t)) < MaxListed
  /\ Maintainable(file, t)

GrowthCommits(t, p) == Clean(file, p) /\ CommitAccepted(Grown(file, t, p), t, p)

InsertGrowing(t, p, k) ==
  /\ intact
  /\ MustGrow(t)
  /\ p \in NextFreePage
  /\ GrowthCommits(t, p)
  /\ LET grown == Grown(file, t, p)
     IN  /\ file' = [Committed(grown, t, p, k) EXCEPT !.pfs = @ \cup {p}]
         /\ intact' = FindsOwnList(grown, t)

\* The slot is taken by what an earlier use of the page left, its count is off
\* because of it, or the commit finds no index of the table's data pages: the
\* writer is given up, and what growth wrote stays.
InsertUncommitted(t, p) ==
  /\ intact
  /\ MustGrow(t)
  /\ p \in NextFreePage
  /\ ~GrowthCommits(t, p)
  /\ file' = Grown(file, t, p)
  /\ intact' = FALSE

Next ==
  \/ \E name \in Names : CreateTable(name)
  \/ \E t \in file.catalog :
       \/ DropTable(t)
       \/ \E name \in IndexNames, unique \in BOOLEAN, kind \in UserKinds :
            CreateIndex(t, name, unique, kind)
       \/ \E i \in Definitions(file, t) : DropIndex(t, i)
       \/ \E k \in Batches :
            \/ InsertRows(t, k)
            \/ \E p \in DataPages(file, t) : DeleteRows(t, p, k)
            \/ \E p \in NextFreePage : InsertGrowing(t, p, k)
       \/ \E p \in NextFreePage : InsertUncommitted(t, p)

Spec == Init /\ [][Next]_vars

-----------------------------------------------------------------------------

\* Whatever is created, filled and dropped in whatever order, the pages in use
\* and the pages reserved are the same ones, and each has exactly one owner by
\* what the catalog, the schema streams and the record-page indexes say, which
\* for data pages is also what their headers say.
PagesHaveOneOwner ==
  intact =>
    /\ InUse(file) = file.pfs
    /\ file.pfs = (0 .. DatabasePages - 1) \cup UNION {OwnPages(file, t) : t \in file.catalog}
    /\ \A t \in file.catalog : OwnPages(file, t) \cap (0 .. DatabasePages - 1) = {}
    /\ \A t, u \in file.catalog : t # u => OwnPages(file, t) \cap OwnPages(file, u) = {}
    /\ \A t \in file.catalog : ListedPages(file, ListRoot(file, t)) = DataPages(file, t)

\* DROP TABLE releases what attribution by evidence finds, and that is exactly
\* what the table owns: nothing leaks, and no other table loses a page.
DropsAreExact ==
  [][\A t \in file.catalog \ file'.catalog :
       /\ file.pfs \ file'.pfs = OwnPages(file, t)
       /\ \A u \in file'.catalog : OwnPages(file', u) = OwnPages(file, u)]_vars

\* Attribution by evidence is right on every file whose released index and schema
\* pages have all been used again: each table is shown its own indexes only, may
\* be written to, and its commits find its own record-page index.
NoTombstones == \A p \in Pages : file.freed[p] => file.kind[p] \notin UserKinds \cup {"list", "schema"}
EvidenceIsRight ==
  intact /\ NoTombstones =>
    \A t \in file.catalog :
      /\ UserIndexes(file, t) = NamedRoots(file, t)
      /\ IsSystem(file, ListRoot(file, t))
      /\ DataPages(file, t) # {} => MatchingLists(file, t) = {ListRoot(file, t)}

=============================================================================
