# A TLA+ verification of `absdb`

`absdb` (the Go package at the root of the repository) reads and writes the
single-file `.abs` databases of ComponentAce's Absolute Database.  It keeps no
journal, takes no locks and starts no goroutine: everything it promises rests on
the order in which it changes buffers and writes pages.  This directory models
that order, and the layouts the order is about; it model-checks both with TLC and
proves with TLAPS, for files of any size, what matters most and TLC can only
check on small ones.

## 1. Inventory of the system

A file is a sequence of pages.  Page 0 holds the Page Free Space map (PFS, one
bit per page), page 1 the Extent Allocation Map (EAM, two bits per extent).
Every page in use has an ABSP header with its type, its owner, a `State` counter
and a link to the next page of its chain.

| component | source | state it keeps | operations |
|---|---|---|---|
| page layer | `absdb.go` | database header fields, file length | open, read a page, scan |
| page allocation | `ddl.go`, `ddl_grow.go` | PFS, EAM, `TotalPageCount`, `LastUsedPageNo` | `allocatePages`, `extendFile`, `releasePages`, `freeChainPages`, `resizeChain` |
| page buffers | `ddl.go` (`pageEdit`), `writer.go` | dirty pages in order of first touch | `load`, `loadFresh`, `flushPages` |
| record writer | `writer.go` | buffers, its list of data pages, changes per page, closed | `Insert`, `Update`, `UpdateColumn`, `Delete`, `Commit`, `Rollback`, `Close` |
| index maintenance | `writer_index.go` | the leaf of each index | duplicate check, room check, splice in, splice out |
| AUTOINC | `writer_autoinc.go` | a counter per column, in the table info file | assign, raise, write back |
| constraints | `writer_constraint.go`, `ddl_constraint*.go` | constraint records of the schema stream | check a row, add, drop |
| schema operations | `ddl.go`, `ddl_create.go`, `ddl_index.go`, `catalog.go`, `schema.go` | catalog, schema streams, object ids | create and drop tables and indexes |
| ALTER TABLE | `ddl_alter.go` | schema stream, then every record | ADD COLUMN, DROP COLUMN |
| compaction | `ddl_compact.go` | none | rebuild the tables in a new file with CREATE TABLE and `Insert`, cut it to `LastUsedPageNo` |
| reading | `reader.go`, `index.go`, `blob.go`, `catalog.go` | a cursor | scan, search, follow a chain, fetch a BLOB |
| encryption | `crypto.go`, `cryptowrite.go`, `internal/deccrypto`, `internal/ripemd` | key | decrypt and encrypt payloads |
| conversions | `encode.go`, `crc.go`, `internal/zlib1` | none | bytes to values and back |
| command line | `cmd/absdb` | none | print |

How they meet:

- The record writer and the schema operations use the same `allocatePages`
  through the interface `pageLoader`, each with buffers of its own.
- Readers and `ownedPages` believe page headers; the allocator believes the PFS.
  Nothing but the order of writes keeps the two in step.
- `Commit` looks for the table's record-page index on disk (`OpenIndex` reads
  pages, not buffers), while the data pages it compares it with are in the
  writer's memory.
- The number of records of a table is kept in three places: the occupancy bitmaps
  of the data pages, the counts of the record-page index, and the info page.
- ALTER TABLE changes the schema stream and the records and leaves the table info
  file alone, whose counters are addressed by the position of a column.
- CREATE INDEX, the writer and a lookup each rely on the order of keys the other
  two use; nothing but equal comparisons keeps a leaf searchable.
- A schema stream has no directory: CREATE and DROP INDEX and ALTER TABLE cut and
  splice it at offsets they find by parsing.
- Compaction copies rows through `Insert`, so through the checks and the numbering
  meant for new ones, and cuts the new file to `LastUsedPageNo`.

What is hard here is failure and order rather than concurrency: an operation that
fails half way, a process that dies between two page writes, a write that does
not wait for the commit it belongs to, a page that comes back from free space
with its old contents, and long sequences of ordinary calls after which three
pieces of bookkeeping must still agree.  `PROJECT.json` lists each of these with
its line under `hazards`.

What makes each component correct:

- *allocation*: a page in use is never free in the PFS, at any point; both maps
  describe the file exactly when nothing was cut short; `LastUsedPageNo` is the
  last allocated page.
- *writer*: rows change by whole commits; index, page counts and record count
  match the rows; a commit of a sound file is never refused; keys stay unique.
- *schema operations*: an object id is given out once; every page has one owner.
- *schema stream*: it says what the operations declared, nothing else.
- *index leaves*: a leaf is what a rebuild would make of the rows, and a lookup
  finds in it exactly what is there.
- *ALTER TABLE, compaction*: the records before and after are the same ones.
- *AUTOINC*: a counter is not behind a value its column was given.
- *records*: a value reads back as it was given, and what was read can be written.
- *walks*: they end on every file, and do not pass off a part for the whole.

## 2. Modules

| module | models | kind |
|---|---|---|
| `PageMap` | the two maps and the pure algorithms over them | operators |
| `PageSpace` | what the allocator promises: reserve, publish, retire, release | abstract specification |
| `PageAllocator` | one schema operation at a time, its buffers, its flush, its failures | state machine |
| `TransactionalTable` | what a writer promises of the rows | abstract specification |
| `TableWriter` | a record writer, its growth, its commit, its failures | state machine |
| `SchemaOps` | CREATE and DROP of tables and indexes, and which pages and indexes are taken for whose | state machine |
| `SchemaStream` | the schema stream of a table field by field, its edits, its chain of pages | state machine |
| `AlterTable` | columns, records, key index, constraints and AUTOINC counters of one table that is written to, altered and compacted | state machine |
| `IndexLeaf` | the sorted leaves of several indexes over one table | state machine |
| `RecordCodec` | the bytes of a record and what each column type makes of a value | state machine |
| `PageWalks` | the five loops that follow page numbers through a file | state machine |
| `Extrema` | extremes, orders, induction, sums and folds over finite sets, sequences | lemmas |
| `PageAllocatorProofs` | lemmas about `PageMap`, invariants and refinement of `PageAllocator` | proofs |
| `TransactionProofs` | keys, index, rows, counts and accepted commits of `TableWriter`, and its refinement | proofs |
| `AlterTableProofs` | layouts, index, constraints and counters of `AlterTable` | proofs |
| `SchemaOpsProofs` | ownership of pages and attribution by evidence in `SchemaOps` | proofs |
| `SchemaStreamProofs` | streams, chains and ids of `SchemaStream` | proofs |
| `IndexLeafProofs` | order, leaves and lookups of `IndexLeaf` | proofs |
| `PageWalksProofs` | invariants of `PageWalks` | proofs |
| `MC...` | one module per state machine, with the values of its constants | model checking |

`PageAllocator` and `SchemaOps` extend `PageMap`; `PageAllocator` instantiates
`PageSpace` and `TableWriter` instantiates `TransactionalTable` for the
refinements.

### PageAllocator

`pfs`, `eam`, `header`, `pageCount` and `lastUsed` are on disk; `bufPfs`,
`bufEam` and `pending` are a `pageEdit`.  A page header is `Blank` (never given
out), `Live`, or `Freed` (the tombstone `pageStateFree`).  `AllocatePages` is
`allocatePages` when the file has room, `AllocateGrowing` when `extendFile` has
to lengthen it, `AllocateRefused` when the maps could not describe the longer
file.  `DropPages` is `applyDrop`, `FreeChainPages` is `freeChainPages`; they
differ only in when `LastUsedPageNo` moves.  The flush writes one page per step.
Its order is that of first touch: an allocation loads page 0 and page 1 before
its new pages, a release loads the pages it tombstones first.  `FailEdit` and
`CutShort` are an error before the flush and a death, or a failing write, during
it.

Every schema edit of the code either allocates or releases, and releases once, so
an edit of the model does too.  (A multi-page schema stream is refused before it
could be shortened in an edit that releases something else.)  A power loss that
reorders the writes of a flush is outside the model: the code syncs once, at the
end, and its documentation promises nothing for that case.

### TableWriter

`disk` is what the file holds, `buf` the same as the writer sees it.  Both are
records with the allocated pages, each page's owner by its header, its slots, and
per table a unique index (`leaf`), a record-page index (`list`) and the info
page's record count (`count`).  `delta`, `dataPages` and `changes` are the
writer's own.  `dirty` and `grown` say what a commit will write and in which
order.

`Insert`, `Delete` and `Update` are the calls that change something; a call that
is refused before it changes anything (duplicate key, full leaf, no such record)
is a stutter and has no action.  An insert that finds no slot is one of
`InsertGrowing`, `InsertUnlisted` (the record-page index is full, `ErrTableFull`)
and `GrowthCut` (the process dies between `growTable`'s two writes).
`BeginCommit` is `updateTableInfo`, `CommitRefused` its errors, `FlushPage` one
step of `flushPages`.  `DropAndCreate` stands for DROP TABLE and CREATE TABLE
between two writers; its own writes are `PageAllocator`'s subject and are one
step here.

Simplifications, each of which leaves the control as it is: a record is its
indexed key; `UpdateColumn` is `Update`; every table has one unique index; the
change counter, `State` counters, EAM, AUTOINC and constraints are left out
(`AlterTable` has the last two); the file is not encrypted and does not get
longer.  Pages the writer first
touched before it grew are flushed in any order, because the program may have
read and written records in any order.  After `Rollback` the handle is gone: the
next call on it would write to a nil map.

`intact` is `FALSE` once a growth was left uncommitted or unlisted, brought old
records to light, or a commit was cut short.  Those are the cases in which the
code leaves bookkeeping behind that does not match (section 4), so the exact
properties are stated for files where none of them happened, and
`LeafKeysUnique` for all files.

### SchemaOps

`file` is the database file as an operation finds it: the catalog, the page map,
`LastObjectID`, and per page its type, tombstone, owner and contents.  Contents
are what other operations look at: a schema stream is the root of the
record-page index and a set of index records, a record-page index a sequence of
page numbers with counts, a user index the set of pages its entries point at, a
data page a number of records.  A released page keeps all of it.  A user index is
of one of two kinds: one over a `VARCHAR(2)` column alone has keys as wide as those
of a record-page index (`narrow`), so that it is taken for one as soon as no schema
stream names it; any other (`tree`) is told by its keys.

The operators before the actions are the code's way of finding out who owns
what, each of them with what it does *not* look at.  `Roots` and `NamedAnywhere`
are the two scans of `OpenIndex`, which do not ask whether a page was released.
`RootReferences` reads a list with the stride of a user index, as the code does,
so `KeysRead` is not the list's keys.  `Visible` is `Table.OpenIndex`,
`UserIndexes` and `Maintainable` the writer's check of the indexes it finds,
`MatchingLists` is `recordPageIndex`, `Claimed` and `Unattributed` are
`ownedPages`.  `OwnPages`, in contrast, follows only the references the format
has, and is what the properties compare with.

`CreateTable`, `DropTable`, `CreateIndex` and `DropIndex` are the operations;
`InsertRows`, `DeleteRows`, `InsertGrowing` and `InsertUncommitted` are writers
as far as they move data pages and counts.  A refused operation changes nothing
and has no action.

Simplifications: an operation is one step, since the order of its page writes is
`PageAllocator`'s subject and that of a commit `TableWriter`'s; a schema stream
and the catalog stay on one page; tables have no BLOBs and no constraints of
their own; the file already has all pages the maps describe; key values are left
out, so no operation is refused for a duplicate; one writer touches one page.
The bytes behind the last entry of a record-page index are taken to be zero, as
they are on a page that was not used before; on a reused page old bytes there
could name still other pages.  The text keys of a narrow index, read as page
numbers, are taken to be 0, 1 or behind the end of the file, as they are in a file
of fewer than 256 pages.  A data page taken from free space is accepted if
the bytes it brings along do not read as an occupancy bitmap (`Clean`).

`intact` is `FALSE` once a growth was left uncommitted, or a commit recounted
another index than the table's own; no operation follows then.

### SchemaStream

`file` is the pages with their links and their tokens, `place` the two files of
each table, `declared` what the operations have declared so far, kept beside the
stream to compare it with.  A token is one field of the stream whatever its
width.  `Stream` serializes, `ParseColumnDef`, `ParseIndexRecord` and
`ParseConstraint` read the arrays one behind the other, and `Understood` asks
that exactly the trailer is left, which is how a cut or misread stream is noticed.

`CreateTable`, `DropTable`, `CreateIndex`, `DropIndex`, `AddColumn` and
`DropColumn` parse the stream for an offset and splice or cut there, as the code
does; none of them serializes the schema anew.  `Resized`, `Linked` and `Written`
are `resizeChain` and the writing of an internal file: a chain gets pages, or
gives some back, with their links and old contents.  `FirstPage` is what the
operations read, `WholeFile` the whole chain.  Compression is left out, so a
stream is as long as its tokens; object ids of indexes and constraints are
counted as each operation counts them.  A column of an index is four tokens: its
name, whether it is descending, which is never written, whether it ignores case,
which only the index of one `VARCHAR` column may, and the indexed length, which
follows from the column's type (`VarcharColumns`).

### AlterTable

One table.  `stream` is its columns, key and constraints; `pages` says per data
page for which columns its records were laid out and what they are; `leaf` is
the primary key index; `info` the counters and the columns the table info file
was built for.  `Insert`, `Update` and `Delete` number, check and
store a record, `Commit` and `Rollback` end the writer in one step.
`AddColumn` and `DropColumn` refuse what the code refuses, then queue the writes
of the edit, the object id last; `FlushNext` makes one, `FinishAlter` ends it,
`CutShort` is a death or a failing write.  `RecordSize`, `RecordsPerPage` and
`RewrittenPage` are the layout: one column more or less changes how many bytes of
null flags, and how many slots, there are.

`Compact` is `CompactDatabase` for the one table: it makes a table with the
columns `CREATE TABLE` can say (`CanBeRebuilt`), and copies every record, in
record order, with an insert that numbers it, checks it against the constraints
and the keys already in the new leaf, stores it in the next place and adds its entry
to the leaf; the copy is refused if one of the inserts is.
Values are small integers and NULL, standing for any type; a kind of column
decides its width and its numbering.

### IndexLeaf

`rows` are the records, `leaf` the entries of each index that exists, in page
order.  `Compare` is the order of keys with everything the code compares: NULL
first, case, collation without case, the first characters of a string only,
several columns.  `Insert`, `Delete` and `Update` splice (`Inserted`, `Removed`)
as `writer_index.go` does, with its duplicate check and the cases in which it is
skipped; `CreateIndex` builds a leaf from all rows, in the order of a stable sort of the
records by key (`SortedIDs`), and refuses duplicates;
`Bisect` and `FindInLeaf` are the lookup.  `placed` remembers when an entry was
put where it is, to say in which order equal keys stand.  A leaf is one page, as
in the code, which refuses an index that would need a second one.

### RecordCodec

`record` is the bytes of one record: null flags, then a field per column.
`given` is what each column was last given, and `ours` which columns this package
has written, because the engine's own records have arbitrary bytes behind the end
of a text.  `Encoded` has one operator per type with its refusals, `DecodedField`
the typed accessors.  `WriteRow` is an insert, `WriteColumn` `UpdateColumn`,
`AddColumn` and `DropColumn` decode the record and encode it under the new
layout.  Widths are scaled down and a byte has two bits, so three columns need a
second byte of null flags.

### PageWalks

A walk follows the links of a file it does not change: `readInternalFile` and the
reading of a page edit's chain, a BLOB, the scan of an index and the search in
one.  A step reads one page; a guard is a check the code makes before it goes on.
`Walks` is a constant: any set of files and starting points.  The files contain
links to anywhere, cycles, missing headers and declared lengths that do not fit.
Some of the trees are sound: `WellFormed` says what `docs/format/indexes.md` says
of trees the engine builds, in terms of which leaves each page leads to.  Nothing
is assumed of the first separator of a page, and equal keys may be on several
leaves.

Its specification has the only fairness of the project, `WF_vars(Step)`: a walk
is the loop of one goroutine that waits for nothing but reads of the file, so it
takes its next iteration as long as there is one.

## 3. Runs

| run | instance | question | size |
|---|---|---|---|
| `allocator` | 7 mappable pages, extents of 2, 3 pages at first, 2 calls of up to 3 pages | do the maps and the headers agree, at every point and after every failure? | 260 thousand states |
| `writer` | 2 tables, 2 pages of 2 slots, 3 keys, 3 changes per writer, 1 drop | do rows, index and counts agree, and do rows change by whole commits? | 1.4 million |
| `writer_damaged` | 1 table, 2 pages of 1 slot, 2 keys, 2 changes per writer | is the index still unique on a file things went wrong with? | 250 thousand |
| `schema` | 2 tables, 1 index name, 2 kinds of index, 18 pages, 16 records to a page, up to 2 data pages, 7 object ids | does every page have one owner, does a drop release exactly the table's pages, is attribution right where no freed index is left? | 280 thousand |
| `schema_stream` | 2 tables of up to 3 columns and 2 indexes, 13 pages of 42 tokens, 4 operations, up to a renaming of the tables | does a stream that is spliced say what was declared, and is a cut one noticed? | 39 thousand |
| `alter` | 4 tables to start from, 2 pages, 2 bits to a byte, 3 changes, 2 alterations or compactions | do records, index, constraints and counters survive a new layout? | 230 thousand |
| `index_leaf` | 4 indexes, up to 3 records of 2 columns with 8 contents, 2 entries to a leaf, 3 changes | is a leaf sorted, complete, unique and searchable? | 34 thousand |
| `codec` | 16 formats of 1 or 2 columns, 2 bits to a byte, 3 columns, 3 calls | does a value read back, and can a row be written again? | 13 thousand |
| `walks` | every chain of 4 pages, every tree of 3, the well-formed trees of 4 and 6 | do the walks end, and read all they should? | 160 thousand |
| `rollback_exact` | as `writer_damaged` | the documented exactness of `Rollback` | violated |
| `counter_of_another_column` | as `alter`, 1 page, 1 change | the documented guard of AUTOINC counters | violated |
| `compaction_numbers` | as `alter`, 1 page, 1 change | the documented faithfulness of a compaction | violated |

Why the bounds are enough.  In `allocator` seven pages are an odd number of
extents' pages, so the last extent is cut off by the end of the file and by the
end of the maps; the file grows twice, can be refused growth, and three pages can
straddle two extents.  In `writer` three changes with two slots per page make one
writer fill a page and grow, move and delete; two tables compete for two pages,
so a page changes hands after a drop; a full file and a full leaf are reached.
In `writer_damaged` a record-page index of two entries fills up by duplicate
entries of the same page, which is how `ErrTableFull` strikes after a rollback.
`MaxChangesDamaged` is 0 in `writer`: on a damaged file its writers open and
close and change nothing, which keeps that run about sound files.

In `schema` two tables take ten of the thirteen free pages, which leaves three for
indexes and data: pages are used for different things in turn, fragments of a
dropped table stay while others are taken, and the file fills up.  Sixteen
records fit a page because a record count then equals a page number that is in
use; one writer fills or empties a page at once.  Seven object ids are enough to
create a third table after one of the first two was dropped and to give it an
index, or to give two tables a plain and a unique one.

In `schema_stream` a page of 42 tokens holds a plain table, just holds two columns
with a primary key, and is too small for a compound key with a bound, so chains
of one and of two pages occur, grow and shrink.  Four operations
create both tables and alter one, or drop one and let the other have its pages.

In `alter` two bits to a byte make the second and the fourth column lengthen the
null flags, and with 17 bytes of payload a column more or less changes how many
slots a page has; a record may then lie in a slot the new layout does not have,
which is the refusal `EveryRecordFits` is about.  The four tables have a numbered key
behind another column, a numbered column with constraints before and behind it, a
BLOB, and a constraint no writer accepts.

In `index_leaf` two entries fill a leaf, so a third row is refused; the three
texts differ in the case of a letter only, or behind the part that is indexed
only, and each column may be NULL.  In
`codec` each type occurs at the bounds of its width, one beyond them, and with a
value of another Go type, and the formats put each kind of field first, last or
beside another.  In `walks` three pages are the limit of a chain, so that of four
pages is refused, and three levels the limit of a tree, so that the six-page tree
is at it; both limits are far larger in the code, and only compared with.

`walks` assumes fairness of the loops of a walk (section 2).  No other run does:
the package does nothing on its own, every other step is a call of the program
that uses it or a write within one, and such a program may stop at any point.

Deadlock is checked in `allocator`, the `writer` runs, `index_leaf` and `walks`.
The others stop where their bounds on operations, changes or object ids are
reached; `schema` also on a full file whose operations are all refused, and when
`intact` is lost.

### What the properties say

- `LivePagesAllocated`, `ReserveBeforePublish`: the order of the flush.  Writing
  a header before the maps (the mutants) lets another operation take a live page.
- `MapsAgree`: the page map is the set of live pages and the extent map follows
  it, through growth and through operations that failed before their flush.  The
  mutant that calls a clipped trailing extent full is caught when the file grows.
- `LastUsedExact`, `GrowthIsMinimal`: what compaction and the file's size rely on.
- `IndexMatchesRows`, `CountsMatchRows`: three pieces of bookkeeping after any
  sequence of writers.
- `CommitsAreAccepted`: what `growTable` writes early is what `recordPageIndex`
  needs to find.  Leaving either to the commit (the mutant) makes commits fail.
- `WritesAreTransactions`: the refinement of `TransactionalTable`.
- `LeafKeysUnique`: `UNIQUE` and `PRIMARY KEY` hold of the index on disk always.
- `PagesHaveOneOwner`: pages in use, pages reserved, and the pages catalog, schema
  streams and record-page indexes lead to are the same, and no two tables share
  one.  The mutant that forgets to release the page of a dropped index breaks it.
- `DropsAreExact`: attribution by evidence may refuse a drop it should not, but a
  drop it accepts is right.  The mutant that lets a page two tables claim go with
  the one dropped frees a page of the other.
- `EvidenceIsRight`: once every released index and schema page is in use again,
  each table is shown exactly its own indexes and commits find exactly its own
  record-page index.  Section 4 says what happens before that.
- `StreamsSayWhatWasDeclared`, `CutStreamsAreRefused`: no splice moves a neighbour,
  and a stream that stops early is never a shorter schema.
- `ChainsAreSeparate`: pages are reused with the links they were freed with, and
  still no chain runs on into what its last page once led to.
- `IDsAreUnique`: tables, columns, indexes and constraints share one counter, and
  each operation works out for itself how much of it it used.
- `PagesFollowSchema`, `AlterationsKeepRecords`: no record is left in a slot the new
  layout does not have, and each keeps its place and its values.
- `IndexPointsAtRecords`: index entries are page and slot, and ALTER TABLE does not
  look at them.
- `ConstraintsHold`: constraints find their columns by name, values by position.
- `CountersKeepUp`: a counter covers what was inserted, as long as its column is
  where it was.  Values that an `Update` stores are not covered: the code does not
  raise the counter for them.
- `CompactionsKeepRecords`: but for numbers that were missing.
- `LeafEqualsRebuild`, `EqualKeysKeepOrder`, `UniqueKeysDiffer`, `LookupsAreExact`:
  splicing, building, checking and searching agree on one order of keys.  The
  mutants insert before equal keys, take keys that compare equal for the same,
  accept NULLs in a unique index, and bisect with the wrong comparison.
- `RowReadsBack`: no value is cut or read with what stood in its field before; an
  integer amount of a Currency reads as the double nearest to it.
- `RecordsOpenAgain`: flags of columns a record could still have are set, under
  every number of columns (`validateLayout` refuses the table otherwise).
- `OwnRowsCanBeRewritten`: what this package wrote it can decode and encode again,
  which ALTER TABLE and compaction do to every row, and the bytes come out the
  same; only rows with a value in a `Bytes` column are refused (section 4).
- `WalksReturn`, `NoPageReadTwice`: cycles among children, leaves and links.
- `WholeChainsAreRead`, `NothingIsMissing`: declared lengths against pages.
- `SearchesAgreeWithScans`, `ScansAreComplete`: on trees as the engine builds them,
  whose first separator is zero whatever lies below it.

## 4. Where the code and its documentation differ

- `Rollback` is described as exact (`writer.go:513`, `docs/writing.md:373`), but
  `growTable` has written a page and an index entry by then.  `rollback_exact`
  needs three steps: open, insert into a full table, roll back.  What follows is
  worse than a leftover page: the page is listed and live but free in the page
  map, so it can be allocated a second time.
- `autoIncCounterBase` compares the number of columns the table info file was
  built for with the schema's, so as not to raise another column's counter
  (`writer_autoinc.go:170`).  ALTER TABLE leaves that file alone;
  `counter_of_another_column` adds a column, drops one in front of the numbered
  one, and numbers from the wrong counter.
- A compaction is said to hold the same rows (`ddl_compact.go:132`, `548`).
  `compaction_numbers` adds an AUTOINC column, which is NULL in every row, and
  compacts: the rows have numbers then.

The following was met while modelling.  The models contain it, as far as they say
so below, but no run is devoted to it.

- The scan for index roots reads released pages as if they were in use
  (`index.go:243`).  A dropped index makes every write to the only table of a file
  fail with `ErrIndexNotMaintained` until its page is used again, unless its keys are
  four bytes wide, when it is taken for an internal one; with a second
  table and rows in the index, DROP TABLE fails on a page that is already free;
  the schema page of a dropped table still names the page of its index, and a
  record-page index created there is not found by commits; and a commit may
  recount the record-page index of a dropped table, turning its tombstone into a
  live header.  `SchemaOps` has all of it: this is why `EvidenceIsRight` asks for
  `NoTombstones` and why `intact` exists.
- `rootReferences` (`index.go:873`) takes the record count of the second entry of a
  record-page index for a page number.  Drops are then refused because two tables
  claim a page (`SchemaOps`).
- `initPage` takes a free page for a zeroed one; the occupancy bitmap of a dropped
  table comes along with its page (`TableWriter`, where it ends `intact`).
- `Insert` on a committed writer grows the table on disk before it returns
  `ErrWriterClosed` (not in `TableWriter`, which drops the handle at `Commit`).
- A schema stream that grows past one page is written as a chain and read as one
  page, after which every operation refuses the table (`SchemaStream`, guard
  `Readable`).
- A `Bytes` value reads back one byte longer than its column is, and the encoder
  refuses that (`encode.go:520`), so ALTER TABLE and compaction refuse a table with
  such a row, although `ddl_alter.go:810` says of a value `decodeRowValues` reads
  that it reproduces the same bytes (`RecordCodec`: `OwnRowsCanBeRewritten` says
  which rows are refused).
- `encodeCurrency` says it takes an integer as the amount (`encode.go:293`), but does
  not look at whether the integer was in range: a `uint64` above the largest `int64`
  is stored as zero (`RecordCodec`, exception `LostAmount`).
- A compaction sets an AUTOINC counter to what the rows that are left hold, so a
  number that was deleted may be given out again (`AlterTable`).
- On an encrypted file `writePageBuf` encrypts the buffer it is given in place.
  `growTable` and `appendRecordPageEntry` write a buffer and go on using it, so the
  commit that follows reads the count and the entries of the record-page index
  from ciphertext, and refuses, fails on an index out of range, or encrypts the
  page a second time, although the comment in `appendRecordPageEntry` speaks of
  "one redundant page write".  Every model is of a file in the clear.

## 5. Proofs

For any extent size, any number of pages, tables, keys, slots, entries and calls,
from the assumptions the modules state about their constants (`PageMapAssumption`,
`PageAllocatorAssumption`, `TableWriterAssumption`, `SchemaOpsAssumption`,
`IndexLeafAssumption`, `PageWalksAssumption`, `LinksAssumption`,
`AlterTableAssumption`, `StartsAssumption`, `SchemaStreamAssumption`,
`RequestsAssumption`).  `StartsAssumption` says what a table is like that was just
created: columns of different names, numbered from one.  `RequestsAssumption` says
what CREATE TABLE may be given: at least one column, and constraints each of which
covers columns (`constraintOwnerColumns`).  Nothing is assumed of a page's capacity
but that it is not zero, so a stream may be on one page or on many.

| module | theorem | property |
|---|---|---|
| `PageAllocatorProofs` | `TypeCorrect` | `TypeOK` |
| | `LiveAllocated` | `LivePagesAllocated` |
| | `AllocatorImplementsPageSpace` | `ReserveBeforePublish` |
| | `MapsStayInAgreement` | `MapsAgree` |
| | `LastUsedIsExact` | `LastUsedExact` |
| | `GrowthStaysMinimal` | `GrowthIsMinimal` |
| `TransactionProofs` | `KeysStayUnique` | `LeafKeysUnique` |
| | `IndexesNameTheRows` | `IndexMatchesRows` |
| | `RowsChangeByCommits` | `WritesAreTransactions` |
| | `WriterTypes` | `TypeOK` |
| | `CountsFollowRows` | `CountsMatchRows` |
| | `CommitsGoThrough` | `CommitsAreAccepted` |
| `SchemaOpsProofs` | `SchemaTypes` | `TypeOK` |
| | `OwnersAreUnique` | `PagesHaveOneOwner` |
| | `DropsReleaseOwnPages` | `DropsAreExact` |
| | `EvidenceIsSufficient` | `EvidenceIsRight` |
| `SchemaStreamProofs` | `StreamsSayWhatIsDeclared` | `StreamsSayWhatWasDeclared` |
| | `CutStreamsAreAlwaysRefused` | `CutStreamsAreRefused` |
| | `ChainsStaySeparate` | `ChainsAreSeparate` |
| | `IDsStayUnique` | `IDsAreUnique` |
| `AlterTableProofs` | `LayoutsFollowSchemas` | `PagesFollowSchema` |
| | `EntriesNameRecords` | `IndexPointsAtRecords` |
| | `RowsKeepConstraints` | `ConstraintsHold` |
| | `CountersStayAhead` | `CountersKeepUp` |
| | `AlterationsCarryRecords` | `AlterationsKeepRecords` |
| | `CompactionsCarryRecords` | `CompactionsKeepRecords` |
| `IndexLeafProofs` | `KeysAreOrdered` | `Compare` is antisymmetric and transitive on keys |
| | `LeavesEqualRebuilds` | `LeafEqualsRebuild` |
| | `EqualKeysStayInOrder` | `EqualKeysKeepOrder` |
| | `UniqueKeysStayApart` | `UniqueKeysDiffer` |
| | `LookupsStayExact` | `LookupsAreExact` |
| `PageWalksProofs` | `WalksDoNotRepeat` | `NoPageReadTwice` |
| | `WalksAreBounded` | a walk reads at most `PageCount` pages |
| | `ChainsMissNothing` | `NothingIsMissing` |
| | `WalksAreTyped` | `TypeOK` |
| | `WholeChainsStayWhole` | `WholeChainsAreRead` |
| | `SearchesAreExact` | `SearchesAgreeWithScans` |
| | `ScansReadEveryLeaf` | `ScansAreComplete` |

**Allocation.**  `LivePagesAllocated` is not inductive.  `IInv` adds what a flush
half way through relies on: an allocation's buffered map only adds pages to the
one on disk and a release's only removes; pages still to be written by an
allocation are in the buffered map, and those a release has yet to tombstone are
not; a map that is not dirty equals the one on disk; between operations nothing
is buffered; the database's own pages are never released.  With it every page
write is a step of `PageSpace`: this gives the refinement.  `MapsAgree` needs in
addition that the buffered map describes exactly the pages that will be live once
the flush is done (`BuffersDescribePages`), and rests on the lemmas that
`UpdateExtentMap` and `DowngradeExtents` keep the extent map sound, the first
also when the file has just grown.  `LastUsedExact` needs
`LastUsedFollowsBuffer`.  `GrowthIsMinimal` is a matter of counting: the pages an
allocation takes are the lowest free ones, so there are as many free pages below
the last of them as it takes, and a file lengthened by the shortfall has none to
spare but those of a last extent.

**Keys.**  `KeysInv` says of the disk and of the buffer that no leaf holds a key
twice.  It needs nothing else, which is why it survives every failure: a leaf is
one page, so whatever part of a commit reaches the disk takes it over whole.

**Rows.**  `RowsInv` is `KeysInv` with four more parts.  `BufferTracksDisk`: a page
that is not to be written is the same in the buffer and on disk, and what is to
be written is the writer's table's.  `RowsAreIndexed`: leaves name the rows, on
disk but for a table whose commit is under way, and in the buffer.
`OwnedPagesAreTaken`: so that growth never takes a page another table owns, and
never brings another table's rows to light on an intact file.
`CommitsGoPageByPage`: before a commit the rows on disk are those the writer
found, and during it each is one of the old or one of the new, because a page
write replaces the rows of one page by those of the buffer.  With that,
`IndexMatchesRows` follows, and every step of the writer is one of
`TransactionalTable`'s: beginning a commit and writing its pages are stutters, the
last page write is its `Commit`, a failed or cut-short flush is
`Tear`, growth that brings old records to light or is left behind is `Surface`,
and what happens to a file that is no longer intact is `Damaged`.

**Counts.**  `CountsInv` adds to `RowsInv` what the three counts owe to each other
half way: `delta` is, page by page, what the writer has changed about the number
of records since it opened; the list in memory, the one in the buffer and the one
on disk name the same pages while the writer is open; during a commit the tallies
on disk are those from before and the ones in the buffer those from after.  While
nothing has gone wrong, exactly one record-page index fits the writer's pages, so a
commit finds it, and its last entry is on it.  That the counts of the list add up
to the one on the info page is a statement about sums over sets of pages, proved
by induction over the subsets of a set.  `TypeOK` holds on damaged files too: the
commit refuses where a count would go below zero.

**Ownership.**  `Sound` says of a file what `PagesHaveOneOwner` says and what that
rests on: a page is of the kind of what leads to it, object ids of tables differ and
have been given out, no two index records share a root, and the entries of a user
index point at data pages of its own table.  The ids are what keeps a new table from
finding old data pages under its id; the roots are what makes DROP INDEX release a
page and the name of that page only.  `SoundInv` claims it while `intact`, as the
model stops at the first commit that recounts another list than the table's own.
A drop is exact because its checks leave no room: what it claims is reserved and is
not the database's, so it is some table's; that table claims it too; and no two
tables may claim a page.  The tombstones that attribution finds therefore never
lead a drop astray, they can only stop it.  `EvidenceIsRight` is a consequence of
`Sound` for files without index and schema tombstones: every root is then one
table's, user indexes point home, and a list that names the data pages of a table
that has some is its own.

**Alterations.**  `Consistent` relates a schema, pages and a leaf: pages laid out for
the columns, records of one value each that pass the constraints, in slots there
are, and the leaf naming them.  `IInv` claims it of the table at rest (`AtRest`), of
what an open writer has buffered (`Writing`) and, while an alteration is flushed
(`Altering`), of what it will leave: its schema and pages with the leaf that is on
disk.  Until the schema has been written the old three are consistent as well, and
from then on a page is the new one or its write is still to come; so an
alteration that is cut short leaves one or the other unless a page was left out.
Both alterations keep what they must because all that is kept is said by column
name: a key or a constraint names no column that may be dropped.  The counters need
`Follows`: every column the table info file was built for stands where it stood or
further to the front, ids of new columns are larger than any of its, and no two
columns share one of its ids.  Hence behind a column that was dropped no other is in
the place of its counter, and an addition is never taken for one the file was built
for.  A column that has moved is numbered from another's counter all the same, as
the run `counter_of_another_column` shows.  The copying of a compaction keeps, row by row,
what a good copy has (`Copies`), and the rows read so far (`CopiedRows`); that the
fold goes row by row is `CopiesInTurn`.  The copies have room because how many records
a page takes depends on the kinds of the columns (`SameKindsSameSize`), and a reader
meets them in the order they were inserted because the place of a record, counted
through the pages, grows along its listing and takes every value from one on
(`FilledInOrder`, `GrowingOntoIsIdentity`).  The leaf grows by the entry of each
record at the place the record will have (`CopiedEntries`, `EntriesGrow`), which is
the place it is found at when the pages are filled (`FilledPages`).

**Schema streams.**  `IInv` says that the file is `Arranged`: of each table, the
system file and the schema file are chains of different pages that end, the
schema file's has the stream of what is declared on it and is as long as that needs,
the pages of chains and roots are the table's alone, and together they are the pages
in use; besides, ids differ and none is above `LastObjectID`.  Its three parts are
argued one by one.

*The stream.*  `StreamIsParsed`: whatever follows a serialized array, the parser of
its records stops right behind it with these very records.  It is shown for each
kind of record and lifted to arrays by induction over the records read, and it
needs no assumption about which tokens are names and which are numbers.  It fixes
the offsets an operation finds: where an array ends, and where a record of it
begins and ends.  So what is spliced or cut there is, token for token, the stream of
the schema changed, and no operation has to be compared with the parser again.  A
stream that is cut off is refused for another reason: a parser that accepts a
beginning of a stream stops in the whole of it at the same place (`Agrees`), so what
is behind the records of the beginning would be shorter than the trailer.

*The pages.*  `Step(f, P, g, Q)` is all that the invariant must know of a change to
the file: pages `P` were given up, `Q` are in use instead, none of them another
table's, and every other page in use has its link and its tokens.  Allocation,
release, resizing and writing are such steps, a step after a step is one, and a
chain outside `P` stays a chain and keeps its tokens.  Links that pages were freed
with do no harm because a chain that is made sets the link of its last page
too.  `ChainFrom`, being defined by recursion, follows exactly such a chain.

*The ids.*  New ids are above the last one given out and not above the next, and
what is spliced out takes no other's id along.

**Index leaves.**  That `compareIndexKeys` is an order is `KeysAreOrdered`: two keys
are told apart by the first component they differ in, and each component is told
apart by something that is ordered.  `LeavesInv` says that a leaf has one entry for
each record, with the record's key, sorted by key and, where keys compare equal,
by the time the entry was put there; that it has room; and of a unique index that
no two records compare equal.  An insert puts an entry between those before and
those behind it, a removal leaves the rest in order, an update is one after the
other, and the comparison with the neighbours of the place sees every duplicate
because equal keys stand together.  `LeafEqualsRebuild` follows as two leaves with
the same entries, sorted, differ at most in the order of equal keys.  A stable sort
of the records exists because any finite set with a strict order can be listed in
it.

**Recursion.**  The bisections are recursive functions, which TLA+ defines by choice.
They are proved by showing that the recursion has a solution, that what is claimed
holds of every solution, and that the chosen one therefore has it: both by
induction over the width of the window.  In `IndexLeaf`, whose leaves are sorted,
this gives the exact turning point.  In `PageWalks` nothing is known of the
entries, and what holds of any outcome is enough (`BisectTurns`): the place is in
the set searched for, the one before is not, and place 0 is only returned if place
1 was looked at and is in the set.  The last is why the zero in the first separator
does no harm.  `Path` is treated the same way.

**Walks.**  The inductive invariant is that the pages taken so far are distinct
pages of the file, and that chains and trees are in stages of their own.  As a
walk cannot take a page twice its length is bounded by the file, which is the
safety half of `WalksReturn`.  A chain that ends cannot meet a page twice, since
from there on it would repeat what came before and not end; so a walk along it
(`TakenFromFirst`) is stopped by nothing but a limit, and by the arithmetic of
`PagesForUnits` it takes as many pages as the data needs.  On the way down a
well-formed tree a search keeps `Framed`: leaves before those the page leads to
have no larger keys than the first of these, and the leaf behind them has larger
keys only.  So a key that is anywhere is on the leaf where the descent ends, even
when leaves before it hold it too.

`Extrema` has a lemma about least elements, from the well-foundedness of `<`, and
derives from it what would usually be shown by induction: that `Max` and `Min` of a
set of numbers are its extremes, that pages counted off in increasing order are all
of a set, once each, and that ordered finite sets can be listed.  It also has
induction over numbers and over the subsets of a finite set, with what is to be
shown given as a set instead of a predicate, and from that the laws of sums, of folds
and of concatenation.  All invariants were checked by TLC before they were proved.

Only model-checked: `RowReadsBack`, `RecordsOpenAgain` and `OwnRowsCanBeRewritten` of
`RecordCodec`.  A byte has `ByteBits` bits, so a null flag is a power of two and the
range of a field one of `2^ByteBits`, and of a power with an unknown exponent the
provers know that it is an integer, but not that it is positive or that
`2^(n + 1) = 2 * 2^n`.  Nothing in TLA+'s definition of `^` can be expanded for them,
and to assume these laws would be to take arithmetic on trust.  `WalksReturn` is
liveness under fairness, which is beyond the provers here; `WalksAreBounded` is as
close as they come.

## 6. Not modelled

- Ciphers, digests, the checksum and the compressor are functions of bytes on large
  tables, out of TLC's reach and covered by published test vectors.  Encryption of
  pages is left out with them; section 4 says what is known of it.
- The command line only prints what the library returns.
- Two writers at once, or a writer and a schema operation: nothing in the code
  keeps them apart, so no property would hold.
- Power loss that reorders the writes of a flush, for which the code promises
  nothing.
- Of compaction, which indexes and constraints are planned, several tables in one
  file, and the replacement of the file; `AlterTable` has the table and its rows.
- Of reading, lookups by name and cursors; of CREATE DATABASE, the bytes of the
  header.
- Tables with BLOBs in `SchemaOps`: what a drop does to chains of BLOB pages.
- An object id that is given out twice after a death between the flush and
  `setLastObjectID` (`ddl_index.go:434`): nothing in the code reads an id in a
  place where the second one would be noticed.
