----------------------------- MODULE AlterTable -----------------------------
(***************************************************************************)
(* ALTER TABLE ADD COLUMN and DROP COLUMN (ddl_alter.go), and compaction   *)
(* (ddl_compact.go), over a table a record writer fills: AUTOINC columns   *)
(* numbered from counters (writer_autoinc.go), NOT NULL and CHECK          *)
(* constraints tested (writer_constraint.go), one primary key index kept   *)
(* in step.                                                                *)
(*                                                                         *)
(* An alteration edits two things, the column definitions in the schema    *)
(* stream and the records on every data page, whose layout follows from    *)
(* the columns (reader.go).  It leaves a third one alone: the table info   *)
(* file, which holds one counter per column and addresses it by the        *)
(* column's position.  A compaction copies the records, one insert each,   *)
(* into a new table of the same columns.                                   *)
(*                                                                         *)
(* Commits of the writer are one step here; how they are cut short is the  *)
(* subject of TableWriter.  The flush of an alteration is page by page.    *)
(***************************************************************************)
EXTENDS Integers, FiniteSets, Sequences, SequencesExt, FiniteSetsExt

CONSTANTS
  Starts,       \* tables to start from, as CREATE TABLE here or in the engine makes them
  ColumnNames,  \* names ADD COLUMN may use
  NewKinds,     \* kinds of columns ADD COLUMN may be asked for
  FieldSize,    \* bytes a value of each kind takes in a record
  FlagBits,     \* null flags, and occupancy bits, in a byte: 8
  PayloadSize,  \* bytes of a page behind its header
  Pages,        \* the table's data pages
  MaxInt,       \* largest value an integer column holds
  MaxChanges,   \* bound: records inserted, updated or deleted
  MaxAlters     \* bound: ALTER TABLE statements

Null == -1
Values == {Null} \cup 0 .. MaxInt

\* Kinds of columns: those serializeColumnDef has evidence for, and any other.
CreatableKinds == {"integer", "string", "autoinc"}

ASSUME AlterTableAssumption ==
  /\ FlagBits \in Nat \ {0}
  /\ PayloadSize \in Nat
  /\ Pages \subseteq Nat /\ IsFiniteSet(Pages)
  /\ ColumnNames \subseteq STRING
  /\ MaxInt \in Nat
  /\ MaxChanges \in Nat
  /\ MaxAlters \in Nat
  /\ \A k \in DOMAIN FieldSize : FieldSize[k] \in Nat \ {0}
  /\ CreatableKinds \cup NewKinds \subseteq DOMAIN FieldSize

\* A column definition; AUTOINC columns count in steps up to a declared maximum.
Columns ==
  [name : STRING, id : Nat, kind : DOMAIN FieldSize, increment : Nat \ {0}, maxValue : Nat]

\* A constraint record names a column; a CHECK has its two bounds.
Constraints == [kind : {"notnull", "check"}, column : STRING, min : Values, max : Values]

\* A schema names its columns apart, and indexes and numbers columns it has.
IsSchema(t) ==
  /\ t \in [columns : Seq(Columns), key : STRING, constraints : SUBSET Constraints, blobs : BOOLEAN]
  /\ t.columns # <<>>
  /\ \A i, j \in DOMAIN t.columns : t.columns[i].name = t.columns[j].name => i = j
  /\ t.key = "" \/ \E i \in DOMAIN t.columns : t.columns[i].name = t.key

\* The ids of a table nothing was dropped from.
NumberedThrough(cols) ==
  /\ \A i \in DOMAIN cols : cols[i].id \in 1 .. Len(cols)
  /\ \A i, j \in DOMAIN cols : cols[i].id = cols[j].id => i = j

ASSUME StartsAssumption == \A t \in Starts : IsSchema(t) /\ NumberedThrough(t.columns)

VARIABLES
  stream,   \* the schema stream: columns, then indexes and constraints
  pages,    \* per data page, the columns its records were laid out for and the records
  leaf,     \* the leaf of the primary key index
  info,     \* the table info file: its counters, and the columns it was built for
  lastID,   \* LastObjectID of the database header
  phase,    \* idle, writing (a writer is open), altering (a flush is under way)
  edit,     \* the pages as the writer or the alteration buffers them
  pending,  \* writes of the alteration still to come, in order
  before,   \* the records as they were when the alteration began
  inserted, \* per column id, the largest value an insert stored in it
  changes, alters,  \* how often
  torn      \* an alteration was cut short between the pages it rewrites

disk == <<stream, pages, leaf, info, lastID>>
vars == <<disk, phase, edit, pending, before, inserted, changes, alters, torn>>

-----------------------------------------------------------------------------
(* The layout of records and pages.                                        *)

Bytes(bits) == (bits + FlagBits - 1) \div FlagBits

\* computeRecordLayout: a null flag per column, then the fields.
RecordSize(cols) == Bytes(Len(cols)) + FoldSeq(LAMBDA c, n : n + FieldSize[c.kind], 0, cols)

\* recordsPerPage: an occupancy bitmap and as many records as it counts.
RecordsPerPage(cols) ==
  Max({n \in 0 .. PayloadSize : Bytes(n) + n * RecordSize(cols) <= PayloadSize})

\* No page of any layout has more slots: a record is a byte of flags and one field.
MaxSlots ==
  Max({n \in 0 .. PayloadSize :
         Bytes(n) + n * (1 + Min({FieldSize[k] : k \in DOMAIN FieldSize})) <= PayloadSize})
NoRecord == <<>>

Positions(cols, kind) == {i \in DOMAIN cols : cols[i].kind = kind}
ColumnAt(cols, name) == CHOOSE i \in DOMAIN cols : cols[i].name = name
ColumnNamed(cols, name) == \E i \in DOMAIN cols : cols[i].name = name
Names(cols) == {cols[i].name : i \in DOMAIN cols}

Slots(cols) == 1 .. RecordsPerPage(cols)
OccupiedSlots(page) == {s \in 1 .. MaxSlots : page.records[s] # NoRecord}

\* Where records lie, and the records as the schema describes them: one value per
\* column.
Places(pgs) == {x \in Pages \X (1 .. MaxSlots) : pgs[x[1]].records[x[2]] # NoRecord}
RecordsOf(strm, pgs) ==
  {[page |-> x[1], slot |-> x[2],
    values |-> [name \in Names(strm.columns) |-> pgs[x[1]].records[x[2]][ColumnAt(strm.columns, name)]]] :
     x \in Places(pgs)}

IndexEntries == [key : Values, page : Pages, slot : 1 .. MaxSlots]
KeyEntries(strm, pgs) ==
  IF strm.key = "" THEN {}
  ELSE LET i == ColumnAt(strm.columns, strm.key)
       IN  {[key |-> pgs[x[1]].records[x[2]][i], page |-> x[1], slot |-> x[2]] : x \in Places(pgs)}

TypeOK ==
  /\ stream.columns \in Seq(Columns)
  /\ stream.constraints \subseteq Constraints
  /\ \A p \in Pages : /\ pages[p].laidOutFor \in Seq(Columns)
                      /\ pages[p].records \in [1 .. MaxSlots -> Seq(Values)]
  /\ leaf \subseteq IndexEntries
  /\ info.counters \in Seq(0 .. MaxInt)
  /\ Len(info.counters) = Len(info.builtFor)
  /\ phase \in {"idle", "writing", "altering"}
  /\ changes \in 0 .. MaxChanges
  /\ alters \in 0 .. MaxAlters
  /\ torn \in BOOLEAN

Nothing == [none |-> TRUE]

\* A table without records, its counters zero.
Init ==
  /\ stream \in Starts
  /\ pages = [p \in Pages |-> [laidOutFor |-> stream.columns,
                               records |-> [s \in 1 .. MaxSlots |-> NoRecord]]]
  /\ leaf = {}
  /\ info = [builtFor |-> stream.columns, counters |-> [i \in DOMAIN stream.columns |-> 0]]
  /\ lastID = Len(stream.columns)
  /\ phase = "idle"
  /\ edit = Nothing
  /\ pending = <<>>
  /\ before = {}
  /\ inserted = [i \in {} |-> 0]
  /\ changes = 0
  /\ alters = 0
  /\ torn = FALSE

-----------------------------------------------------------------------------
(* The record writer.                                                      *)

\* readAutoIncCounters: the counters are found only if the file was built for as
\* many columns as the schema has.
CountersReadable == Len(info.builtFor) = Len(stream.columns)

OpenWriter ==
  /\ phase = "idle"
  /\ ~torn
  /\ changes < MaxChanges
  /\ phase' = "writing"
  /\ edit' = [pages    |-> pages,
              leaf     |-> leaf,
              counters |-> info.counters,
              raised   |-> {},
              inserted |-> inserted]
  /\ UNCHANGED <<disk, pending, before, inserted, changes, alters, torn>>

AutoColumns == Positions(stream.columns, "autoinc")

\* assignAutoInc: the next value of a counter.
NextValue(counters, i) == counters[i] + stream.columns[i].increment

MayAssign(counters, i) ==
  NextValue(counters, i) <= stream.columns[i].maxValue /\ NextValue(counters, i) <= MaxInt

\* The values with a number for every AUTOINC column that has none.
Unnumbered(values) == {i \in AutoColumns : values[i] = Null}

\* Mutant: a number that is given does not count.
AssignedAlways(counters, values) ==
  [i \in DOMAIN values |-> IF i \in AutoColumns THEN NextValue(counters, i) ELSE values[i]]

Assigned(counters, values) ==
  [i \in DOMAIN values |-> IF i \in Unnumbered(values) THEN NextValue(counters, i) ELSE values[i]]

\* newConstraintChecks: every constraint names a column, and only integers have
\* bounds; otherwise no write is accepted.
ConstraintsResolve ==
  \A c \in stream.constraints :
    /\ ColumnNamed(stream.columns, c.column)
    /\ c.kind = "check" =>
         stream.columns[ColumnAt(stream.columns, c.column)].kind \in {"integer", "autoinc"}

\* check: NOT NULL, and the bounds of a CHECK, which a NULL passes.
Satisfies(rec, c) ==
  LET v == rec[ColumnAt(stream.columns, c.column)]
  IN  IF c.kind = "notnull" THEN v # Null
      ELSE \/ v = Null
           \/ /\ c.min # Null => v >= c.min
              /\ c.max # Null => v <= c.max
ChecksPass(rec) == \A c \in stream.constraints : Satisfies(rec, c)

\* checkKeyIndex: a primary key is not NULL and not there yet; an index whose key
\* did not move is skipped.
KeyOf(rec) == rec[ColumnAt(stream.columns, stream.key)]
KeyIsFree(entries, key) == key # Null /\ \A e \in entries : e.key # key

FreeSlots == {x \in Pages \X Slots(stream.columns) : edit.pages[x[1]].records[x[2]] = NoRecord}
FirstFree ==
  CHOOSE x \in FreeSlots :
    \A y \in FreeSlots : x[1] < y[1] \/ (x[1] = y[1] /\ x[2] <= y[2])

\* Mutant: the counter follows what was assigned, not what was inserted.
RaisedByAssignment(counters, values, rec) ==
  {i \in Unnumbered(values) : rec[i] > counters[i]}

\* raiseAutoInc: the columns whose counter an insert moves, and the counters then.
Raised(counters, values, rec) == {i \in AutoColumns : rec[i] # Null /\ rec[i] > counters[i]}
CountersAfter(counters, values, rec) ==
  [i \in DOMAIN counters |-> IF i \in Raised(counters, values, rec) THEN rec[i] ELSE counters[i]]

Higher(f, id, v) == [i \in DOMAIN f \cup {id} |->
                       IF i # id THEN f[i] ELSE IF i \in DOMAIN f /\ f[i] > v THEN f[i] ELSE v]

InsertedAfter(f, cols, rec) ==
  FoldSet(LAMBDA n, g : Higher(g, cols[n].id, rec[n]), f, {n \in AutoColumns : rec[n] # Null})

\* One value is the caller's; the others are NULL or left to the counters.
InsertedValues(i, v) == [n \in DOMAIN stream.columns |-> IF n = i THEN v ELSE Null]

Insert(i, v) ==
  /\ phase = "writing"
  /\ changes < MaxChanges
  /\ AutoColumns # {} => CountersReadable
  /\ ConstraintsResolve
  /\ LET values == InsertedValues(i, v)
         rec == Assigned(edit.counters, values)
     IN  /\ \A n \in Unnumbered(values) : MayAssign(edit.counters, n)
         /\ ChecksPass(rec)
         /\ stream.key # "" => KeyIsFree(edit.leaf, KeyOf(rec))
         /\ FreeSlots # {}
         /\ edit' = [edit EXCEPT
                       !.pages[FirstFree[1]].records[FirstFree[2]] = rec,
                       !.leaf = IF stream.key = "" THEN @
                                ELSE @ \cup {[key |-> KeyOf(rec), page |-> FirstFree[1],
                                              slot |-> FirstFree[2]]},
                       !.raised = @ \cup Raised(edit.counters, values, rec),
                       !.counters = CountersAfter(@, values, rec),
                       !.inserted = InsertedAfter(@, stream.columns, rec)]
  /\ changes' = changes + 1
  /\ UNCHANGED <<disk, phase, pending, before, inserted, alters, torn>>

\* UpdateColumn: the other columns keep their bytes, the counters their values.
Update(p, s, i, v) ==
  /\ phase = "writing"
  /\ changes < MaxChanges
  /\ ConstraintsResolve
  /\ edit.pages[p].records[s] # NoRecord
  /\ LET old == edit.pages[p].records[s]
         rec == [old EXCEPT ![i] = v]
         moved == stream.key # "" /\ KeyOf(rec) # KeyOf(old)
     IN  /\ rec # old
         /\ ChecksPass(rec)
         /\ moved => KeyIsFree(edit.leaf, KeyOf(rec))
         /\ edit' = [edit EXCEPT
                       !.pages[p].records[s] = rec,
                       !.leaf = IF ~moved THEN @
                                ELSE {e \in @ : <<e.page, e.slot>> # <<p, s>>}
                                     \cup {[key |-> KeyOf(rec), page |-> p, slot |-> s]}]
  /\ changes' = changes + 1
  /\ UNCHANGED <<disk, phase, pending, before, inserted, alters, torn>>

Delete(p, s) ==
  /\ phase = "writing"
  /\ changes < MaxChanges
  /\ ConstraintsResolve
  /\ edit.pages[p].records[s] # NoRecord
  /\ edit' = [edit EXCEPT
                !.pages[p].records[s] = NoRecord,
                !.leaf = {e \in @ : <<e.page, e.slot>> # <<p, s>>}]
  /\ changes' = changes + 1
  /\ UNCHANGED <<disk, phase, pending, before, inserted, alters, torn>>

Closed ==
  /\ phase' = "idle"
  /\ edit' = Nothing

\* writeAutoIncCounters: the counters that moved go back to their places.
Commit ==
  /\ phase = "writing"
  /\ pages' = edit.pages
  /\ leaf' = edit.leaf
  /\ info' = [info EXCEPT !.counters =
                [n \in DOMAIN @ |-> IF n \in edit.raised THEN edit.counters[n] ELSE @[n]]]
  /\ inserted' = edit.inserted
  /\ Closed
  /\ UNCHANGED <<stream, lastID, pending, before, changes, alters, torn>>

Rollback ==
  /\ phase = "writing"
  /\ Closed
  /\ UNCHANGED <<disk, pending, before, inserted, changes, alters, torn>>

-----------------------------------------------------------------------------
(* ALTER TABLE.                                                            *)

\* spliceSchemaColumns: one definition is cut out, or one appended; what follows
\* the definitions is copied.
SpliceDrop(strm, i) == [strm EXCEPT !.columns = RemoveAt(@, i)]
SpliceAdd(strm, col) == [strm EXCEPT !.columns = Append(@, col)]

\* Mutant: the records close ranks, as a compacting rewrite would have it.
RecordForSlotCompacted(page, s) ==
  LET kept == SetToSortSeq(OccupiedSlots(page), <)
  IN  IF s \in DOMAIN kept THEN page.records[kept[s]] ELSE NoRecord

\* The members of a finite set, each once, by an order.
InOrder(S, Precedes(_, _)) ==
  CHOOSE s \in [1 .. Cardinality(S) -> S] : \A i, j \in DOMAIN s : i < j => Precedes(s[i], s[j])

\* What decodeRecord is given.
Present == {pages[x[1]].records[x[2]] : x \in Pages \X (1 .. MaxSlots)} \ {NoRecord}

\* rewriteDataPage: every record is decoded by the old columns, transformed, and
\* encoded by the new ones into the slot it had.
RecordForSlot(page, s) == page.records[s]
RewrittenPage(page, cols, transform) ==
  [laidOutFor |-> cols,
   records |-> [s \in 1 .. MaxSlots |->
                  LET rec == RecordForSlot(page, s)
                  IN  IF rec = NoRecord THEN NoRecord ELSE transform[rec]]]

\* Mutant: the records are counted instead of their slots.
EveryRecordFitsCounted(cols) ==
  \A p \in Pages : Cardinality(OccupiedSlots(pages[p])) <= RecordsPerPage(cols)

\* ErrRecordWontFit otherwise.
EveryRecordFits(cols) == \A p \in Pages : OccupiedSlots(pages[p]) \subseteq Slots(cols)

\* The buffered stream, then the data pages, are written in the order they were
\* first touched; ADD COLUMN records its object id after them.
Writes(extra) ==
  <<<<"schema", 0>>>> \o [n \in 1 .. Cardinality(Pages) |->
                            <<"page", InOrder(Pages, <)[n]>>] \o extra

BeginAlter(new, transform, extra) ==
  /\ alters < MaxAlters
  /\ phase = "idle"
  /\ ~torn
  /\ ~stream.blobs
  /\ EveryRecordFits(new.columns)
  /\ edit' = [stream |-> new,
              pages  |-> [p \in Pages |-> RewrittenPage(pages[p], new.columns, transform)]]
  /\ phase' = "altering"
  /\ pending' = Writes(extra)
  /\ before' = RecordsOf(stream, pages)
  /\ alters' = alters + 1
  /\ UNCHANGED <<disk, inserted, changes, torn>>

\* prepareNewColumn: the id after the last one the database handed out.
NextID == lastID + 1

\* Mutant: the NULL comes first.
ExtendedInFront(rec) == <<Null>> \o rec

\* The transform of ADD COLUMN.
Extended(rec) == Append(rec, Null)

\* A column of a name and kind the package can write, at the end; NULL in every
\* record.
AddColumn(name, kind) ==
  LET col == [name |-> name, id |-> NextID, kind |-> kind, increment |-> 1, maxValue |-> MaxInt]
  IN  /\ ~ColumnNamed(stream.columns, name)
      /\ kind \in CreatableKinds
      /\ BeginAlter(SpliceAdd(stream, col), [rec \in Present |-> Extended(rec)], <<<<"lastID", col.id>>>>)

\* columnCoveredByIndex and columnNamedByConstraint.
NamedByTail(name) == stream.key = name \/ \E c \in stream.constraints : c.column = name

\* Mutant: the last value is left out.
WithoutLast(rec, i) == Front(rec)

\* The transform of DROP COLUMN.
Without(rec, i) == RemoveAt(rec, i)

\* columnToDrop: never the only one.
MayBeDropped(i) == i \in DOMAIN stream.columns /\ Len(stream.columns) > 1

DropColumn(i) ==
  /\ MayBeDropped(i)
  /\ ~NamedByTail(stream.columns[i].name)
  /\ BeginAlter(SpliceDrop(stream, i), [rec \in Present |-> Without(rec, i)], <<>>)

\* flushPages, then setLastObjectID: one write.
FlushNext ==
  /\ phase = "altering"
  /\ pending # <<>>
  /\ LET unit == Head(pending)
     IN  /\ stream' = IF unit[1] = "schema" THEN edit.stream ELSE stream
         /\ pages' = IF unit[1] = "page" THEN [pages EXCEPT ![unit[2]] = edit.pages[unit[2]]]
                     ELSE pages
         /\ lastID' = IF unit[1] = "lastID" THEN unit[2] ELSE lastID
  /\ pending' = Tail(pending)
  /\ UNCHANGED <<leaf, info, phase, edit, before, inserted, changes, alters, torn>>

FinishAlter ==
  /\ phase = "altering"
  /\ pending = <<>>
  /\ before' = {}
  /\ Closed
  /\ UNCHANGED <<disk, pending, inserted, changes, alters, torn>>

\* A write fails, or the process dies, with writes still to come.
CutShort ==
  /\ phase = "altering"
  /\ pending # <<>>
  /\ pending' = <<>>
  /\ before' = {}
  /\ torn' = (/\ pending[1][1] # "schema"
              /\ \E n \in DOMAIN pending : pending[n][1] = "page")
  /\ Closed
  /\ UNCHANGED <<disk, inserted, changes, alters>>

-----------------------------------------------------------------------------
(* Compaction: CREATE TABLE in a new file, and an insert of every record.  *)

\* A reader's order: by page, then by slot.
InRecordOrder(pgs) ==
  LET order == InOrder(Places(pgs), LAMBDA x, y : x[1] < y[1] \/ (x[1] = y[1] /\ x[2] < y[2]))
  IN  [n \in DOMAIN order |-> pgs[order[n][1]].records[order[n][2]]]

\* planCompactTable: columns CREATE TABLE can write, with the engine's numbering.
CanBeRebuilt(col) ==
  /\ col.kind \in CreatableKinds
  /\ col.kind = "autoinc" => col.increment = 1 /\ col.maxValue = MaxInt

Renumbered(cols) == [i \in DOMAIN cols |-> [cols[i] EXCEPT !.id = i]]

\* The copies fill one page after the other: where the n-th of them comes to lie.
Ahead(cols, p) == RecordsPerPage(cols) * Cardinality({q \in Pages : q < p})
PlaceNumber(cols, x) == Ahead(cols, x[1]) + x[2]
FreePlaces(cols, n) == {x \in Pages \X Slots(cols) : PlaceNumber(cols, x) = n}

\* indexInsert, for the record that is copied.
EntriesAt(places, rec) ==
  IF stream.key = "" THEN {}
  ELSE {[key |-> KeyOf(rec), page |-> x[1], slot |-> x[2]] : x \in places}

\* copyTableRows: one Insert, which numbers what has no number.
Copied(acc, values) ==
  LET rec == Assigned(acc.counters, values)
      places == FreePlaces(stream.columns, Len(acc.records) + 1)
  IN  [records  |-> Append(acc.records, rec),
       leaf     |-> acc.leaf \cup EntriesAt(places, rec),
       counters |-> CountersAfter(acc.counters, values, rec),
       inserted |-> InsertedAfter(acc.inserted, Renumbered(stream.columns), rec),
       accepted |-> /\ acc.accepted
                    /\ \A i \in Unnumbered(values) : MayAssign(acc.counters, i)
                    /\ ConstraintsResolve /\ ChecksPass(rec)
                    /\ stream.key # "" => KeyIsFree(acc.leaf, KeyOf(rec))
                    /\ places # {}]

NewTable == [records |-> <<>>, leaf |-> {}, counters |-> [i \in DOMAIN stream.columns |-> 0],
             inserted |-> [i \in {} |-> 0], accepted |-> TRUE]

\* The pages when all of them are copied.
Filled(cols, records) ==
  [p \in Pages |->
     [laidOutFor |-> cols,
      records |-> [s \in 1 .. MaxSlots |->
         IF s \in Slots(cols) /\ PlaceNumber(cols, <<p, s>>) <= Len(records)
           THEN records[PlaceNumber(cols, <<p, s>>)] ELSE NoRecord]]]

\* CompactDatabase: the file that is used from then on, or none.
Compact ==
  LET copy == FoldLeft(Copied, NewTable, InRecordOrder(pages))
      cols == Renumbered(stream.columns)
      new == [stream EXCEPT !.columns = cols]
  IN  /\ alters < MaxAlters
      /\ phase = "idle"
      /\ ~torn
      /\ ~stream.blobs
      /\ \A i \in DOMAIN cols : CanBeRebuilt(cols[i])
      /\ copy.accepted
      /\ stream' = new
      /\ pages' = Filled(cols, copy.records)
      /\ leaf' = copy.leaf
      /\ info' = [builtFor |-> cols, counters |-> copy.counters]
      /\ lastID' = Len(cols)
      /\ inserted' = copy.inserted
      /\ alters' = alters + 1
      /\ UNCHANGED <<phase, edit, pending, before, changes, torn>>

Next ==
  \/ OpenWriter
  \/ \E i \in DOMAIN stream.columns, v \in Values : Insert(i, v)
  \/ \E p \in Pages, s \in 1 .. MaxSlots :
       \/ Delete(p, s)
       \/ \E i \in DOMAIN stream.columns, v \in Values : Update(p, s, i, v)
  \/ Commit
  \/ Rollback
  \/ \E name \in ColumnNames, kind \in NewKinds : AddColumn(name, kind)
  \/ \E i \in DOMAIN stream.columns : DropColumn(i)
  \/ FlushNext
  \/ FinishAlter
  \/ CutShort
  \/ Compact

Spec == Init /\ [][Next]_vars

-----------------------------------------------------------------------------

\* Types hold, and unless an alteration was cut short every page is laid out, between
\* operations, for the columns the schema has, every record has a value for each of
\* them, and lies in a slot that layout addresses: a layout that changes with the
\* number of columns never leaves a record behind that no reader would find.
PagesFollowSchema ==
  /\ TypeOK
  /\ phase # "altering" /\ ~torn =>
       \A p \in Pages :
         /\ pages[p].laidOutFor = stream.columns
         /\ OccupiedSlots(pages[p]) \subseteq Slots(stream.columns)
         /\ \A s \in OccupiedSlots(pages[p]) : Len(pages[p].records[s]) = Len(stream.columns)

\* An index entry names a page and a slot, and an alteration rewrites both pages
\* and slots without looking at any index: the entries still name the records
\* with their keys, whatever was added, dropped, inserted and moved.
IndexPointsAtRecords ==
  phase # "altering" /\ ~torn => leaf = KeyEntries(stream, pages)

\* NOT NULL and CHECK hold of every record, though ADD COLUMN stores NULL in all
\* of them and DROP COLUMN moves every value to another position.
ConstraintsHold ==
  phase # "altering" /\ ~torn =>
    \A p \in Pages : \A s \in OccupiedSlots(pages[p]) : ChecksPass(pages[p].records[s])

\* An alteration that completes keeps every record where it was, with the value of
\* every column both schemas have, and NULL in the column that is new.
AlterationsKeepRecords ==
  [][FinishAlter =>
       LET after == RecordsOf(stream, pages)
       IN  /\ Cardinality(after) = Cardinality(before)
           /\ \A r \in before : \E q \in after :
                /\ <<q.page, q.slot>> = <<r.page, r.slot>>
                /\ \A i \in DOMAIN q.values :
                     q.values[i] = IF i \in DOMAIN r.values THEN r.values[i] ELSE Null]_vars

\* A compacted table has the records of the old one, in the same order and with the
\* same values, but for AUTOINC columns without a number, which get one.
SameRecords(old, new, mayDiffer(_, _)) ==
  /\ Len(new) = Len(old)
  /\ \A n \in DOMAIN old : \A i \in DOMAIN old[n] :
       mayDiffer(old[n], i) \/ new[n][i] = old[n][i]
CompactionsKeepRecords ==
  [][Compact => SameRecords(InRecordOrder(pages), InRecordOrder(pages'),
                            LAMBDA values, i : i \in Unnumbered(values))]_vars

\* The counter of an AUTOINC column is not behind any value an insert has stored in
\* it, whoever chose the value and whatever was rolled back or deleted since, as
\* long as the column is where it was when the table info file was built.  (The
\* inserts of a compacted table are those that copied the records it was left.)
InPlace == \A i \in AutoColumns : i \in DOMAIN info.builtFor /\ info.builtFor[i] = stream.columns[i]
CounterKeepsUp ==
  \A i \in AutoColumns :
    stream.columns[i].id \in DOMAIN inserted =>
      info.counters[i] >= inserted[stream.columns[i].id]
CountersKeepUp == phase # "altering" /\ ~torn /\ CountersReadable /\ InPlace => CounterKeepsUp

-----------------------------------------------------------------------------
(* What the code is meant to rule out and does not.                        *)

\* A table info file that describes other columns than the schema's is refused,
\* so that no column is numbered from another one's counter (autoIncCounterBase's
\* comment).
CountersBelongToColumns == phase # "altering" /\ ~torn /\ CountersReadable => CounterKeepsUp

\* A compaction holds the same rows (CompactDatabase's comment), though it copies
\* them with Insert, to which NULL in an AUTOINC column means a number to be given.
CompactionsChangeNothing ==
  [][Compact => SameRecords(InRecordOrder(pages), InRecordOrder(pages'),
                            LAMBDA values, i : FALSE)]_vars
=============================================================================
