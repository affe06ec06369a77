---------------------------- MODULE SchemaStream ----------------------------
(***************************************************************************)
(* A table's schema stream: its columns, index records, constraint records *)
(* and two page numbers, one behind the other without any directory        *)
(* (ddl_index.go, ddl_constraint.go, ddl_constraint_write.go, schema.go,   *)
(* ddl_create.go), edited by splicing and kept in an internal file on a    *)
(* chain of pages (catalog.go, ddl.go).                                    *)
(*                                                                         *)
(* A token stands for one field of the stream, whatever its width, so a    *)
(* name with its length is one token.  Compression is left out: a file is  *)
(* as long as its stream.  Which rows allow an operation, and what it does *)
(* to them, is the subject of AlterTable and SchemaOps.                    *)
(***************************************************************************)
EXTENDS Integers, FiniteSets, Sequences, SequencesExt, FiniteSetsExt

CONSTANTS
  Tables, ColumnNames, IndexNames, NoName, \* model values
  VarcharColumns,  \* the names that are given to VARCHAR columns
  ColumnLists,     \* what CREATE TABLE may be given: names of columns,
  ConstraintLists, \* and constraints, which only compaction gives it
  Pages,       \* pages the chains can have
  Capacity,    \* tokens on a page
  MaxEdits     \* bound: operations on schemas

ASSUME SchemaStreamAssumption ==
  /\ Pages \subseteq Nat /\ IsFiniteSet(Pages)
  /\ Capacity \in Nat \ {0}
  /\ MaxEdits \in Nat

VARIABLES
  file,         \* pages in use, the tokens of each page, and its link or -1
  place,        \* per table that exists, the first pages of its two files
  declared,     \* per table that exists, what its operations have declared
  lastObjectID, \* LastObjectID of the database header
  edits         \* operations so far

vars == <<file, place, declared, lastObjectID, edits>>

-----------------------------------------------------------------------------
(* Serializing.                                                            *)

FlagTrue == 255
FlagByte(set) == IF set THEN FlagTrue ELSE 0

Concat(seqs) == FlattenSeq(seqs)
Each(Op(_), s) == Concat([i \in DOMAIN s |-> Op(s[i])])
Counted(Op(_), s) == <<Len(s)>> \o Each(Op, s)

\* A DEFAULT or a bound: absent, or present with a value.
Absent == 0
TypedValue(v) == IF v = Absent THEN <<Absent>> ELSE <<1, v>>

\* serializeColumnDef never writes a DEFAULT.
ColumnDef(c) == <<c.name, c.id>> \o TypedValue(Absent)

\* indexColumnMaxIndexedSize, the one value there is.
MaxIndexedSize == 20

\* The columns an index covers; nothing here writes a descending one.
Ascending(names, nocase) ==
  [n \in DOMAIN names |-> [name |-> names[n], descending |-> FALSE, nocase |-> nocase]]

IndexColumn(c) == <<c.name, FlagByte(c.descending), FlagByte(c.nocase), MaxIndexedSize>>
IndexRecord(i) ==
  <<i.name, i.id, 0, FlagByte(i.unique), FlagByte(i.primary), Len(i.columns), i.root>>
  \o Each(IndexColumn, i.columns)

\* constraintKind
Primary == 0
Unique == 2
NotNull == 3
Check == 4
KeyKinds == {Primary, Unique}
ColumnKinds == {NotNull, Check}

\* constraintOwnerColumns: a key covers columns, another constraint exactly one.
ConstraintRequests ==
  [kind : KeyKinds, index : IndexNames, columns : Seq(ColumnNames) \ {<<>>}]
  \cup [kind : {NotNull}, columns : {<<c>> : c \in ColumnNames}]
  \cup [kind : {Check}, columns : {<<c>> : c \in ColumnNames}, min : Int, max : Int]

\* A table without columns is refused before anything else (createTable).
ASSUME RequestsAssumption ==
  /\ ColumnLists \subseteq Seq(ColumnNames) \ {<<>>}
  /\ ConstraintLists \subseteq Seq(ConstraintRequests)

CoveredColumn(c) == <<c.id, c.name>>
KeyBody(k) == <<1, k.table, k.index>> \o Counted(CoveredColumn, k.columns)
ColumnBody(k) ==
  <<1, k.table, k.columns[1].name>>
  \o (IF k.kind = Check THEN TypedValue(k.min) \o TypedValue(k.max) ELSE <<>>)

ConstraintRecord(k) ==
  <<k.kind, k.name, k.id, 0, k.owner>> \o (IF k.kind \in KeyKinds THEN KeyBody(k) ELSE ColumnBody(k))

Trailer(root) == <<root, -1>>

\* buildSchemaFile
Stream(d) ==
  Counted(ColumnDef, d.columns) \o Counted(IndexRecord, d.indexes)
  \o Counted(ConstraintRecord, d.constraints) \o Trailer(d.root)

-----------------------------------------------------------------------------
(* Parsing.  A parser takes the stream and a place in it and returns what  *)
(* it read and the place behind; a refusal has no place.                   *)

Refused == [pos |-> 0, val |-> <<>>]
Parsed(pos, val) == [pos |-> pos, val |-> val]
Fits(s, pos, n) == pos > 0 /\ pos + n - 1 <= Len(s)

\* The loops of parseIndexRecords, parseConstraintRecords and parseSchema;
\* parse[p] is what the parser makes of place p.
Repeated(parse, pos, n) ==
  LET read[k \in 0..n] ==
        IF k = 0 THEN Parsed(pos, <<>>)
        ELSE LET done == read[k - 1]
                 r == parse[done.pos]
             IN  IF done.pos = 0 \/ r.pos = 0 THEN Refused ELSE Parsed(r.pos, Append(done.val, r.val))
  IN  read[n]
Times(Parse(_, _), s, pos, n) == Repeated([p \in Nat |-> Parse(s, p)], pos, n)

\* readTypedValue, columnDefaultEnd
ParseTypedValue(s, pos) ==
  IF ~Fits(s, pos, 1) THEN Refused
  ELSE IF s[pos] = Absent THEN Parsed(pos + 1, Absent)
  ELSE IF s[pos] = 1 /\ Fits(s, pos, 2) THEN Parsed(pos + 2, s[pos + 1])
  ELSE Refused

ParseColumnDef(s, pos) ==
  IF ~Fits(s, pos, 2) THEN Refused
  ELSE LET v == ParseTypedValue(s, pos + 2)
       IN  IF v.pos = 0 THEN Refused ELSE Parsed(v.pos, [name |-> s[pos], id |-> s[pos + 1]])

IsFlag(b) == b \in {0, FlagTrue}

ParseIndexColumn(s, pos) ==
  IF Fits(s, pos, 4) /\ IsFlag(s[pos + 1]) /\ IsFlag(s[pos + 2]) /\ s[pos + 3] = MaxIndexedSize
    THEN Parsed(pos + 4, [name |-> s[pos], descending |-> s[pos + 1] = FlagTrue,
                          nocase |-> s[pos + 2] = FlagTrue])
    ELSE Refused

\* parseIndexRecord, parseIndexRecordFlags
ParseIndexRecord(s, pos) ==
  IF ~Fits(s, pos, 7) \/ s[pos + 2] # 0 \/ ~IsFlag(s[pos + 3]) \/ ~IsFlag(s[pos + 4])
     \/ s[pos + 5] \notin 1..Len(s)
    THEN Refused
    ELSE LET cols == Times(ParseIndexColumn, s, pos + 7, s[pos + 5])
         IN  IF cols.pos = 0 THEN Refused
             ELSE Parsed(cols.pos, [name |-> s[pos], id |-> s[pos + 1], unique |-> s[pos + 3] = FlagTrue,
                                    primary |-> s[pos + 4] = FlagTrue, root |-> s[pos + 6],
                                    columns |-> cols.val])

ParseCoveredColumn(s, pos) ==
  IF Fits(s, pos, 2) THEN Parsed(pos + 2, [id |-> s[pos], name |-> s[pos + 1]]) ELSE Refused

\* parseKeyConstraintBody
ParseKey(s, pos) ==
  IF ~Fits(s, pos, 9) \/ s[pos + 5] # 1 \/ s[pos + 8] \notin 0..Len(s) THEN Refused
  ELSE LET cols == Times(ParseCoveredColumn, s, pos + 9, s[pos + 8])
       IN  IF cols.pos = 0 THEN Refused
           ELSE Parsed(cols.pos, [kind |-> s[pos], name |-> s[pos + 1], id |-> s[pos + 2],
                                  owner |-> s[pos + 4], table |-> s[pos + 6], index |-> s[pos + 7],
                                  columns |-> cols.val])

\* parseColumnConstraintBody
ParseColumnConstraint(s, pos) ==
  IF ~Fits(s, pos, 8) \/ s[pos + 5] # 1 THEN Refused
  ELSE LET low == ParseTypedValue(s, pos + 8)
           high == ParseTypedValue(s, low.pos)
           column == <<[name |-> s[pos + 7]]>>
       IN  IF s[pos] = NotNull
             THEN Parsed(pos + 8, [kind |-> s[pos], name |-> s[pos + 1], id |-> s[pos + 2],
                                   owner |-> s[pos + 4], table |-> s[pos + 6], columns |-> column])
           ELSE IF low.pos = 0 \/ high.pos = 0 THEN Refused
           ELSE Parsed(high.pos, [kind |-> s[pos], name |-> s[pos + 1], id |-> s[pos + 2],
                                  owner |-> s[pos + 4], table |-> s[pos + 6], columns |-> column,
                                  min |-> low.val, max |-> high.val])

ParseConstraint(s, pos) ==
  IF ~Fits(s, pos, 5) \/ s[pos + 3] # 0 THEN Refused
  ELSE IF s[pos] \in KeyKinds THEN ParseKey(s, pos)
  ELSE IF s[pos] \in ColumnKinds THEN ParseColumnConstraint(s, pos)
  ELSE Refused

\* readArrayCount and the records behind it
ParseArray(Parse(_, _), s, pos) ==
  IF Fits(s, pos, 1) /\ s[pos] \in 0..(Len(s) - pos) THEN Times(Parse, s, pos + 1, s[pos]) ELSE Refused

\* schemaColumnsEnd, schemaColumnSpans
Columns(s) == ParseArray(ParseColumnDef, s, 1)
Indexes(s) == ParseArray(ParseIndexRecord, s, Columns(s).pos)
KeyRules(s) == ParseArray(ParseConstraint, s, Indexes(s).pos)

TrailerSize == 2

\* Mutant: what is behind the records is not measured.
EndsInAnyTrailer(s, pos) == pos # 0

EndsInTrailer(s, pos) == pos # 0 /\ Len(s) - pos + 1 = TrailerSize

\* parseSchemaTail
Understood(s) == EndsInTrailer(s, KeyRules(s).pos)

\* parseSchema, parseSchemaTail and systemIndexRoots together
Meaning(s) ==
  [columns |-> Columns(s).val, indexes |-> Indexes(s).val,
   constraints |-> KeyRules(s).val, root |-> s[Len(s) - 1]]

-----------------------------------------------------------------------------
(* The file of a stream: how many tokens, then the tokens, then whatever   *)
(* the last page held before.                                              *)

PageNumbers == Pages \cup {-1}

\* internalFilePageChain, internalFilePages; PageWalks has what a bad link does.
ChainFrom(links, first) ==
  LET walked[n \in 0..Cardinality(Pages)] ==
        IF n = 0 THEN <<>>
        ELSE LET before == walked[n - 1]
                 p == IF before = <<>> THEN first ELSE links[Last(before)]
             IN  IF p = -1 THEN before ELSE Append(before, p)
  IN  walked[Cardinality(Pages)]

\* decompressInternalFile
Decompressed(tokens) ==
  IF tokens[1] + 1 > Len(tokens) THEN Refused ELSE Parsed(tokens[1] + 2, SubSeq(tokens, 2, tokens[1] + 1))

\* readInternalFilePages
WholeFile(p) ==
  LET chain == ChainFrom(file.next, p)
  IN  Decompressed(Concat([i \in DOMAIN chain |-> file.data[chain[i]]]))

\* Table.Schema, readSchemaStream, systemIndexRoots
FirstPage(p) == Decompressed(file.data[p])

Free(f) == Pages \ f.allocated

\* allocatePages takes the lowest free pages.
Lowest(n, from) == [i \in 1..n |-> CHOOSE p \in from : Cardinality({q \in from : q < p}) = i - 1]

PagesFor(tokens) == (Len(tokens) + Capacity - 1) \div Capacity

Follows(chain, p) == \E i \in 1..(Len(chain) - 1) : chain[i] = p

\* Mutant: the page a chain ends with keeps the link it was freed with.
LinkedForward(links, chain) ==
  [p \in Pages |-> IF Follows(chain, p) THEN chain[1 + CHOOSE i \in DOMAIN chain : chain[i] = p]
                   ELSE links[p]]

\* linkChain, and initPage for the pages that are new.
Linked(links, chain) ==
  [p \in Pages |-> IF Follows(chain, p) THEN chain[1 + CHOOSE i \in DOMAIN chain : chain[i] = p]
                   ELSE IF p = Last(chain) THEN -1 ELSE links[p]]

\* resizeChain: longer by the lowest free pages, or shorter at the end.
Resized(f, old, need) ==
  LET added == Lowest(need - Len(old), Free(f))
      chain == IF need < Len(old) THEN SubSeq(old, 1, need) ELSE old \o added
  IN  [chain |-> chain,
       file |-> [allocated |-> (f.allocated \ ToSet(old)) \cup ToSet(chain),
                 data |-> f.data, next |-> Linked(f.next, chain)]]

Part(tokens, i) ==
  SubSeq(tokens, (i - 1) * Capacity + 1, IF i * Capacity < Len(tokens) THEN i * Capacity ELSE Len(tokens))

\* Only as many bytes are copied as there are left.
Over(old, new) == new \o SubSeq(old, Len(new) + 1, Capacity)

\* The tokens on the pages of a chain, and what every other page had.
Filled(data, chain, tokens) ==
  [p \in Pages |-> IF \E i \in DOMAIN chain : chain[i] = p
                     THEN Over(data[p], Part(tokens, CHOOSE i \in DOMAIN chain : chain[i] = p))
                     ELSE data[p]]

\* writeInternalFilePages
Written(f, first, tokens) ==
  LET r == Resized(f, ChainFrom(f.next, first), PagesFor(tokens))
  IN  [allocated |-> r.file.allocated, data |-> Filled(r.file.data, r.chain, tokens), next |-> r.file.next]

\* compressInternalFile
FileOf(s) == <<Len(s)>> \o s

\* allocatePages: the pages are new, so each ends a chain.
Taken(f, n) ==
  LET pages == ToSet(Lowest(n, Free(f)))
  IN  [allocated |-> f.allocated \cup pages, data |-> f.data,
       next |-> [p \in Pages |-> IF p \in pages THEN -1 ELSE f.next[p]]]

\* applyDrop, freeChainPages: a page that is freed keeps its link and its data.
Released(f, pages) == [allocated |-> f.allocated \ pages, data |-> f.data, next |-> f.next]

-----------------------------------------------------------------------------
Exists(t) == t \in DOMAIN place
Restricted(f, S) == [x \in S |-> f[x]]
Edited(t, d) == [x \in DOMAIN declared \cup {t} |-> IF x = t THEN d ELSE declared[x]]
Names(recs) == {r.name : r \in ToSet(recs)}

TypeOK ==
  /\ file \in [allocated : SUBSET Pages,
              data : [Pages -> Seq(Int \cup Tables \cup ColumnNames \cup IndexNames \cup {NoName})],
              next : [Pages -> PageNumbers]]
  /\ \A p \in Pages : Len(file.data[p]) = Capacity
  /\ DOMAIN place \subseteq Tables
  /\ \A t \in DOMAIN place : {place[t].system, place[t].schema} \subseteq file.allocated
  /\ DOMAIN declared = DOMAIN place
  /\ lastObjectID \in Nat
  /\ edits \in 0..MaxEdits

Init ==
  /\ file = [allocated |-> {}, data |-> [p \in Pages |-> [i \in 1..Capacity |-> 0]],
             next |-> [p \in Pages |-> -1]]
  /\ place = <<>>
  /\ declared = <<>>
  /\ lastObjectID = 0
  /\ edits = 0

EditsLeft == edits < MaxEdits /\ edits' = edits + 1

\* The stream a schema operation works on: Table.Schema, readSchemaStream.
StreamOf(t) == FirstPage(place[t].schema).val
Readable(t) == FirstPage(place[t].schema).pos # 0 /\ Understood(StreamOf(t))

Store(t, f, stream) ==
  /\ PagesFor(FileOf(stream)) - Len(ChainFrom(f.next, place[t].schema)) <= Cardinality(Free(f))
  /\ file' = Written(f, place[t].schema, FileOf(stream))

-----------------------------------------------------------------------------
(* CREATE TABLE and DROP TABLE.                                            *)

SystemPages == 2
SystemFile == [i \in 1..(SystemPages * Capacity) |-> 0]

\* assignColumnIDs: the ids behind the table's own.
NewColumns(names) ==
  [i \in DOMAIN names |-> [name |-> names[i], id |-> lastObjectID + 1 + i]]
Place(recs, name) == CHOOSE i \in DOMAIN recs : recs[i].name = name
Called(recs, name) == recs[Place(recs, name)]

IsKey(k) == k.kind \in KeyKinds
KeyOnly(k) == IF IsKey(k) THEN <<k>> ELSE <<>>
Keys(list) == Each(KeyOnly, list)

\* keyConstraintIndex, rootIndexRecords
KeyIndex(k, id, root) ==
  [name |-> k.index, id |-> id, unique |-> k.kind = Unique, primary |-> k.kind = Primary,
   root |-> root, columns |-> Ascending(k.columns, FALSE)]

\* planTableConstraints: the indexes have their ids before the constraints.
NewIndexes(list, firstID, roots) ==
  [i \in DOMAIN Keys(list) |-> KeyIndex(Keys(list)[i], firstID + i - 1, roots[i])]

\* The n-th constraint: the keys own the indexes in turn.
Numbered(list, n, t, columns, indexes, id) ==
  LET k == list[n]
      covered == [i \in DOMAIN k.columns |-> Called(columns, k.columns[i])]
      column == <<[name |-> k.columns[1]]>>
  IN  IF IsKey(k)
        THEN [kind |-> k.kind, name |-> k.columns[1], id |-> id, owner |-> indexes[Len(Keys(SubSeq(list, 1, n)))].id,
              table |-> t, index |-> k.index, columns |-> covered]
      ELSE IF k.kind = Check
        THEN [kind |-> k.kind, name |-> k.columns[1], id |-> id, owner |-> covered[1].id,
              table |-> t, columns |-> column, min |-> k.min, max |-> k.max]
      ELSE [kind |-> k.kind, name |-> k.columns[1], id |-> id, owner |-> covered[1].id,
            table |-> t, columns |-> column]

NewConstraints(list, t, columns, indexes, firstID) ==
  [i \in DOMAIN list |-> Numbered(list, i, t, columns, indexes, firstID + i - 1)]

\* Mutant: the ids of the constraints are not counted.
IDsUsedByIndexes(columns, list) == 1 + Len(columns) + Len(Keys(list))

\* planNewTable: the id of the last thing that got one.
IDsUsed(columns, list) == 1 + Len(columns) + Len(Keys(list)) + Len(list)

CreateTable(t, names, list) ==
  LET pages == Lowest(SystemPages + 2 + Len(Keys(list)), Free(file))
      schema == pages[SystemPages + 1]
      root == pages[SystemPages + 2]
      columns == NewColumns(names)
      indexes == NewIndexes(list, lastObjectID + 2 + Len(names), SubSeq(pages, SystemPages + 3, Len(pages)))
      d == [columns |-> columns, indexes |-> indexes, root |-> root,
            constraints |-> NewConstraints(list, t, columns, indexes,
                                           lastObjectID + 2 + Len(names) + Len(indexes))]
      taken == Taken(file, Len(pages))
      linked == [allocated |-> taken.allocated, data |-> taken.data,
                 next |-> [taken.next EXCEPT ![pages[1]] = pages[2]]]
      withSystem == Written(linked, pages[1], SystemFile)
  IN  /\ EditsLeft
      /\ ~Exists(t)
      /\ \A k \in ToSet(list) : ToSet(k.columns) \subseteq ToSet(names)
      /\ SystemPages + 2 + Len(Keys(list)) <= Cardinality(Free(file))
      /\ SystemPages + 2 + Len(Keys(list)) + PagesFor(FileOf(Stream(d))) - 1 <= Cardinality(Free(file))
      /\ file' = Written(withSystem, schema, FileOf(Stream(d)))
      /\ place' = [x \in DOMAIN place \cup {t} |->
                     IF x = t THEN [system |-> pages[1], schema |-> schema] ELSE place[x]]
      /\ declared' = Edited(t, d)
      /\ lastObjectID' = lastObjectID + IDsUsed(columns, list)

\* ownedPages, as far as the schema stream names them.
PagesOf(t) ==
  LET s == StreamOf(t)
  IN  ToSet(ChainFrom(file.next, place[t].system)) \cup ToSet(ChainFrom(file.next, place[t].schema))
      \cup {r.root : r \in ToSet(Indexes(s).val)} \cup {Meaning(s).root}

DropTable(t) ==
  /\ EditsLeft
  /\ Exists(t) /\ DOMAIN place # {t} /\ Readable(t)
  /\ file' = Released(file, PagesOf(t))
  /\ place' = Restricted(place, DOMAIN place \ {t})
  /\ declared' = Restricted(declared, DOMAIN place \ {t})
  /\ UNCHANGED lastObjectID

-----------------------------------------------------------------------------
(* CREATE INDEX and DROP INDEX.                                            *)

\* Mutant: the constraint is spliced in and not counted.
SplicedIndexUncounted(s, record, constraint) ==
  LET first == Columns(s).pos
      tail == Indexes(s).pos
      trailer == Len(s) - TrailerSize + 1
  IN  SubSeq(s, 1, first - 1) \o <<s[first] + 1>> \o SubSeq(s, first + 1, tail - 1) \o record
      \o SubSeq(s, tail, trailer - 1) \o constraint \o SubSeq(s, trailer, Len(s))

\* createIndexPlan.splice: a record behind the others of each array.
SplicedIndex(s, record, constraint) ==
  LET first == Columns(s).pos
      tail == Indexes(s).pos
      trailer == Len(s) - TrailerSize + 1
      rest == IF constraint = <<>> THEN SubSeq(s, tail, Len(s))
              ELSE <<s[tail] + 1>> \o SubSeq(s, tail + 1, trailer - 1) \o constraint
                   \o SubSeq(s, trailer, Len(s))
  IN  SubSeq(s, 1, first - 1) \o <<s[first] + 1>> \o SubSeq(s, first + 1, tail - 1) \o record \o rest

\* serializeNewIndex: a unique index brings a constraint without a table name.
NewIndex(name, columns, unique, nocase, root) ==
  [name |-> name, id |-> lastObjectID + 1, unique |-> unique, primary |-> FALSE,
   root |-> root, columns |-> Ascending(columns, nocase)]
NewUnique(name, column) ==
  [kind |-> Unique, name |-> column.name, id |-> lastObjectID + 2, owner |-> lastObjectID + 1,
   table |-> NoName, index |-> name, columns |-> <<[id |-> column.id, name |-> column.name]>>]

\* CreateIndex, CreateUniqueIndex and CreateNoCaseIndex
CreateIndex(t, name, columns, unique, nocase) ==
  LET s == StreamOf(t)
      root == Lowest(1, Free(file))[1]
      index == NewIndex(name, columns, unique, nocase, root)
      rule == NewUnique(name, Called(Columns(s).val, columns[1]))
  IN  /\ EditsLeft
      /\ Exists(t) /\ Readable(t) /\ Free(file) # {}
      /\ ToSet(columns) \subseteq Names(Columns(s).val)
      /\ name \notin Names(Indexes(s).val)
      /\ unique => Len(columns) = 1
      /\ nocase => ~unique /\ Len(columns) = 1 /\ columns[1] \in VarcharColumns
      /\ Store(t, Taken(file, 1),
               SplicedIndex(s, IndexRecord(index), IF unique THEN ConstraintRecord(rule) ELSE <<>>))
      /\ declared' = Edited(t, [columns |-> declared[t].columns,
                                 indexes |-> Append(declared[t].indexes, index),
                                 constraints |-> IF unique THEN Append(declared[t].constraints, rule)
                                                 ELSE declared[t].constraints,
                                 root |-> declared[t].root])
      /\ lastObjectID' = lastObjectID + IF unique THEN 2 ELSE 1
      /\ UNCHANGED place

\* Places of record n of an array and of the one behind it.
Span(Parse(_, _), s, pos, n) == <<Times(Parse, s, pos + 1, n - 1).pos, Times(Parse, s, pos + 1, n).pos>>

Cut(s, counter, span) ==
  SubSeq(s, 1, counter - 1) \o <<s[counter] - 1>> \o SubSeq(s, counter + 1, span[1] - 1)
  \o SubSeq(s, span[2], Len(s))

BacksConstraint(s, name) == \E k \in ToSet(KeyRules(s).val) : IsKey(k) /\ k.index = name

\* What is declared of the others when one is dropped.
Without(recs, name) == IF name \in Names(recs) THEN RemoveAt(recs, Place(recs, name)) ELSE recs

DropIndex(t, name) ==
  LET s == StreamOf(t)
      n == Place(Indexes(s).val, name)
  IN  /\ EditsLeft
      /\ Exists(t) /\ Readable(t)
      /\ name \in Names(Indexes(s).val)
      /\ ~BacksConstraint(s, name)
      /\ Store(t, Released(file, {Indexes(s).val[n].root}),
               Cut(s, Columns(s).pos, Span(ParseIndexRecord, s, Columns(s).pos, n)))
      /\ declared' = Edited(t, [declared[t] EXCEPT !.indexes = Without(@, name)])
      /\ UNCHANGED <<place, lastObjectID>>

-----------------------------------------------------------------------------
(* ADD COLUMN and DROP COLUMN.                                             *)

AddColumn(t, name) ==
  LET s == StreamOf(t)
      end == Columns(s).pos
      col == [name |-> name, id |-> lastObjectID + 1]
  IN  /\ EditsLeft
      /\ Exists(t) /\ Readable(t)
      /\ name \notin Names(Columns(s).val)
      /\ Store(t, file, <<s[1] + 1>> \o SubSeq(s, 2, end - 1) \o ColumnDef(col) \o SubSeq(s, end, Len(s)))
      /\ declared' = Edited(t, [declared[t] EXCEPT !.columns = Append(@, col)])
      /\ lastObjectID' = lastObjectID + 1
      /\ UNCHANGED place

\* columnCoveredByIndex, columnNamedByConstraint
Depended(s, name) ==
  \/ \E i \in ToSet(Indexes(s).val) : name \in Names(i.columns)
  \/ \E k \in ToSet(KeyRules(s).val) : name \in Names(k.columns)

DropColumn(t, name) ==
  LET s == StreamOf(t)
      n == Place(Columns(s).val, name)
  IN  /\ EditsLeft
      /\ Exists(t) /\ Readable(t)
      /\ name \in Names(Columns(s).val) /\ Len(Columns(s).val) > 1
      /\ ~Depended(s, name)
      /\ Store(t, file, Cut(s, 1, Span(ParseColumnDef, s, 1, n)))
      /\ declared' = Edited(t, [declared[t] EXCEPT !.columns = Without(@, name)])
      /\ UNCHANGED <<place, lastObjectID>>

Lists(S) == {<<x>> : x \in S} \cup {<<x, y>> : x, y \in S}

Next ==
  \E t \in Tables :
    \/ \E names \in ColumnLists, list \in ConstraintLists :
         CreateTable(t, names, list)
    \/ DropTable(t)
    \/ \E name \in IndexNames :
         \/ \E columns \in Lists(ColumnNames), unique, nocase \in BOOLEAN :
              CreateIndex(t, name, columns, unique, nocase)
         \/ DropIndex(t, name)
    \/ \E name \in ColumnNames : AddColumn(t, name) \/ DropColumn(t, name)

Spec == Init /\ [][Next]_vars

-----------------------------------------------------------------------------
(* What must hold.                                                         *)

FileOfTable(t) == WholeFile(place[t].schema)

(* Whatever columns, indexes and constraints came and went, the stream of  *)
(* a table reads back, by its whole chain, as exactly what its operations  *)
(* declared: no splice moves a neighbour, and no record is read one field  *)
(* out of step.                                                            *)
StreamsSayWhatWasDeclared ==
  \A t \in DOMAIN place :
    FileOfTable(t).pos # 0 /\ Understood(FileOfTable(t).val) /\ Meaning(FileOfTable(t).val) = declared[t]

(* A stream that is cut off anywhere is refused, not read as a shorter     *)
(* schema: the length behind the records is what tells (parseSchemaTail).  *)
CutStreamsAreRefused ==
  \A t \in DOMAIN place : LET s == FileOfTable(t).val
                         IN  \A n \in 0..(Len(s) - 1) : ~Understood(SubSeq(s, 1, n))

Owned(t) ==
  <<ToSet(ChainFrom(file.next, place[t].system)), ToSet(ChainFrom(file.next, place[t].schema)),
    {declared[t].root}>> \o [i \in DOMAIN declared[t].indexes |-> {declared[t].indexes[i].root}]

(* Types hold, and every page in use is in one chain of one table or one   *)
(* of its index roots, and no chain runs into a free page or into another  *)
(* chain, though pages are reused with the links they were freed with.  A  *)
(* chain is no longer than its file.                                       *)
ChainsAreSeparate ==
  /\ TypeOK
  /\ \A t, u \in DOMAIN place : \A i \in DOMAIN Owned(t), j \in DOMAIN Owned(u) :
       Owned(t)[i] \cap Owned(u)[j] # {} => t = u /\ i = j
  /\ UNION {UNION ToSet(Owned(t)) : t \in DOMAIN place} = file.allocated
  /\ \A t \in DOMAIN place :
       Len(ChainFrom(file.next, place[t].schema)) = PagesFor(FileOf(FileOfTable(t).val))

\* The fields of what is declared whose records have an id.
Numbering == {"columns", "indexes", "constraints"}

(* No two things of the file, in one table or in several, have one id, and *)
(* none has one that is still to be given.                                 *)
IDsAreUnique ==
  \A t, u \in DOMAIN declared : \A f, g \in Numbering :
    \A i \in DOMAIN declared[t][f], j \in DOMAIN declared[u][g] :
      /\ declared[t][f][i].id <= lastObjectID
      /\ declared[t][f][i].id = declared[u][g][j].id => t = u /\ f = g /\ i = j
=============================================================================
