----------------------------- MODULE IndexLeaf -----------------------------
(***************************************************************************)
(* The leaf pages of a table's user indexes (writer_index.go, ddl_index.go,*)
(* index.go): several indexes over one table, each a run of entries sorted *)
(* by key.  The writer splices single entries in and out as rows come, go  *)
(* and change; CREATE INDEX builds a leaf from all rows at once; a lookup  *)
(* searches it by bisection.  Each of the three relies on the order and    *)
(* the comparison the other two use.                                       *)
(*                                                                         *)
(* A string is a sequence of numbers: the letter of c is c \div 2, its     *)
(* case c % 2.  What a refused call leaves is the subject of TableWriter.  *)
(***************************************************************************)
EXTENDS Integers, FiniteSets, Sequences, SequencesExt, FiniteSetsExt

CONSTANTS
  Indexes,      \* the indexes CREATE TABLE or CREATE INDEX may make, by name
  RowIDs,       \* places of records, in record order
  Rows,         \* the records: an integer and a string, or Null for either
  IndexedSize,  \* characters of a string that go into a key
  Capacity,     \* entries a leaf page holds
  MaxOps,       \* bound: records inserted or updated
  Null, NoRow   \* model values

ASSUME IndexLeafAssumption ==
  /\ IsFiniteSet(RowIDs) /\ RowIDs = 1 .. Cardinality(RowIDs)
  /\ Rows \subseteq [n : Int \cup {Null}, t : Seq(Nat) \cup {Null}]
  /\ NoRow \notin Rows
  /\ IndexedSize \in Nat \ {0}
  /\ Capacity \in Nat
  /\ MaxOps \in Nat
  /\ \A i \in DOMAIN Indexes :
       /\ Indexes[i].components \in Seq([column : {"n", "t"}, nocase : BOOLEAN])
       /\ Indexes[i].primary => Indexes[i].unique

Numbers == {row.n : row \in Rows} \ {Null}
Texts == {row.t : row \in Rows} \ {Null}

VARIABLES
  rows,   \* the records
  leaf,   \* per index that exists, its entries in page order
  placed, \* per index, when the entry of a row was put where it is
  ops     \* records inserted or updated so far

vars == <<rows, leaf, placed, ops>>

-----------------------------------------------------------------------------
(* Keys and their order.                                                   *)

\* indexKeyOf, makeStringKey: the first characters of a string.
KeyText(t) == SubSeq(t, 1, IF Len(t) < IndexedSize THEN Len(t) ELSE IndexedSize)

KeyPart(row, c) ==
  IF row[c.column] = Null THEN Null
  ELSE IF c.column = "t" THEN KeyText(row.t) ELSE row.n

KeyOf(row, i) == [p \in DOMAIN Indexes[i].components |-> KeyPart(row, Indexes[i].components[p])]

Letters(t) == [p \in DOMAIN t |-> t[p] \div 2]
Cases(t) == [p \in DOMAIN t |-> t[p] % 2]

\* Lexicographic order, as -1, 0 or 1.
CompareNumbers(a, b) == IF a < b THEN -1 ELSE IF a > b THEN 1 ELSE 0
CompareSequences(a, b) ==
  LET differ == {p \in DOMAIN a \cap DOMAIN b : a[p] # b[p]}
  IN  IF differ = {} THEN CompareNumbers(Len(a), Len(b))
      ELSE CompareNumbers(a[Min(differ)], b[Min(differ)])

\* compareStringKeys: collation, the letters before their cases, NOCASE without
\* the cases.
CompareTexts(a, b, nocase) ==
  LET letters == CompareSequences(Letters(a), Letters(b))
  IN  IF letters # 0 \/ nocase THEN letters ELSE CompareSequences(Cases(a), Cases(b))

\* compareInt32Keys and compareStringKeys: NULL sorts first.
CompareParts(a, b, c) ==
  IF a = Null /\ b = Null THEN 0
  ELSE IF a = Null THEN -1
  ELSE IF b = Null THEN 1
  ELSE IF c.column = "t" THEN CompareTexts(a, b, c.nocase) ELSE CompareNumbers(a, b)

\* compareIndexKeys: component by component.
Compare(a, b, i) ==
  LET part(p) == CompareParts(a[p], b[p], Indexes[i].components[p])
      differ == {p \in DOMAIN Indexes[i].components : part(p) # 0}
  IN  IF differ = {} THEN 0 ELSE part(Min(differ))

HasNull(key) == \E p \in DOMAIN key : key[p] = Null

-----------------------------------------------------------------------------
(* A leaf.                                                                 *)

Entry(key, id) == [key |-> key, id |-> id]

HasKey(i, key) == \E p \in DOMAIN leaf[i] : Compare(leaf[i][p].key, key, i) = 0

\* room and indexRoom: the entry after the last one still fits.
HasRoom(i) == Len(leaf[i]) < Capacity

\* Mutant: a key goes in front of the ones that equal it.
PositionBeforeEquals(entries, key, i) ==
  Min({p \in DOMAIN entries : Compare(entries[p].key, key, i) >= 0} \cup {Len(entries) + 1})

\* insert: behind the whole run of equal keys.
Position(entries, key, i) ==
  Min({p \in DOMAIN entries : Compare(entries[p].key, key, i) > 0} \cup {Len(entries) + 1})

Inserted(entries, key, id, i) == InsertAt(entries, Position(entries, key, i), Entry(key, id))

\* remove: the first entry that refers to the row.
Removed(entries, id) ==
  RemoveAt(entries, Min({p \in DOMAIN entries : entries[p].id = id}))

Live == {id \in RowIDs : rows[id] # NoRow}

Precedes(a, b, i) ==
  LET c == Compare(KeyOf(rows[a], i), KeyOf(rows[b], i), i)
  IN  c < 0 \/ (c = 0 /\ a < b)

\* buildIndexLeafEntries: a stable sort of the records' keys.
SortedIDs(i) ==
  CHOOSE s \in [1 .. Cardinality(Live) -> Live] :
    \A p, q \in DOMAIN s : p < q => Precedes(s[p], s[q], i)

Built(i) == [p \in 1 .. Cardinality(Live) |->
               Entry(KeyOf(rows[SortedIDs(i)[p]], i), SortedIDs(i)[p])]

\* refuseDuplicateEntries: equal keys are neighbours.
HasDuplicates(entries, i) ==
  \E p \in DOMAIN entries : p > 1 /\ Compare(entries[p - 1].key, entries[p].key, i) = 0

-----------------------------------------------------------------------------
(* The operations.                                                         *)

Init ==
  /\ rows = [id \in RowIDs |-> NoRow]
  /\ leaf = [i \in {} |-> <<>>]
  /\ placed = [i \in {} |-> [id \in RowIDs |-> 0]]
  /\ ops = 0

Count == ops < MaxOps /\ ops' = ops + 1

\* A primary key comes with the table, the others at any time; a unique index over
\* several columns only with the table.
CreateIndex(i) ==
  /\ i \notin DOMAIN leaf
  /\ Indexes[i].primary \/ (Indexes[i].unique /\ Len(Indexes[i].components) > 1) => ops = 0
  /\ Len(Built(i)) <= Capacity
  /\ Indexes[i].unique => ~HasDuplicates(Built(i), i)
  /\ leaf' = [j \in DOMAIN leaf \cup {i} |-> IF j = i THEN Built(i) ELSE leaf[j]]
  /\ placed' = [j \in DOMAIN leaf \cup {i} |->
                  IF j = i THEN [id \in RowIDs |-> id] ELSE placed[j]]
  /\ UNCHANGED <<rows, ops>>

\* An index a constraint is built on stays.
DropIndex(i) ==
  /\ i \in DOMAIN leaf
  /\ ~Indexes[i].unique
  /\ leaf' = Restrict(leaf, DOMAIN leaf \ {i})
  /\ placed' = Restrict(placed, DOMAIN placed \ {i})
  /\ UNCHANGED <<rows, ops>>

\* Mutant: NULLs are never duplicates, as in SQL.
KeyAcceptedNulls(i, key) == IF HasNull(key) THEN ~Indexes[i].primary ELSE ~HasKey(i, key)

\* checkKeyIndex: a NULL is a duplicate of a NULL.
KeyAccepted(i, key) ==
  /\ Indexes[i].primary => ~HasNull(key)
  /\ ~HasKey(i, key)

\* Behind every age a rebuilt leaf starts with.
Now == Cardinality(RowIDs) + ops + 1

\* freeSlot: the first place without a record.
FreeID == Min(RowIDs \ Live)

Insert(row) ==
  /\ Live # RowIDs
  /\ \A i \in DOMAIN leaf : /\ Indexes[i].unique => KeyAccepted(i, KeyOf(row, i))
                            /\ HasRoom(i)
  /\ rows' = [rows EXCEPT ![FreeID] = row]
  /\ leaf' = [i \in DOMAIN leaf |-> Inserted(leaf[i], KeyOf(row, i), FreeID, i)]
  /\ placed' = [i \in DOMAIN leaf |-> [placed[i] EXCEPT ![FreeID] = Now]]
  /\ Count

Delete(id) ==
  /\ id \in Live
  /\ rows' = [rows EXCEPT ![id] = NoRow]
  /\ leaf' = [i \in DOMAIN leaf |-> Removed(leaf[i], id)]
  /\ placed' = [i \in DOMAIN leaf |-> [placed[i] EXCEPT ![id] = 0]]
  /\ UNCHANGED ops

\* Mutant: an entry moves only if its key compares differently.
KeyMovedByOrder(old, row, i) == Compare(KeyOf(old, i), KeyOf(row, i), i) # 0

\* indexReplace: the bytes of the key decide, not its order.
KeyMoved(old, row, i) == KeyOf(old, i) # KeyOf(row, i)

\* checkKeyIndexes: an index whose key compares as before is not asked.
MustCheck(old, row, i) ==
  /\ Indexes[i].unique
  /\ Compare(KeyOf(old, i), KeyOf(row, i), i) # 0

Update(id, row) ==
  /\ id \in Live
  /\ rows[id] # row
  /\ \A i \in DOMAIN leaf : MustCheck(rows[id], row, i) => KeyAccepted(i, KeyOf(row, i))
  /\ rows' = [rows EXCEPT ![id] = row]
  /\ leaf' = [i \in DOMAIN leaf |->
                IF KeyMoved(rows[id], row, i)
                THEN Inserted(Removed(leaf[i], id), KeyOf(row, i), id, i)
                ELSE leaf[i]]
  /\ placed' = [i \in DOMAIN leaf |->
                  IF KeyMoved(rows[id], row, i) THEN [placed[i] EXCEPT ![id] = Now]
                  ELSE placed[i]]
  /\ Count

Next ==
  \/ \E i \in DOMAIN Indexes : CreateIndex(i) \/ DropIndex(i)
  \/ \E row \in Rows : Insert(row)
  \/ \E id \in RowIDs : Delete(id) \/ (\E row \in Rows : Update(id, row))

Spec == Init /\ [][Next]_vars

-----------------------------------------------------------------------------
(* Lookups.                                                                *)

\* Mutant: the bisection stops at the first key behind the one looked for.
AtOrBehindStrictly(entries, key, i, p) == Compare(entries[p].key, key, i) > 0

\* findInLeaf's condition, which bisection expects to turn true once.
AtOrBehind(entries, key, i, p) == Compare(entries[p].key, key, i) >= 0

\* sort.Search over 1 .. n: the first position where the condition holds, found by
\* halving; n + 1 if there is none.
Bisect(entries, key, i) ==
  LET last == Len(entries) + 1
      search[w \in (1 .. last) \X (1 .. last)] ==
        IF w[1] >= w[2] THEN w[1]
        ELSE LET mid == (w[1] + w[2]) \div 2
             IN  IF AtOrBehind(entries, key, i, mid) THEN search[<<w[1], mid>>]
                 ELSE search[<<mid + 1, w[2]>>]
  IN  search[<<1, last>>]

NotFound == 0
FindInLeaf(i, key) ==
  LET p == Bisect(leaf[i], key, i)
  IN  IF p <= Len(leaf[i]) /\ Compare(leaf[i][p].key, key, i) = 0 THEN leaf[i][p].id ELSE NotFound

\* FindByPrimaryKey and FindByStringKey search an index of one column.
Searchable == {i \in DOMAIN leaf : Len(Indexes[i].components) = 1}
SearchKeys(i) ==
  IF Indexes[i].components[1].column = "t" THEN {<<KeyText(t)>> : t \in Texts}
  ELSE {<<n>> : n \in Numbers}

-----------------------------------------------------------------------------

Keys(i) == {KeyOf(row, i) : row \in Rows}

TypeOK ==
  /\ rows \in [RowIDs -> Rows \cup {NoRow}]
  /\ DOMAIN leaf \subseteq DOMAIN Indexes
  /\ \A i \in DOMAIN leaf : /\ leaf[i] \in Seq([key : Keys(i), id : RowIDs])
                            /\ Len(leaf[i]) <= Capacity
  /\ DOMAIN placed = DOMAIN leaf
  /\ ops \in 0 .. MaxOps

\* Types hold, and spliced entry by entry through any history of inserts, updates
\* and deletes, every leaf is the leaf a rebuild from the rows gives, but for the
\* order of entries that compare equal: the same entries, in order.
LeafEqualsRebuild ==
  /\ TypeOK
  /\ \A i \in DOMAIN leaf :
       /\ LET built == Built(i) IN ToSet(leaf[i]) = ToSet(built) /\ Len(leaf[i]) = Len(built)
       /\ \A p \in DOMAIN leaf[i] : p > 1 => Compare(leaf[i][p - 1].key, leaf[i][p].key, i) <= 0

\* Entries that compare equal, as names that differ in case do in a NOCASE index and
\* long strings with one beginning in any, keep the order in which they were put
\* there, whether by a rebuild, an insert or an update.
EqualKeysKeepOrder ==
  \A i \in DOMAIN leaf :
    \A p, q \in DOMAIN leaf[i] :
      p < q /\ Compare(leaf[i][p].key, leaf[i][q].key, i) = 0
        => placed[i][leaf[i][p].id] < placed[i][leaf[i][q].id]

\* No two rows of a table agree on the key of a unique index, NULLs included,
\* though an insert looks for a duplicate in one leaf at a time, an update skips
\* indexes whose key compares as before, and CREATE INDEX looks at neighbours only.
UniqueKeysDiffer ==
  \A i \in DOMAIN leaf : Indexes[i].unique =>
    \A a, b \in Live :
      a # b => Compare(KeyOf(rows[a], i), KeyOf(rows[b], i), i) # 0

\* A bisection finds a row exactly if some row has a key that compares equal to the
\* one looked for, and then the first of the run.
LookupsAreExact ==
  \A i \in Searchable : \A key \in SearchKeys(i) :
    LET hits == {p \in DOMAIN leaf[i] : Compare(leaf[i][p].key, key, i) = 0}
    IN  FindInLeaf(i, key) = IF hits = {} THEN NotFound ELSE leaf[i][Min(hits)].id
=============================================================================
