-------------------------- MODULE AlterTableProofs --------------------------
(***************************************************************************)
(* Proofs about AlterTable, for any tables to start from, any columns,     *)
(* sizes and pages, and any number of changes and alterations, each of     *)
(* which may be cut short between two writes.                              *)
(***************************************************************************)
EXTENDS AlterTable, Extrema

USE AlterTableAssumption

-----------------------------------------------------------------------------
(* The inductive invariant.                                                *)

\* What ConstraintsResolve and ChecksPass say, of any schema.
ResolvesIn(strm) ==
  \A c \in strm.constraints :
    /\ ColumnNamed(strm.columns, c.column)
    /\ c.kind = "check" =>
         strm.columns[ColumnAt(strm.columns, c.column)].kind \in {"integer", "autoinc"}
SatisfiesIn(strm, rec, c) ==
  LET v == rec[ColumnAt(strm.columns, c.column)]
  IN  IF c.kind = "notnull" THEN v # Null
      ELSE \/ v = Null
           \/ /\ c.min # Null => v >= c.min
              /\ c.max # Null => v <= c.max
PassesIn(strm, rec) == \A c \in strm.constraints : SatisfiesIn(strm, rec, c)

Schemas == [columns : Seq(Columns), key : STRING, constraints : SUBSET Constraints, blobs : BOOLEAN]
PageSets == [Pages -> [laidOutFor : Seq(Columns), records : [1 .. MaxSlots -> Seq(Values)]]]
Maps(T) == UNION {[D -> T] : D \in SUBSET Nat}
InsertedMaps == Maps(0 .. MaxInt)

\* A record a writer of the schema would accept.
GoodRecord(strm, rec) ==
  /\ Len(rec) = Len(strm.columns)
  /\ ResolvesIn(strm)
  /\ PassesIn(strm, rec)

\* The pages hold what the schema says, and the leaf names it.
Consistent(strm, pgs, lf) ==
  /\ \A p \in Pages : pgs[p].laidOutFor = strm.columns
  /\ \A x \in Places(pgs) : /\ x[2] \in Slots(strm.columns)
                            /\ GoodRecord(strm, pgs[x[1]].records[x[2]])
  /\ lf = KeyEntries(strm, pgs)

\* A column the table info file was built for has moved to the front or not at all,
\* and no other has its id.
Follows(cols, built) ==
  /\ \A i \in DOMAIN cols :
       cols[i].id <= Len(built) => \E j \in DOMAIN built : i <= j /\ built[j].id = cols[i].id
  /\ \A i, j \in DOMAIN cols : cols[i].id = cols[j].id /\ cols[i].id <= Len(built) => i = j

\* The columns still in place have counters that are not behind.
KeepsUp(cols, built, counters, ins) ==
  \A i \in Positions(cols, "autoinc") \cap DOMAIN built :
    cols[i].id = built[i].id /\ cols[i].id \in DOMAIN ins => counters[i] >= ins[cols[i].id]

TypesHold ==
  /\ IsSchema(stream)
  /\ pages \in PageSets
  /\ leaf \subseteq IndexEntries
  /\ info \in [builtFor : Seq(Columns), counters : Seq(0 .. MaxInt)]
  /\ Len(info.counters) = Len(info.builtFor)
  /\ phase \in {"idle", "writing", "altering"}
  /\ inserted \in InsertedMaps
  /\ changes \in 0 .. MaxChanges
  /\ alters \in 0 .. MaxAlters
  /\ torn \in BOOLEAN

CountersHold ==
  /\ NumberedThrough(info.builtFor)
  /\ lastID \in Nat /\ lastID >= Len(info.builtFor)
  /\ Follows(stream.columns, info.builtFor)
  /\ KeepsUp(stream.columns, info.builtFor, info.counters, inserted)

AtRest == phase # "altering" /\ ~torn => Consistent(stream, pages, leaf)
TornIsIdle == torn => phase = "idle"

WriterEdits ==
  [pages : PageSets, leaf : SUBSET IndexEntries, counters : Seq(0 .. MaxInt),
   raised : SUBSET Nat, inserted : InsertedMaps]
Writing ==
  phase = "writing" =>
    /\ edit \in WriterEdits
    /\ Consistent(stream, edit.pages, edit.leaf)
    /\ Len(edit.counters) = Len(info.counters)
    /\ \A n \in DOMAIN info.counters \ edit.raised : edit.counters[n] = info.counters[n]
    /\ KeepsUp(stream.columns, info.builtFor, edit.counters, edit.inserted)

SchemaPending == pending # <<>> /\ pending[1][1] = "schema"
PagePending(p) == \E n \in DOMAIN pending : pending[n] = <<"page", p>>

\* What the alteration makes of the records, to AlterationsKeepRecords.
Carried(old, new) ==
  /\ Cardinality(new) = Cardinality(old)
  /\ \A r \in old : \E q \in new :
       /\ <<q.page, q.slot>> = <<r.page, r.slot>>
       /\ \A i \in DOMAIN q.values :
            q.values[i] = IF i \in DOMAIN r.values THEN r.values[i] ELSE Null

Altering ==
  phase = "altering" =>
    /\ edit \in [stream : Schemas, pages : PageSets]
    /\ IsSchema(edit.stream)
    /\ Consistent(edit.stream, edit.pages, leaf)
    /\ Follows(edit.stream.columns, info.builtFor)
    /\ KeepsUp(edit.stream.columns, info.builtFor, info.counters, inserted)
    /\ pending \in Seq({"schema", "page", "lastID"} \X Nat)
    /\ \A n \in DOMAIN pending : /\ pending[n][1] = "lastID" => pending[n][2] >= Len(info.builtFor)
                                 /\ pending[n][1] = "schema" => n = 1
    /\ SchemaPending => Consistent(stream, pages, leaf)
    /\ ~SchemaPending => stream = edit.stream
    /\ \A p \in Pages : pages[p] = edit.pages[p] \/ PagePending(p)
    /\ Carried(before, RecordsOf(edit.stream, edit.pages))

IInv ==
  /\ TypesHold
  /\ CountersHold
  /\ AtRest
  /\ TornIsIdle
  /\ Writing
  /\ Altering

-----------------------------------------------------------------------------
(* Columns.                                                                *)

\* A schema has columns, and looking a name up gives the column that has it.
LEMMA ColumnsOfSchemas ==
  ASSUME NEW t, IsSchema(t)
  PROVE  /\ t \in Schemas
         /\ t.columns \in Seq(Columns) /\ Len(t.columns) \in Nat \ {0}
         /\ DOMAIN t.columns = 1 .. Len(t.columns)
         /\ t.constraints \subseteq Constraints
         /\ \A i \in DOMAIN t.columns :
              /\ t.columns[i] \in Columns
              /\ ColumnNamed(t.columns, t.columns[i].name)
              /\ ColumnAt(t.columns, t.columns[i].name) = i
         /\ \A name : ColumnNamed(t.columns, name) =>
              /\ ColumnAt(t.columns, name) \in DOMAIN t.columns
              /\ t.columns[ColumnAt(t.columns, name)].name = name
         /\ t.key # "" => ColumnNamed(t.columns, t.key)
<1>1. t \in Schemas /\ t.columns # <<>>
  BY DEF IsSchema, Schemas
<1>2. t.columns \in Seq(Columns) /\ t.constraints \subseteq Constraints
  BY <1>1 DEF Schemas
<1> DEFINE cols == t.columns
<1>3. /\ Len(cols) \in Nat \ {0} /\ DOMAIN cols = 1 .. Len(cols)
      /\ \A i \in DOMAIN cols : cols[i] \in Columns
  BY <1>1, <1>2
<1>4. \A i, j \in DOMAIN cols : cols[i].name = cols[j].name => i = j
  BY DEF IsSchema
<1>5. t.key # "" => ColumnNamed(cols, t.key)
  BY DEF IsSchema, ColumnNamed
<1> HIDE DEF cols
<1>6. \A name : ColumnNamed(cols, name) =>
              /\ ColumnAt(cols, name) \in DOMAIN cols
              /\ cols[ColumnAt(cols, name)].name = name
  BY DEF ColumnNamed, ColumnAt
<1>7. \A i \in DOMAIN cols : ColumnNamed(cols, cols[i].name)
  BY DEF ColumnNamed
<1>8. \A i \in DOMAIN cols : ColumnAt(cols, cols[i].name) = i
  BY <1>4, <1>6, <1>7
<1>9. QED
  BY <1>1, <1>2, <1>3, <1>5, <1>6, <1>7, <1>8 DEF cols

-----------------------------------------------------------------------------
(* Layouts.                                                                *)

SizesSubsets(cols, h) ==
  h = [s \in SUBSET DOMAIN cols |->
         IF s = {} THEN 0 ELSE h[s \ {Chosen(s)}] + FieldSize[cols[Chosen(s)].kind]]

SmallestField == Min({FieldSize[k] : k \in DOMAIN FieldSize})

LEMMA SmallestFieldLaws ==
  SmallestField \in Nat /\ \A k \in DOMAIN FieldSize : SmallestField <= FieldSize[k]
<1> DEFINE sizes == {FieldSize[k] : k \in DOMAIN FieldSize}
<1>1. sizes \subseteq Nat /\ sizes # {}
  BY DEF CreatableKinds
<1> HIDE DEF sizes
<1>2. Min(sizes) \in sizes /\ \A y \in sizes : Min(sizes) <= y
  BY <1>1, MinOfBounded
<1>3. \A k \in DOMAIN FieldSize : FieldSize[k] \in sizes
  BY DEF sizes
<1>4. QED
  BY <1>1, <1>2, <1>3 DEF SmallestField, sizes

\* The fields of a record, added up in any order.
LEMMA FieldsAddUp ==
  ASSUME NEW cols \in Seq(Columns), Len(cols) > 0
  PROVE  \E h : /\ RecordSize(cols) = Bytes(Len(cols)) + h[DOMAIN cols]
               /\ \A s \in SUBSET DOMAIN cols : /\ h[s] \in Nat
                                                /\ h[s] = IF s = {} THEN 0
                                                          ELSE h[s \ {Chosen(s)}] + FieldSize[cols[Chosen(s)].kind]
<1> DEFINE D == DOMAIN cols
           total == FoldSeq(LAMBDA c, n : n + FieldSize[c.kind], 0, cols)
           size == [i \in D |-> FieldSize[cols[i].kind]]
           h == CHOOSE h : SizesSubsets(cols, h)
<1>12. RecordSize(cols) = Bytes(Len(cols)) + total
  BY DEF RecordSize
<1>1. total = h[D]
  BY DEF FoldSeq, FoldFunction, FoldFunctionOnSet, MapThenFoldSet, SizesSubsets, Chosen
<1>2. D = 1 .. Len(cols) /\ Len(cols) \in Nat \ {0} /\ IsFiniteSet(D) /\ 1 \in D
  BY FS_Interval
<1>3. \A i \in D : size[i] \in Nat /\ size[i] >= SmallestField
  <2>1. \A i \in D : cols[i] \in Columns
    BY <1>2
  <2>2. \A c \in Columns : c.kind \in DOMAIN FieldSize
    BY DEF Columns
  <2>3. QED
    BY <2>1, <2>2, SmallestFieldLaws
<1> DEFINE ch == [s \in SUBSET D |-> Chosen(s)]
           G == [x \in D \X Nat |-> x[2] + size[x[1]]]
<1>4. G \in [D \X Nat -> Nat]
  BY <1>3
<1>5. \A s \in SUBSET D : s # {} => ch[s] \in s
  BY DEF Chosen
<1>6. \E g : SizesSubsets(cols, g)
  <2>1. PICK g \in [SUBSET D -> Nat] : FoldsSubsets(G, 0, ch, D, g)
    <3> HIDE DEF G, ch, D
    <3>1. QED
      BY <1>2, <1>4, <1>5, FoldsExist
  <2>2. ASSUME NEW s \in SUBSET D
        PROVE  g[s] = IF s = {} THEN 0 ELSE g[s \ {Chosen(s)}] + FieldSize[cols[Chosen(s)].kind]
    <3>1. CASE s = {}
      BY <2>1, <3>1 DEF FoldsSubsets
    <3>2. CASE s # {}
      <4>1. g[s] = G[<<ch[s], g[s \ {ch[s]}]>>]
        BY <2>1, <3>2 DEF FoldsSubsets
      <4>2. ch[s] = Chosen(s) /\ ch[s] \in D /\ g[s \ {ch[s]}] \in Nat
        BY <1>5, <2>1, <3>2
      <4>3. QED
        BY <3>2, <4>1, <4>2
    <3>3. QED
      BY <3>1, <3>2
  <2>3. g = [s \in SUBSET D |-> g[s]]
    BY <2>1
  <2>4. QED
    BY <2>2, <2>3 DEF SizesSubsets
<1>7. SizesSubsets(cols, h)
  BY <1>6
<1> HIDE DEF h
<1>8. \A s \in SUBSET D : h[s] = IF s = {} THEN 0 ELSE h[s \ {Chosen(s)}] + size[Chosen(s)]
  BY <1>7 DEF SizesSubsets, Chosen
<1> HIDE DEF D, G, ch, total
<1>9. ASSUME NEW u \in SUBSET D PROVE h[u] \in Nat
  <2> DEFINE Good == {s \in SUBSET u : h[s] \in Nat}
  <2>1. ASSUME NEW s \in SUBSET u, \A x \in s : s \ {x} \in Good
        PROVE  s \in Good
    <3>0. s \in SUBSET D
      OBVIOUS
    <3>1. CASE s = {}
      <4>1. h[s] = 0
        BY <1>8, <3>0, <3>1, Zenon
      <4>2. QED
        BY <4>1
    <3>2. CASE s # {}
      <4>1. Chosen(s) \in s
        BY <3>2 DEF Chosen
      <4>2. h[s \ {Chosen(s)}] \in Nat
        BY <2>1, <4>1
      <4>3. size[Chosen(s)] \in Nat
        BY <1>3, <3>0, <4>1
      <4> HIDE DEF size
      <4>4. h[s] = h[s \ {Chosen(s)}] + size[Chosen(s)]
        BY <1>8, <3>0, <3>2, Zenon
      <4>5. h[s] \in Nat
        BY <4>2, <4>3, <4>4
      <4>6. QED
        BY <4>5
    <3>3. QED
      BY <3>1, <3>2
  <2>2. IsFiniteSet(u)
    BY <1>2, FS_Subset
  <2> HIDE DEF Good
  <2>3. u \in Good
    BY <2>1, <2>2, SubsetsByInduction
  <2>4. QED
    BY <2>3 DEF Good
<1>10. \A s \in SUBSET D : /\ h[s] \in Nat
                          /\ h[s] = IF s = {} THEN 0
                                    ELSE h[s \ {Chosen(s)}] + FieldSize[cols[Chosen(s)].kind]
  <2>1. \A s \in SUBSET D : s # {} => size[Chosen(s)] = FieldSize[cols[Chosen(s)].kind]
    BY DEF Chosen, D
  <2> HIDE DEF size
  <2>2. QED
    BY <1>8, <1>9, <2>1
<1>11. RecordSize(cols) = Bytes(Len(cols)) + h[D]
  BY <1>1, <1>12 DEF total
<1>13. QED
  BY <1>10, <1>11 DEF D

\* A record takes a byte and its smallest field, at least.
LEMMA RecordSizes ==
  ASSUME NEW cols \in Seq(Columns), Len(cols) > 0
  PROVE  RecordSize(cols) \in Nat /\ RecordSize(cols) >= 1 + SmallestField
<1> DEFINE D == DOMAIN cols
           size == [i \in D |-> FieldSize[cols[i].kind]]
<1>1. PICK h : /\ RecordSize(cols) = Bytes(Len(cols)) + h[D]
               /\ \A s \in SUBSET D : /\ h[s] \in Nat
                                      /\ h[s] = IF s = {} THEN 0
                                                ELSE h[s \ {Chosen(s)}] + FieldSize[cols[Chosen(s)].kind]
  BY FieldsAddUp
<1>2. D = 1 .. Len(cols) /\ Len(cols) \in Nat \ {0} /\ 1 \in D
  OBVIOUS
<1>3. \A i \in D : size[i] \in Nat /\ size[i] >= SmallestField
  <2>1. \A i \in D : cols[i] \in Columns
    BY <1>2
  <2>2. \A c \in Columns : c.kind \in DOMAIN FieldSize
    BY DEF Columns
  <2>3. QED
    BY <2>1, <2>2, SmallestFieldLaws
<1> HIDE DEF D
<1>4. h[D] \in Nat /\ h[D] >= SmallestField
  <2>1. Chosen(D) \in D
    BY <1>2 DEF Chosen
  <2>2. h[D \ {Chosen(D)}] \in Nat /\ h[D] \in Nat
    BY <1>1
  <2>3. D # {} /\ D \in SUBSET D
    BY <1>2
  <2>4. size[Chosen(D)] \in Nat /\ size[Chosen(D)] >= SmallestField
    BY <1>3, <2>1
  <2>5. h[D] = h[D \ {Chosen(D)}] + size[Chosen(D)]
    BY <1>1, <2>1, <2>3
  <2>6. QED
    BY <2>2, <2>4, <2>5, SmallestFieldLaws
<1>5. Bytes(Len(cols)) \in Nat /\ Bytes(Len(cols)) >= 1
  BY <1>2 DEF Bytes
<1>6. QED
  BY <1>1, <1>4, <1>5, SmallestFieldLaws

\* How long a record is depends on the kinds of its columns.
LEMMA SameKindsSameSize ==
  ASSUME NEW cols \in Seq(Columns), Len(cols) > 0, NEW new \in Seq(Columns), Len(new) = Len(cols),
         \A i \in 1 .. Len(cols) : new[i].kind = cols[i].kind
  PROVE  RecordsPerPage(new) = RecordsPerPage(cols)
<1> DEFINE D == DOMAIN cols
           size == [i \in D |-> FieldSize[cols[i].kind]]
<1>1. D = 1 .. Len(cols) /\ D = DOMAIN new /\ IsFiniteSet(D)
  BY FS_Interval
<1>2. PICK h : /\ RecordSize(cols) = Bytes(Len(cols)) + h[D]
               /\ \A s \in SUBSET D : /\ h[s] \in Nat
                                      /\ h[s] = IF s = {} THEN 0
                                                ELSE h[s \ {Chosen(s)}] + FieldSize[cols[Chosen(s)].kind]
  BY FieldsAddUp
<1>3. PICK g : /\ RecordSize(new) = Bytes(Len(new)) + g[D]
               /\ \A s \in SUBSET D : /\ g[s] \in Nat
                                      /\ g[s] = IF s = {} THEN 0
                                                ELSE g[s \ {Chosen(s)}] + FieldSize[new[Chosen(s)].kind]
  <2>1. Len(new) > 0
    OBVIOUS
  <2>2. PICK g : /\ RecordSize(new) = Bytes(Len(new)) + g[DOMAIN new]
                 /\ \A s \in SUBSET DOMAIN new : /\ g[s] \in Nat
                                                 /\ g[s] = IF s = {} THEN 0
                                                           ELSE g[s \ {Chosen(s)}] + FieldSize[new[Chosen(s)].kind]
    BY <2>1, FieldsAddUp
  <2> HIDE DEF D
  <2>3. QED
    BY ONLY <1>1, <2>2
<1> DEFINE Good == {s \in SUBSET D : g[s] = h[s]}
<1> HIDE DEF D
<1>4. ASSUME NEW s \in SUBSET D, \A x \in s : s \ {x} \in Good
      PROVE  s \in Good
  <2>1. CASE s = {}
    <3>1. g[s] = 0 /\ h[s] = 0
      BY <1>2, <1>3, <2>1
    <3>2. QED
      BY <3>1
  <2>2. CASE s # {}
    <3>1. Chosen(s) \in s
      BY <2>2 DEF Chosen
    <3>2. g[s \ {Chosen(s)}] = h[s \ {Chosen(s)}]
      BY <1>4, <3>1
    <3>3. new[Chosen(s)].kind = cols[Chosen(s)].kind
      BY <1>1, <3>1
    <3>4. /\ g[s] = g[s \ {Chosen(s)}] + FieldSize[new[Chosen(s)].kind]
          /\ h[s] = h[s \ {Chosen(s)}] + FieldSize[cols[Chosen(s)].kind]
      BY <1>2, <1>3, <2>2
    <3>5. QED
      BY <3>2, <3>3, <3>4
  <2>3. QED
    BY <2>1, <2>2
<1> HIDE DEF Good
<1>5. D \in Good
  BY <1>1, <1>4, SubsetsByInduction
<1>6. RecordSize(new) = RecordSize(cols)
  BY <1>2, <1>3, <1>5 DEF Good
<1>7. QED
  BY <1>6 DEF RecordsPerPage

LEMMA ProductsGrow ==
  ASSUME NEW n \in Nat, NEW a \in Nat, NEW b \in Nat, a <= b
  PROVE  n * a \in Nat /\ n * b \in Nat /\ n * a <= n * b
<1> DEFINE d == b - a
<1>1. d \in Nat /\ b = a + d
  OBVIOUS
<1> HIDE DEF d
<1>2. n * a \in Nat /\ n * d \in Nat /\ n * b \in Nat
  BY <1>1
<1>3. n * b = n * a + n * d
  BY <1>1
<1>4. QED
  BY <1>2, <1>3

\* No layout addresses a slot beyond the last one there can be.
LEMMA SlotsAreAddressed ==
  ASSUME NEW cols \in Seq(Columns), Len(cols) > 0
  PROVE  /\ RecordsPerPage(cols) \in Nat /\ MaxSlots \in Nat
         /\ Slots(cols) \subseteq 1 .. MaxSlots
<1> DEFINE least == 1 + SmallestField
           R == RecordSize(cols)
           A == {n \in 0 .. PayloadSize : Bytes(n) + n * R <= PayloadSize}
           B == {n \in 0 .. PayloadSize : Bytes(n) + n * least <= PayloadSize}
<1>1. RecordsPerPage(cols) = Max(A) /\ MaxSlots = Max(B)
  BY DEF RecordsPerPage, MaxSlots, SmallestField
<1>2. R \in Nat /\ least \in Nat /\ R >= least
  BY RecordSizes, SmallestFieldLaws
<1> HIDE DEF R, least
<1>3. A \subseteq B
  <2>1. ASSUME NEW n \in 0 .. PayloadSize, Bytes(n) + n * R <= PayloadSize
        PROVE  Bytes(n) + n * least <= PayloadSize
    <3>1. n \in Nat /\ Bytes(n) \in Nat
      BY DEF Bytes
    <3>2. n * least \in Nat /\ n * R \in Nat /\ n * least <= n * R
      BY <1>2, <3>1, ProductsGrow
    <3>3. QED
      BY <2>1, <3>1, <3>2
  <2>2. QED
    BY <2>1
<1>4. 0 \in A
  <2>1. Bytes(0) = 0
    BY DEF Bytes
  <2>2. 0 * R = 0
    BY <1>2
  <2>3. QED
    BY <2>1, <2>2
<1>5. /\ A \subseteq Int /\ A # {} /\ \A x \in A : x <= PayloadSize
      /\ B \subseteq Int /\ B # {} /\ \A x \in B : x <= PayloadSize
      /\ A \subseteq Nat /\ B \subseteq Nat /\ PayloadSize \in Int
  BY <1>3, <1>4
<1> HIDE DEF A, B
<1>6. Max(A) \in A
  BY <1>5, MaxOfBounded
<1>7. Max(B) \in B /\ \A y \in B : y <= Max(B)
  BY <1>5, MaxOfBounded
<1>8. Max(A) \in Nat /\ Max(B) \in Nat /\ Max(A) <= Max(B)
  BY <1>3, <1>5, <1>6, <1>7
<1>9. QED
  BY <1>1, <1>8 DEF Slots

-----------------------------------------------------------------------------
(* Listings.                                                               *)

\* Every page is listed, and nothing else.
LEMMA PagesListed ==
  /\ Cardinality(Pages) \in Nat
  /\ InOrder(Pages, <) \in [1 .. Cardinality(Pages) -> Pages]
  /\ \A p \in Pages : \E n \in 1 .. Cardinality(Pages) : InOrder(Pages, <)[n] = p
<1> DEFINE N == Cardinality(Pages)
           s == InOrder(Pages, <)
<1>1. N \in Nat
  BY FS_CardinalityType
<1>2. \E f \in [1 .. N -> Pages] : \A i, j \in DOMAIN f : i < j => f[i] < f[j]
  <2>1. PICK f \in [1 .. N -> Pages] : Increasing(f, N)
    BY IncreasingListing
  <2>2. QED
    BY <2>1 DEF Increasing
<1>3. s = CHOOSE f \in [1 .. N -> Pages] : \A i, j \in DOMAIN f : i < j => f[i] < f[j]
  BY DEF InOrder
<1>4. s \in [1 .. N -> Pages] /\ \A i, j \in DOMAIN s : i < j => s[i] < s[j]
  <2> HIDE DEF s
  <2>1. QED
    BY <1>2, <1>3
<1> HIDE DEF s
<1>5. \A i, j \in 1 .. N : i < j => s[i] # s[j]
  <2>1. \A i \in 1 .. N : i \in DOMAIN s /\ s[i] \in Nat
    BY <1>4
  <2>2. QED
    BY <1>4, <2>1
<1>6. \A p \in Pages : \E n \in 1 .. N : s[n] = p
  <2>1. IsFiniteSet(Pages)
    OBVIOUS
  <2>2. QED
    BY ONLY <2>1, <1>4, <1>5, ListingsAreOnto
<1>7. QED
  BY <1>1, <1>4, <1>6 DEF s

\* Where records lie, in the order a reader meets them.
LEMMA PlacesListed ==
  ASSUME NEW pgs, MaxSlots \in Nat
  PROVE  LET P == Places(pgs)
             s == InOrder(P, LAMBDA x, y : x[1] < y[1] \/ (x[1] = y[1] /\ x[2] < y[2]))
         IN  /\ IsFiniteSet(P) /\ Cardinality(P) \in Nat
             /\ s \in [1 .. Cardinality(P) -> P]
             /\ \A x \in P : \E n \in 1 .. Cardinality(P) : s[n] = x
             /\ \A i, j \in 1 .. Cardinality(P) : i < j =>
                  s[i][1] < s[j][1] \/ (s[i][1] = s[j][1] /\ s[i][2] < s[j][2])
<1> DEFINE P == Places(pgs)
           s == InOrder(P, LAMBDA x, y : x[1] < y[1] \/ (x[1] = y[1] /\ x[2] < y[2]))
           R == {z \in P \X P : z[1][1] < z[2][1] \/ (z[1][1] = z[2][1] /\ z[1][2] < z[2][2])}
           N == Cardinality(P)
<1>1. P \subseteq Pages \X (1 .. MaxSlots)
  BY DEF Places
<1>2. IsFiniteSet(P) /\ N \in Nat
  <2>1. IsFiniteSet(1 .. MaxSlots)
    BY FS_Interval
  <2>2. IsFiniteSet(Pages \X (1 .. MaxSlots))
    BY <2>1, FS_Product
  <2>3. QED
    BY <1>1, <2>2, FS_Subset, FS_CardinalityType
<1>3. \A x \in P : x[1] \in Nat /\ x[2] \in Nat /\ x = <<x[1], x[2]>>
  BY <1>1
<1>4. \A x, y \in P : <<x, y>> \in R <=> x[1] < y[1] \/ (x[1] = y[1] /\ x[2] < y[2])
  OBVIOUS
<1>5. s = CHOOSE f \in [1 .. N -> P] :
            \A i, j \in DOMAIN f : i < j => f[i][1] < f[j][1] \/ (f[i][1] = f[j][1] /\ f[i][2] < f[j][2])
  BY DEF InOrder
<1> HIDE DEF P, R, s
<1>6. StrictlyOrders(R, P)
  <2>1. \A x, y \in P : x # y => <<x, y>> \in R \/ <<y, x>> \in R
    BY <1>3, <1>4
  <2>2. \A x, y \in P : <<x, y>> \in R => x # y /\ <<y, x>> \notin R
    BY <1>3, <1>4
  <2>3. \A x, y, z \in P : <<x, y>> \in R /\ <<y, z>> \in R => <<x, z>> \in R
    BY <1>3, <1>4
  <2>4. QED
    BY <2>1, <2>2, <2>3 DEF StrictlyOrders
<1>7. PICK f \in [1 .. N -> P] : \A p, q \in 1 .. N : p < q => <<f[p], f[q]>> \in R
  BY <1>2, <1>6, ListedInOrder
<1>8. /\ s \in [1 .. N -> P]
      /\ \A i, j \in DOMAIN s : i < j => s[i][1] < s[j][1] \/ (s[i][1] = s[j][1] /\ s[i][2] < s[j][2])
  <2>1. \A i, j \in DOMAIN f : i < j => f[i][1] < f[j][1] \/ (f[i][1] = f[j][1] /\ f[i][2] < f[j][2])
    BY <1>4, <1>7
  <2>2. \E g \in [1 .. N -> P] :
          \A i, j \in DOMAIN g : i < j => g[i][1] < g[j][1] \/ (g[i][1] = g[j][1] /\ g[i][2] < g[j][2])
    BY <1>7, <2>1
  <2> HIDE DEF N
  <2>3. QED
    BY <1>5, <2>2, ZenonT(60)
<1>9. \A i, j \in 1 .. N : i < j => s[i] # s[j]
  BY <1>3, <1>8, SMTT(60)
<1>10. \A x \in P : \E n \in 1 .. N : s[n] = x
  BY <1>2, <1>8, <1>9, ListingsAreOnto
<1>11. QED
  BY <1>2, <1>8, <1>10 DEF P, s

-----------------------------------------------------------------------------
(* Records on pages, and the leaf that names them.                         *)

RecordAt(pgs, x) == pgs[x[1]].records[x[2]]
Put(pgs, p, s, rec) == [pgs EXCEPT ![p].records[s] = rec]

LEMMA RecordsOfPages ==
  ASSUME NEW pgs \in PageSets
  PROVE  /\ \A x \in Pages \X (1 .. MaxSlots) : RecordAt(pgs, x) \in Seq(Values)
         /\ \A x : x \in Places(pgs) <=> x \in Pages \X (1 .. MaxSlots) /\ RecordAt(pgs, x) # NoRecord
<1>1. \A p \in Pages : pgs[p].records \in [1 .. MaxSlots -> Seq(Values)]
  BY DEF PageSets
<1>2. QED
  BY <1>1 DEF RecordAt, Places

\* A record put in a slot is in that slot.
LEMMA PutLaws ==
  ASSUME NEW pgs \in PageSets, NEW p \in Pages, NEW s \in 1 .. MaxSlots, NEW rec \in Seq(Values)
  PROVE  LET new == Put(pgs, p, s, rec)
         IN  /\ new \in PageSets
             /\ \A q \in Pages : new[q].laidOutFor = pgs[q].laidOutFor
             /\ \A x \in Pages \X (1 .. MaxSlots) :
                  RecordAt(new, x) = IF x = <<p, s>> THEN rec ELSE RecordAt(pgs, x)
<1> DEFINE new == Put(pgs, p, s, rec)
           recs == [pgs[p].records EXCEPT ![s] = rec]
           page == [pgs[p] EXCEPT !.records = recs]
           PageType == [laidOutFor : Seq(Columns), records : [1 .. MaxSlots -> Seq(Values)]]
<1>1. pgs \in [Pages -> PageType]
  BY DEF PageSets
<1>2. new = [pgs EXCEPT ![p] = page]
  BY DEF Put
<1>3. recs \in [1 .. MaxSlots -> Seq(Values)]
  BY <1>1
<1>4. /\ page \in PageType /\ page.records = recs /\ page.laidOutFor = pgs[p].laidOutFor
  <2>1. pgs[p] \in PageType
    BY <1>1
  <2> HIDE DEF recs
  <2>2. QED
    BY <1>3, <2>1
<1>5. \A t \in 1 .. MaxSlots : recs[t] = IF t = s THEN rec ELSE pgs[p].records[t]
  BY <1>1
<1> HIDE DEF page, recs
<1>6. new \in [Pages -> PageType] /\ \A q \in Pages : new[q] = IF q = p THEN page ELSE pgs[q]
  <2> HIDE DEF PageType
  <2>1. QED
    BY <1>1, <1>2, <1>4
<1>7. ASSUME NEW x \in Pages \X (1 .. MaxSlots)
      PROVE  RecordAt(new, x) = IF x = <<p, s>> THEN rec ELSE RecordAt(pgs, x)
  <2>1. x[1] \in Pages /\ x[2] \in 1 .. MaxSlots /\ x = <<x[1], x[2]>>
    OBVIOUS
  <2> HIDE DEF new, PageType
  <2>2. CASE x[1] = p
    <3>1. new[x[1]].records[x[2]] = recs[x[2]]
      BY <1>4, <1>6, <2>1, <2>2
    <3>2. x = <<p, s>> <=> x[2] = s
      BY <2>1, <2>2
    <3>3. QED
      BY <1>5, <2>1, <2>2, <3>1, <3>2 DEF RecordAt
  <2>3. CASE x[1] # p
    <3>1. new[x[1]] = pgs[x[1]]
      BY <1>6, <2>1, <2>3
    <3>2. x # <<p, s>>
      BY <2>3
    <3>3. QED
      BY <3>1, <3>2 DEF RecordAt
  <2>4. QED
    BY <2>2, <2>3
<1>8. QED
  BY <1>4, <1>6, <1>7 DEF PageSets

\* The entry of the leaf for a record.
KeyIn(strm, rec) == rec[ColumnAt(strm.columns, strm.key)]
Entry(strm, pgs, x) == [key |-> KeyIn(strm, RecordAt(pgs, x)), page |-> x[1], slot |-> x[2]]

LEMMA EntriesOfPages ==
  ASSUME NEW strm, NEW pgs
  PROVE  KeyEntries(strm, pgs) = IF strm.key = "" THEN {} ELSE {Entry(strm, pgs, x) : x \in Places(pgs)}
BY DEF KeyEntries, Entry, KeyIn, RecordAt

LEMMA EntriesAreTyped ==
  ASSUME NEW strm, IsSchema(strm), NEW pgs \in PageSets, NEW lf, Consistent(strm, pgs, lf)
  PROVE  lf \subseteq IndexEntries
<1>1. CASE strm.key = ""
  BY <1>1, EntriesOfPages DEF Consistent
<1>2. CASE strm.key # ""
  <2>1. ColumnAt(strm.columns, strm.key) \in 1 .. Len(strm.columns)
    BY <1>2, ColumnsOfSchemas
  <2>2. ASSUME NEW x \in Places(pgs) PROVE Entry(strm, pgs, x) \in IndexEntries
    <3>1. x[1] \in Pages /\ x[2] \in 1 .. MaxSlots /\ RecordAt(pgs, x) \in Seq(Values)
      BY RecordsOfPages
    <3>2. Len(RecordAt(pgs, x)) = Len(strm.columns)
      BY DEF Consistent, GoodRecord, RecordAt
    <3>3. KeyIn(strm, RecordAt(pgs, x)) \in Values
      BY <2>1, <3>1, <3>2 DEF KeyIn
    <3>4. QED
      BY <3>1, <3>3 DEF Entry, IndexEntries
  <2>3. lf = {Entry(strm, pgs, x) : x \in Places(pgs)}
    BY <1>2, EntriesOfPages DEF Consistent
  <2>4. QED
    BY <2>2, <2>3
<1>3. QED
  BY <1>1, <1>2

\* A record that is put in a slot of the layout, with its entry in the leaf in
\* place of the one for that slot, leaves the table consistent.
LEMMA PutKeepsConsistent ==
  ASSUME NEW strm, IsSchema(strm), NEW pgs \in PageSets, NEW lf, Consistent(strm, pgs, lf),
         NEW p \in Pages, NEW s \in 1 .. MaxSlots, s \in Slots(strm.columns),
         NEW rec \in Seq(Values), rec # NoRecord, GoodRecord(strm, rec)
  PROVE  Consistent(strm, Put(pgs, p, s, rec),
                    IF strm.key = "" THEN lf
                    ELSE {e \in lf : <<e.page, e.slot>> # <<p, s>>}
                         \cup {[key |-> KeyIn(strm, rec), page |-> p, slot |-> s]})
<1> DEFINE new == Put(pgs, p, s, rec)
           lf2 == IF strm.key = "" THEN lf
                  ELSE {e \in lf : <<e.page, e.slot>> # <<p, s>>}
                       \cup {[key |-> KeyIn(strm, rec), page |-> p, slot |-> s]}
<1>1. /\ new \in PageSets
      /\ \A q \in Pages : new[q].laidOutFor = pgs[q].laidOutFor
      /\ \A x \in Pages \X (1 .. MaxSlots) :
           RecordAt(new, x) = IF x = <<p, s>> THEN rec ELSE RecordAt(pgs, x)
  BY PutLaws
<1> HIDE DEF new
<1>2. \A x : x \in Places(new) <=> x \in Places(pgs) \/ x = <<p, s>>
  BY <1>1, RecordsOfPages
<1>3. \A q \in Pages : new[q].laidOutFor = strm.columns
  BY <1>1 DEF Consistent
<1>4. ASSUME NEW x \in Places(new)
      PROVE  x[2] \in Slots(strm.columns) /\ GoodRecord(strm, RecordAt(new, x))
  <2>1. x \in Pages \X (1 .. MaxSlots)
    BY <1>1, RecordsOfPages
  <2>2. CASE x = <<p, s>>
    BY <1>1, <2>1, <2>2
  <2>3. CASE x # <<p, s>>
    <3>1. x \in Places(pgs) /\ RecordAt(new, x) = RecordAt(pgs, x)
      BY <1>1, <1>2, <2>1, <2>3
    <3>2. QED
      BY <3>1 DEF Consistent, RecordAt
  <2>4. QED
    BY <2>2, <2>3
<1>5. lf2 = KeyEntries(strm, new)
  <2>1. CASE strm.key = ""
    BY <2>1, EntriesOfPages DEF Consistent
  <2>2. CASE strm.key # ""
    <3>1. lf = {Entry(strm, pgs, x) : x \in Places(pgs)}
      BY <2>2, EntriesOfPages DEF Consistent
    <3>2. KeyEntries(strm, new) = {Entry(strm, new, x) : x \in Places(new)}
      BY <2>2, EntriesOfPages
    <3>3. Entry(strm, new, <<p, s>>) = [key |-> KeyIn(strm, rec), page |-> p, slot |-> s]
      BY <1>1 DEF Entry
    <3>4. \A x \in Places(pgs) : x # <<p, s>> => Entry(strm, new, x) = Entry(strm, pgs, x)
      BY <1>1, RecordsOfPages DEF Entry
    <3>5. \A x \in Places(pgs) : /\ Entry(strm, pgs, x).page = x[1] /\ Entry(strm, pgs, x).slot = x[2]
                                 /\ x = <<x[1], x[2]>>
      BY RecordsOfPages DEF Entry
    <3> DEFINE others == {e \in lf : <<e.page, e.slot>> # <<p, s>>}
               mine == [key |-> KeyIn(strm, rec), page |-> p, slot |-> s]
    <3>6. lf2 = others \cup {mine}
      BY <2>2
    <3>7. ASSUME NEW e \in others PROVE e \in KeyEntries(strm, new)
      <4>1. PICK x \in Places(pgs) : e = Entry(strm, pgs, x)
        BY <3>1
      <4>2. x # <<p, s>>
        BY <3>5, <4>1
      <4>3. e = Entry(strm, new, x) /\ x \in Places(new)
        BY <1>2, <3>4, <4>1, <4>2
      <4>4. QED
        BY <3>2, <4>3
    <3>8. mine \in KeyEntries(strm, new)
      BY <1>2, <3>2, <3>3
    <3>9. ASSUME NEW e \in KeyEntries(strm, new) PROVE e \in others \cup {mine}
      <4>1. PICK x \in Places(new) : e = Entry(strm, new, x)
        BY <3>2
      <4>2. CASE x = <<p, s>>
        BY <3>3, <4>1, <4>2
      <4>3. CASE x # <<p, s>>
        <5>1. x \in Places(pgs) /\ e = Entry(strm, pgs, x)
          BY <1>2, <3>4, <4>1, <4>3
        <5>2. <<e.page, e.slot>> # <<p, s>>
          BY <3>5, <4>3, <5>1
        <5>3. QED
          BY <3>1, <5>1, <5>2
      <4>4. QED
        BY <4>2, <4>3
    <3> HIDE DEF others, mine
    <3>10. QED
      BY <3>6, <3>7, <3>8, <3>9
  <2>3. QED
    BY <2>1, <2>2
<1> HIDE DEF lf2
<1>6. Consistent(strm, new, lf2)
  BY <1>3, <1>4, <1>5 DEF Consistent, RecordAt
<1>7. QED
  BY <1>6 DEF new, lf2

\* So does a slot that is emptied, with its entry.
LEMMA ClearKeepsConsistent ==
  ASSUME NEW strm, IsSchema(strm), NEW pgs \in PageSets, NEW lf, Consistent(strm, pgs, lf),
         NEW p \in Pages, NEW s \in 1 .. MaxSlots
  PROVE  Consistent(strm, Put(pgs, p, s, NoRecord), {e \in lf : <<e.page, e.slot>> # <<p, s>>})
<1> DEFINE new == Put(pgs, p, s, NoRecord)
           others == {e \in lf : <<e.page, e.slot>> # <<p, s>>}
<1>1. /\ new \in PageSets
      /\ \A q \in Pages : new[q].laidOutFor = pgs[q].laidOutFor
      /\ \A x \in Pages \X (1 .. MaxSlots) :
           RecordAt(new, x) = IF x = <<p, s>> THEN NoRecord ELSE RecordAt(pgs, x)
  <2>1. NoRecord \in Seq(Values)
    BY DEF NoRecord
  <2>2. QED
    BY <2>1, PutLaws
<1> HIDE DEF new
<1>2. \A x : x \in Places(new) <=> x \in Places(pgs) /\ x # <<p, s>>
  BY <1>1, RecordsOfPages
<1>3. \A x \in Places(new) : RecordAt(new, x) = RecordAt(pgs, x)
  BY <1>1, <1>2, RecordsOfPages
<1>4. \A q \in Pages : new[q].laidOutFor = strm.columns
  BY <1>1 DEF Consistent
<1>5. \A x \in Places(new) : x[2] \in Slots(strm.columns) /\ GoodRecord(strm, RecordAt(new, x))
  <2>1. \A x \in Places(pgs) : x[2] \in Slots(strm.columns) /\ GoodRecord(strm, RecordAt(pgs, x))
    BY DEF Consistent, RecordAt
  <2>2. QED
    BY <1>2, <1>3, <2>1
<1>6. others = KeyEntries(strm, new)
  <2>1. CASE strm.key = ""
    BY <2>1, EntriesOfPages DEF Consistent
  <2>2. CASE strm.key # ""
    <3>1. lf = {Entry(strm, pgs, x) : x \in Places(pgs)}
      BY <2>2, EntriesOfPages DEF Consistent
    <3>2. KeyEntries(strm, new) = {Entry(strm, new, x) : x \in Places(new)}
      BY <2>2, EntriesOfPages
    <3>3. \A x \in Places(new) : Entry(strm, new, x) = Entry(strm, pgs, x)
      BY <1>3 DEF Entry
    <3>4. \A x \in Places(pgs) : /\ Entry(strm, pgs, x).page = x[1] /\ Entry(strm, pgs, x).slot = x[2]
                                 /\ x = <<x[1], x[2]>>
      BY RecordsOfPages DEF Entry
    <3>5. ASSUME NEW e \in others PROVE e \in KeyEntries(strm, new)
      <4>1. PICK x \in Places(pgs) : e = Entry(strm, pgs, x)
        BY <3>1
      <4>2. x # <<p, s>>
        BY <3>4, <4>1
      <4>3. QED
        BY <1>2, <3>2, <3>3, <4>1, <4>2
    <3>6. ASSUME NEW e \in KeyEntries(strm, new) PROVE e \in others
      <4>1. PICK x \in Places(new) : e = Entry(strm, new, x)
        BY <3>2
      <4>2. x \in Places(pgs) /\ x # <<p, s>> /\ e = Entry(strm, pgs, x)
        BY <1>2, <3>3, <4>1
      <4>3. <<e.page, e.slot>> # <<p, s>>
        BY <3>4, <4>2
      <4>4. QED
        BY <3>1, <4>2, <4>3
    <3>7. QED
      BY <3>5, <3>6
  <2>3. QED
    BY <2>1, <2>2
<1> HIDE DEF others
<1>7. Consistent(strm, new, others)
  BY <1>4, <1>5, <1>6 DEF Consistent, RecordAt
<1>8. QED
  BY <1>7 DEF new, others

-----------------------------------------------------------------------------
(* Counters.                                                               *)

LEMMA MapsLaws ==
  ASSUME NEW T, NEW f
  PROVE  f \in Maps(T) <=> /\ DOMAIN f \subseteq Nat
                           /\ f = [i \in DOMAIN f |-> f[i]]
                           /\ \A i \in DOMAIN f : f[i] \in T
<1>1. ASSUME f \in Maps(T)
      PROVE  /\ DOMAIN f \subseteq Nat
             /\ f = [i \in DOMAIN f |-> f[i]]
             /\ \A i \in DOMAIN f : f[i] \in T
  <2>1. PICK D \in SUBSET Nat : f \in [D -> T]
    BY <1>1 DEF Maps
  <2>2. QED
    BY <2>1
<1>2. ASSUME DOMAIN f \subseteq Nat, f = [i \in DOMAIN f |-> f[i]], \A i \in DOMAIN f : f[i] \in T
      PROVE  f \in Maps(T)
  <2>1. f \in [DOMAIN f -> T]
    BY <1>2
  <2>2. QED
    BY <1>2, <2>1 DEF Maps
<1>3. QED
  BY <1>1, <1>2

LEMMA HigherLaws ==
  ASSUME NEW T, NEW f \in Maps(T), NEW id \in Nat, NEW v \in T
  PROVE  LET g == Higher(f, id, v)
         IN  /\ g \in Maps(T)
             /\ \A k \in DOMAIN g : (k \in DOMAIN f /\ g[k] = f[k]) \/ (k = id /\ g[k] = v)
<1> DEFINE g == Higher(f, id, v)
<1>1. DOMAIN f \subseteq Nat /\ \A i \in DOMAIN f : f[i] \in T
  BY MapsLaws
<1>2. DOMAIN g = DOMAIN f \cup {id} /\ g = [k \in DOMAIN g |-> g[k]]
  BY DEF Higher
<1>3. \A k \in DOMAIN g : (k \in DOMAIN f /\ g[k] = f[k]) \/ (k = id /\ g[k] = v)
  BY DEF Higher
<1> HIDE DEF g
<1>4. DOMAIN g \subseteq Nat /\ \A k \in DOMAIN g : g[k] \in T
  BY <1>1, <1>2, <1>3
<1>5. g \in Maps(T)
  BY <1>2, <1>4, MapsLaws
<1>6. QED
  BY <1>3, <1>5 DEF g

InsertsSubsets(f, cols, rec, S, h) ==
  h = [s \in SUBSET S |->
         IF s = {} THEN f ELSE Higher(h[s \ {Chosen(s)}], cols[Chosen(s)].id, rec[Chosen(s)])]

\* What is recorded as inserted after a record is what was before, or a number of
\* the record.
LEMMA InsertedAfterLaws ==
  ASSUME NEW T, NEW f \in Maps(T), NEW cols, NEW rec, IsFiniteSet(AutoColumns),
         \A n \in AutoColumns : cols[n].id \in Nat /\ (rec[n] # Null => rec[n] \in T)
  PROVE  LET g == InsertedAfter(f, cols, rec)
         IN  /\ g \in Maps(T)
             /\ \A k \in DOMAIN g :
                  \/ k \in DOMAIN f /\ g[k] = f[k]
                  \/ \E n \in AutoColumns : rec[n] # Null /\ cols[n].id = k /\ g[k] = rec[n]
<1> DEFINE S == {n \in AutoColumns : rec[n] # Null}
           h == CHOOSE h : InsertsSubsets(f, cols, rec, S, h)
           ch == [s \in SUBSET S |-> Chosen(s)]
           G == [x \in S \X Maps(T) |-> Higher(x[2], cols[x[1]].id, rec[x[1]])]
<1>1. InsertedAfter(f, cols, rec) = h[S]
  BY DEF InsertedAfter, FoldSet, MapThenFoldSet, InsertsSubsets, Chosen
<1>2. IsFiniteSet(S)
  BY FS_Subset
<1>3. \A n \in S : cols[n].id \in Nat /\ rec[n] \in T
  OBVIOUS
<1>4. G \in [S \X Maps(T) -> Maps(T)]
  <2>1. ASSUME NEW x \in S \X Maps(T) PROVE Higher(x[2], cols[x[1]].id, rec[x[1]]) \in Maps(T)
    <3>1. x[2] \in Maps(T) /\ cols[x[1]].id \in Nat /\ rec[x[1]] \in T
      BY <1>3
    <3>2. QED
      BY <3>1, HigherLaws
  <2>2. QED
    BY <2>1
<1>5. \A s \in SUBSET S : s # {} => ch[s] \in s /\ ch[s] = Chosen(s)
  BY DEF Chosen
<1>6. \E g : InsertsSubsets(f, cols, rec, S, g)
  <2>1. PICK g \in [SUBSET S -> Maps(T)] : FoldsSubsets(G, f, ch, S, g)
    <3> HIDE DEF G, ch, S
    <3>1. QED
      BY <1>2, <1>4, <1>5, FoldsExist
  <2>2. ASSUME NEW s \in SUBSET S
        PROVE  g[s] = IF s = {} THEN f ELSE Higher(g[s \ {Chosen(s)}], cols[Chosen(s)].id, rec[Chosen(s)])
    <3>1. CASE s = {}
      BY <2>1, <3>1 DEF FoldsSubsets
    <3>2. CASE s # {}
      <4>1. g[s] = G[<<ch[s], g[s \ {ch[s]}]>>]
        BY <2>1, <3>2 DEF FoldsSubsets
      <4>2. ch[s] = Chosen(s) /\ ch[s] \in S /\ g[s \ {ch[s]}] \in Maps(T)
        BY <1>5, <2>1, <3>2
      <4>3. QED
        BY <3>2, <4>1, <4>2
    <3>3. QED
      BY <3>1, <3>2
  <2>3. g = [s \in SUBSET S |-> g[s]]
    BY <2>1
  <2> HIDE DEF S
  <2>4. QED
    BY <2>2, <2>3 DEF InsertsSubsets
<1>7. InsertsSubsets(f, cols, rec, S, h)
  BY <1>6
<1> HIDE DEF h
<1>8. \A s \in SUBSET S :
        h[s] = IF s = {} THEN f ELSE Higher(h[s \ {Chosen(s)}], cols[Chosen(s)].id, rec[Chosen(s)])
  BY <1>7 DEF InsertsSubsets
<1> DEFINE Told(g) == \A k \in DOMAIN g :
                        \/ k \in DOMAIN f /\ g[k] = f[k]
                        \/ \E n \in S : cols[n].id = k /\ g[k] = rec[n]
           Good == {s \in SUBSET S : h[s] \in Maps(T) /\ Told(h[s])}
<1> HIDE DEF G, ch, S
<1>9. S \in Good
  <2>1. ASSUME NEW s \in SUBSET S, \A x \in s : s \ {x} \in Good
        PROVE  s \in Good
    <3>1. CASE s = {}
      <4>1. h[s] = f
        BY <1>8, <3>1, Zenon
      <4>2. QED
        BY <4>1
    <3>2. CASE s # {}
      <4> DEFINE c == Chosen(s)
                 g == h[s \ {c}]
      <4>1. c \in s /\ c \in S
        BY <3>2 DEF Chosen
      <4>2. g \in Maps(T) /\ Told(g)
        BY <2>1, <4>1
      <4>3. h[s] = Higher(g, cols[c].id, rec[c])
        BY <1>8, <3>2, Zenon
      <4> HIDE DEF c, g
      <4>4. /\ h[s] \in Maps(T)
            /\ \A k \in DOMAIN h[s] : (k \in DOMAIN g /\ h[s][k] = g[k]) \/ (k = cols[c].id /\ h[s][k] = rec[c])
        BY <1>3, <4>1, <4>2, <4>3, HigherLaws
      <4>5. Told(h[s])
        BY <4>1, <4>2, <4>4
      <4>6. QED
        BY <4>4, <4>5
    <3>3. QED
      BY <3>1, <3>2
  <2> HIDE DEF Good
  <2>2. QED
    BY <1>2, <2>1, SubsetsByInduction
<1>10. h[S] \in Maps(T) /\ Told(h[S])
  BY <1>9
<1>11. QED
  BY <1>1, <1>10 DEF S

\* The counters after a record are behind neither what they were nor its numbers,
\* so they keep up with what is recorded as inserted.
LEMMA CountersFollow ==
  ASSUME NEW cols, NEW built, NEW counters, NEW f \in Maps(Int), NEW values, NEW rec,
         IsFiniteSet(AutoColumns), Positions(cols, "autoinc") = AutoColumns,
         AutoColumns \subseteq DOMAIN counters,
         \A n \in AutoColumns : cols[n].id \in Nat /\ rec[n] \in Int /\ counters[n] \in Int,
         \A i, n \in AutoColumns :
           i \in DOMAIN built /\ cols[i].id = built[i].id /\ cols[n].id = cols[i].id => n = i,
         KeepsUp(cols, built, counters, f)
  PROVE  KeepsUp(cols, built, CountersAfter(counters, values, rec), InsertedAfter(f, cols, rec))
<1> DEFINE after == CountersAfter(counters, values, rec)
           g == InsertedAfter(f, cols, rec)
<1>1. \A i \in AutoColumns : /\ after[i] \in Int /\ after[i] >= counters[i]
                             /\ rec[i] # Null => after[i] >= rec[i]
  BY DEF CountersAfter, Raised
<1>2. \A k \in DOMAIN g :
        \/ k \in DOMAIN f /\ g[k] = f[k]
        \/ \E n \in AutoColumns : rec[n] # Null /\ cols[n].id = k /\ g[k] = rec[n]
  BY InsertedAfterLaws
<1>3. \A k \in DOMAIN f : f[k] \in Int
  BY MapsLaws
<1> HIDE DEF after, g
<1>4. ASSUME NEW i \in AutoColumns, i \in DOMAIN built, cols[i].id = built[i].id, cols[i].id \in DOMAIN g
      PROVE  after[i] >= g[cols[i].id]
  <2>1. CASE cols[i].id \in DOMAIN f /\ g[cols[i].id] = f[cols[i].id]
    <3>1. counters[i] >= f[cols[i].id]
      BY <1>4, <2>1 DEF KeepsUp
    <3>2. QED
      BY <1>1, <1>3, <2>1, <3>1
  <2>2. ASSUME NEW n \in AutoColumns, rec[n] # Null, cols[n].id = cols[i].id, g[cols[i].id] = rec[n]
        PROVE  after[i] >= g[cols[i].id]
    <3>1. n = i
      BY <1>4, <2>2
    <3>2. QED
      BY <1>1, <2>2, <3>1
  <2>3. QED
    BY <1>2, <1>4, <2>1, <2>2
<1>5. KeepsUp(cols, built, after, g)
  BY <1>4 DEF KeepsUp
<1>6. QED
  BY <1>5 DEF after, g

-----------------------------------------------------------------------------
(* The initial states.                                                     *)

LEMMA InitHolds == Init => IInv
<1> SUFFICES ASSUME Init PROVE IInv
  OBVIOUS
<1> DEFINE cols == stream.columns
<1>1. IsSchema(stream) /\ NumberedThrough(cols)
  BY StartsAssumption DEF Init
<1>2. /\ cols \in Seq(Columns) /\ Len(cols) \in Nat \ {0} /\ DOMAIN cols = 1 .. Len(cols)
      /\ \A i \in DOMAIN cols : cols[i] \in Columns
  BY <1>1, ColumnsOfSchemas
<1> HIDE DEF cols
<1>3. NoRecord \in Seq(Values)
  BY DEF NoRecord
<1>4. pages \in PageSets
  BY <1>2, <1>3 DEF Init, PageSets, cols
<1>5. Places(pages) = {}
  BY DEF Init, Places
<1>6. leaf = {} /\ KeyEntries(stream, pages) = {}
  BY <1>5, EntriesOfPages DEF Init
<1>7. info = [builtFor |-> cols, counters |-> [i \in DOMAIN cols |-> 0]]
  BY DEF Init, cols
<1>8. info \in [builtFor : Seq(Columns), counters : Seq(0 .. MaxInt)] /\ Len(info.counters) = Len(info.builtFor)
  <2>1. [i \in 1 .. Len(cols) |-> 0] \in Seq(0 .. MaxInt) /\ Len([i \in 1 .. Len(cols) |-> 0]) = Len(cols)
    BY <1>2
  <2>2. QED
    BY <1>2, <1>7, <2>1
<1>9. inserted \in InsertedMaps /\ DOMAIN inserted = {}
  <2>1. inserted = [i \in {} |-> 0]
    BY DEF Init
  <2>2. inserted \in [{} -> 0 .. MaxInt]
    BY <2>1
  <2>3. QED
    BY <2>2 DEF InsertedMaps, Maps
<1>10. TypesHold
  <2>1. phase = "idle" /\ changes = 0 /\ alters = 0 /\ torn = FALSE
    BY DEF Init
  <2>2. changes \in 0 .. MaxChanges /\ alters \in 0 .. MaxAlters
    BY <2>1
  <2>3. QED
    BY <1>1, <1>4, <1>6, <1>8, <1>9, <2>1, <2>2 DEF TypesHold
<1>11. Follows(cols, cols)
  BY <1>1, <1>2 DEF Follows, NumberedThrough
<1>12. CountersHold
  <2>1. lastID = Len(cols)
    BY DEF Init, cols
  <2>2. KeepsUp(cols, info.builtFor, info.counters, inserted)
    BY <1>9 DEF KeepsUp
  <2>3. QED
    BY <1>1, <1>2, <1>7, <1>11, <2>1, <2>2 DEF CountersHold, cols
<1>13. Consistent(stream, pages, leaf)
  BY <1>5, <1>6 DEF Consistent, Init
<1>14. phase = "idle" /\ torn = FALSE
  BY DEF Init
<1>15. QED
  BY <1>10, <1>12, <1>13, <1>14 DEF IInv, AtRest, TornIsIdle, Writing, Altering

-----------------------------------------------------------------------------
(* The record writer.                                                      *)

\* The columns with counters have them, where counters are read at all.
LEMMA AutoColumnsLaws ==
  ASSUME TypesHold
  PROVE  /\ IsFiniteSet(AutoColumns) /\ AutoColumns \subseteq 1 .. Len(stream.columns)
         /\ \A n \in AutoColumns : /\ stream.columns[n] \in Columns
                                   /\ stream.columns[n].id \in Nat
                                   /\ stream.columns[n].increment \in Nat
<1>1. /\ DOMAIN stream.columns = 1 .. Len(stream.columns) /\ Len(stream.columns) \in Nat
      /\ \A i \in DOMAIN stream.columns : stream.columns[i] \in Columns
  BY ColumnsOfSchemas DEF TypesHold
<1>2. AutoColumns \subseteq 1 .. Len(stream.columns)
  BY <1>1 DEF AutoColumns, Positions
<1>3. IsFiniteSet(AutoColumns)
  <2>1. IsFiniteSet(1 .. Len(stream.columns))
    BY <1>1, FS_Interval
  <2>2. QED
    BY <1>2, <2>1, FS_Subset
<1>4. QED
  BY <1>1, <1>2, <1>3 DEF Columns

LEMMA OpenWriterHolds ==
  ASSUME IInv, OpenWriter
  PROVE  IInv'
<1>1. phase = "idle" /\ ~torn /\ phase' = "writing"
      /\ edit' = [pages |-> pages, leaf |-> leaf, counters |-> info.counters, raised |-> {},
                  inserted |-> inserted]
  BY DEF OpenWriter
<1>2. /\ stream' = stream /\ pages' = pages /\ leaf' = leaf /\ info' = info /\ lastID' = lastID
      /\ inserted' = inserted /\ changes' = changes /\ alters' = alters /\ torn' = torn
  BY DEF OpenWriter, disk
<1>3. TypesHold /\ CountersHold /\ Consistent(stream, pages, leaf)
  BY <1>1 DEF IInv, AtRest
<1>4. edit' \in WriterEdits
  BY <1>1, <1>3 DEF TypesHold, WriterEdits
<1>5. TypesHold' /\ CountersHold' /\ AtRest' /\ TornIsIdle'
  BY <1>1, <1>2, <1>3 DEF TypesHold, CountersHold, AtRest, TornIsIdle
<1>6. Writing'
  BY <1>1, <1>2, <1>3, <1>4 DEF Writing, CountersHold
<1>7. QED
  BY <1>1, <1>5, <1>6 DEF IInv, Altering

\* What a writer does to its buffers is all that changes.
LEMMA WriterStep ==
  ASSUME IInv, phase = "writing", phase' = phase, changes' \in 0 .. MaxChanges,
         UNCHANGED <<disk, pending, before, inserted, alters, torn>>,
         edit' \in WriterEdits, Consistent(stream, edit.pages, edit.leaf)',
         Len(edit.counters)' = Len(info.counters),
         \A n \in DOMAIN info.counters \ edit'.raised : edit'.counters[n] = info.counters[n],
         KeepsUp(stream.columns, info.builtFor, edit'.counters, edit'.inserted)
  PROVE  IInv'
<1>1. /\ stream' = stream /\ pages' = pages /\ leaf' = leaf /\ info' = info /\ lastID' = lastID
      /\ inserted' = inserted /\ alters' = alters /\ torn' = torn
  BY DEF disk
<1>2. TypesHold /\ CountersHold /\ AtRest /\ TornIsIdle
  BY DEF IInv
<1>3. TypesHold' /\ CountersHold' /\ AtRest' /\ TornIsIdle'
  BY <1>1, <1>2 DEF TypesHold, CountersHold, AtRest, TornIsIdle
<1>4. Writing'
  BY <1>1 DEF Writing
<1>5. QED
  BY <1>3, <1>4 DEF IInv, Altering

\* The slot a writer takes is free, and one of the layout.
LEMMA FirstFreeIsFree ==
  ASSUME FreeSlots # {}, MaxSlots \in Nat, Slots(stream.columns) \subseteq 1 .. MaxSlots
  PROVE  FirstFree \in FreeSlots
<1>1. \A x \in FreeSlots : x[1] \in Nat /\ x[2] \in Nat
  <2>1. \A x \in FreeSlots : x[1] \in Pages /\ x[2] \in Slots(stream.columns)
    BY DEF FreeSlots
  <2>2. \A k \in Slots(stream.columns) : k \in Nat
    OBVIOUS
  <2>3. QED
    BY <2>1, <2>2
<1> DEFINE T == {x[1] : x \in FreeSlots}
<1>2. PICK p \in T : \A q \in T : p <= q
  <2>1. T \subseteq Nat /\ T # {}
    BY <1>1
  <2>2. QED
    BY <2>1, NaturalsHaveMinimum
<1> DEFINE U == {x[2] : x \in {y \in FreeSlots : y[1] = p}}
<1>3. PICK s \in U : \A r \in U : s <= r
  <2>1. U \subseteq Nat /\ U # {}
    BY <1>1, <1>2
  <2>2. QED
    BY <2>1, NaturalsHaveMinimum
<1>4. PICK x \in FreeSlots : x[1] = p /\ x[2] = s
  BY <1>3
<1>5. ASSUME NEW y \in FreeSlots PROVE x[1] < y[1] \/ (x[1] = y[1] /\ x[2] <= y[2])
  <2>1. p <= y[1]
    BY <1>2
  <2>2. y[1] = p => s <= y[2]
    BY <1>3
  <2>3. QED
    BY <1>1, <1>4, <2>1, <2>2
<1>6. QED
  BY <1>4, <1>5 DEF FirstFree

\* A record that passed the checks is one a writer of the schema accepts.
LEMMA ChecksAreTheSchemas ==
  ASSUME NEW rec
  PROVE  /\ ConstraintsResolve <=> ResolvesIn(stream)
         /\ ChecksPass(rec) <=> PassesIn(stream, rec)
<1>1. ConstraintsResolve <=> ResolvesIn(stream)
  BY DEF ConstraintsResolve, ResolvesIn
<1>2. ASSUME NEW c PROVE Satisfies(rec, c) <=> SatisfiesIn(stream, rec, c)
  BY DEF Satisfies, SatisfiesIn
<1>3. QED
  BY <1>1, <1>2 DEF ChecksPass, PassesIn

LEMMA InsertHolds ==
  ASSUME IInv, NEW i \in DOMAIN stream.columns, NEW v \in Values, Insert(i, v)
  PROVE  IInv'
<1> DEFINE cols == stream.columns
           values == InsertedValues(i, v)
           rec == Assigned(edit.counters, values)
           p == FirstFree[1]
           s == FirstFree[2]
           newPages == Put(edit.pages, p, s, rec)
           newLeaf == IF stream.key = "" THEN edit.leaf
                      ELSE edit.leaf \cup {[key |-> KeyOf(rec), page |-> p, slot |-> s]}
           newRaised == edit.raised \cup Raised(edit.counters, values, rec)
           newCounters == CountersAfter(edit.counters, values, rec)
           newInserted == InsertedAfter(edit.inserted, cols, rec)
<1>1. /\ phase = "writing" /\ phase' = phase /\ changes < MaxChanges /\ changes' = changes + 1
      /\ AutoColumns # {} => CountersReadable
      /\ ConstraintsResolve
      /\ \A n \in Unnumbered(values) : MayAssign(edit.counters, n)
      /\ ChecksPass(rec)
      /\ FreeSlots # {}
      /\ UNCHANGED <<disk, pending, before, inserted, alters, torn>>
  BY DEF Insert
<1>2. edit' = [edit EXCEPT !.pages = newPages, !.leaf = newLeaf, !.raised = newRaised,
                           !.counters = newCounters, !.inserted = newInserted]
  BY DEF Insert, Put
<1>3. /\ TypesHold /\ CountersHold
      /\ edit \in WriterEdits
      /\ Consistent(stream, edit.pages, edit.leaf)
      /\ Len(edit.counters) = Len(info.counters)
      /\ \A n \in DOMAIN info.counters \ edit.raised : edit.counters[n] = info.counters[n]
      /\ KeepsUp(cols, info.builtFor, edit.counters, edit.inserted)
  BY <1>1 DEF IInv, Writing
<1>4. /\ edit.pages \in PageSets /\ edit.leaf \subseteq IndexEntries
      /\ edit.counters \in Seq(0 .. MaxInt) /\ edit.raised \subseteq Nat
      /\ edit.inserted \in InsertedMaps
  BY <1>3 DEF WriterEdits
<1>5. /\ IsSchema(stream)
      /\ cols \in Seq(Columns) /\ Len(cols) \in Nat \ {0} /\ DOMAIN cols = 1 .. Len(cols)
      /\ stream.key # "" => ColumnAt(cols, stream.key) \in DOMAIN cols
  BY <1>3, ColumnsOfSchemas DEF TypesHold
<1>6. /\ MaxSlots \in Nat /\ Slots(cols) \subseteq 1 .. MaxSlots
  <2>1. cols \in Seq(Columns)
    BY <1>5, Zenon
  <2>2. Len(cols) \in Nat \ {0}
    BY <1>5, Zenon
  <2> HIDE DEF cols
  <2>3. Len(cols) > 0
    BY ONLY <2>2
  <2>4. QED
    BY <2>1, <2>3, SlotsAreAddressed
<1>7. /\ p \in Pages /\ s \in Slots(cols) /\ s \in 1 .. MaxSlots
      /\ edit.pages[p].records[s] = NoRecord
  <2>1. FirstFree \in FreeSlots
    BY <1>1, <1>6, FirstFreeIsFree
  <2>2. QED
    BY <1>6, <2>1 DEF FreeSlots
<1>8. /\ IsFiniteSet(AutoColumns) /\ AutoColumns \subseteq DOMAIN edit.counters
      /\ AutoColumns \subseteq DOMAIN cols
      /\ \A n \in AutoColumns : /\ cols[n].id \in Nat /\ cols[n].increment \in Nat
                                /\ edit.counters[n] \in 0 .. MaxInt
  <2>1. /\ IsFiniteSet(AutoColumns) /\ AutoColumns \subseteq DOMAIN cols
        /\ \A n \in AutoColumns : cols[n].id \in Nat /\ cols[n].increment \in Nat
    BY <1>3, <1>5, AutoColumnsLaws
  <2>2. AutoColumns \subseteq DOMAIN edit.counters
    <3>1. AutoColumns # {} => Len(edit.counters) = Len(cols)
      BY <1>1, <1>3 DEF CountersReadable, TypesHold
    <3>2. DOMAIN edit.counters = 1 .. Len(edit.counters)
      BY <1>4
    <3>3. QED
      BY <1>5, <2>1, <3>1, <3>2
  <2>3. QED
    BY <1>4, <2>1, <2>2
<1>9. rec \in Seq(Values) /\ Len(rec) = Len(cols)
  <2>1. values \in [1 .. Len(cols) -> Values]
    BY <1>5 DEF InsertedValues, Values
  <2>2. ASSUME NEW n \in Unnumbered(values) PROVE NextValue(edit.counters, n) \in Values
    <3>1. n \in AutoColumns /\ MayAssign(edit.counters, n)
      BY <1>1 DEF Unnumbered
    <3>2. NextValue(edit.counters, n) \in Nat
      BY <1>8, <3>1 DEF NextValue
    <3>3. QED
      BY <3>1, <3>2 DEF MayAssign, Values
  <2> HIDE DEF values
  <2>3. rec \in [1 .. Len(cols) -> Values]
    BY <2>1, <2>2 DEF Assigned
  <2>4. Len(cols) \in Nat
    BY <1>5
  <2> HIDE DEF rec, cols
  <2>5. QED
    BY ONLY <2>3, <2>4, FunctionsAreSequences
<1>10. GoodRecord(stream, rec) /\ rec # NoRecord
  <2> HIDE DEF rec
  <2>1. GoodRecord(stream, rec)
    BY <1>1, <1>9, ChecksAreTheSchemas DEF GoodRecord
  <2>2. QED
    BY <1>5, <1>9, <2>1 DEF NoRecord
<1> HIDE DEF rec, values, p, s
<1>11. newPages \in PageSets
  BY <1>4, <1>7, <1>9, PutLaws
<1>12. Consistent(stream, newPages, newLeaf)
  <2>1. {e \in edit.leaf : <<e.page, e.slot>> # <<p, s>>} = edit.leaf \/ stream.key = ""
    <3>1. ASSUME NEW e \in edit.leaf, stream.key # "" PROVE <<e.page, e.slot>> # <<p, s>>
      <4>1. PICK x \in Places(edit.pages) : e = Entry(stream, edit.pages, x)
        BY <1>3, <3>1, EntriesOfPages DEF Consistent
      <4>2. e.page = x[1] /\ e.slot = x[2] /\ edit.pages[x[1]].records[x[2]] # NoRecord
        BY <4>1 DEF Entry, Places
      <4>3. QED
        BY <1>7, <4>2
    <3>2. QED
      BY <3>1
  <2>2. KeyIn(stream, rec) = KeyOf(rec)
    BY DEF KeyIn, KeyOf
  <2>3. Consistent(stream, newPages,
                   IF stream.key = "" THEN edit.leaf
                   ELSE {e \in edit.leaf : <<e.page, e.slot>> # <<p, s>>}
                        \cup {[key |-> KeyIn(stream, rec), page |-> p, slot |-> s]})
    <3> HIDE DEF cols
    <3>1. QED
      BY <1>3, <1>4, <1>5, <1>7, <1>9, <1>10, PutKeepsConsistent DEF cols
  <2> HIDE DEF newPages
  <2>4. QED
    BY <2>1, <2>2, <2>3
<1>13. newLeaf \subseteq IndexEntries
  <2> HIDE DEF newPages, newLeaf
  <2>1. QED
    BY <1>5, <1>11, <1>12, EntriesAreTyped
<1>14. newRaised \subseteq Nat
  <2>1. Raised(edit.counters, values, rec) \subseteq AutoColumns
    BY DEF Raised
  <2>2. AutoColumns \subseteq Nat
    <3>1. AutoColumns \subseteq DOMAIN cols
      BY <1>8, Zenon
    <3>2. DOMAIN cols = 1 .. Len(cols)
      BY <1>5, Zenon
    <3> HIDE DEF cols
    <3>3. QED
      BY ONLY <3>1, <3>2
  <2>3. QED
    BY <1>4, <2>1, <2>2
<1>15. \A n \in AutoColumns : rec[n] \in Values
  <2>1. \A n \in 1 .. Len(rec) : rec[n] \in Values
    BY <1>9
  <2>2. QED
    BY <1>5, <1>8, <1>9, <2>1
<1>16. newCounters \in Seq(0 .. MaxInt) /\ Len(newCounters) = Len(info.counters)
  <2>1. \A n \in Raised(edit.counters, values, rec) : rec[n] \in 0 .. MaxInt
    BY <1>15 DEF Raised, Values, Null
  <2>2. newCounters \in [1 .. Len(edit.counters) -> 0 .. MaxInt]
    BY <1>4, <2>1 DEF CountersAfter
  <2>3. Len(edit.counters) \in Nat
    BY <1>4
  <2> HIDE DEF newCounters
  <2>4. newCounters \in Seq(0 .. MaxInt) /\ Len(newCounters) = Len(edit.counters)
    BY ONLY <2>2, <2>3, FunctionsAreSequences
  <2>5. QED
    BY <1>3, <2>4
<1>17. newInserted \in InsertedMaps
  <2>1. \A n \in AutoColumns : cols[n].id \in Nat /\ (rec[n] # Null => rec[n] \in 0 .. MaxInt)
    BY <1>8, <1>15 DEF Values, Null
  <2>2. QED
    BY <1>4, <1>8, <2>1, InsertedAfterLaws DEF InsertedMaps
<1>18. KeepsUp(cols, info.builtFor, newCounters, newInserted)
  <2>1. edit.inserted \in Maps(Int)
    BY <1>4, MapsLaws DEF InsertedMaps
  <2>2. Positions(cols, "autoinc") = AutoColumns
    BY DEF AutoColumns
  <2>3. \A n \in AutoColumns : cols[n].id \in Nat /\ rec[n] \in Int /\ edit.counters[n] \in Int
    BY <1>8, <1>15 DEF Values, Null
  <2>4. \A m, n \in AutoColumns :
          m \in DOMAIN info.builtFor /\ cols[m].id = info.builtFor[m].id /\ cols[n].id = cols[m].id => n = m
    BY <1>3, <1>8 DEF CountersHold, Follows, NumberedThrough
  <2> HIDE DEF cols
  <2>5. QED
    BY <1>3, <1>8, <2>1, <2>2, <2>3, <2>4, CountersFollow
<1>19. \A n \in DOMAIN info.counters \ newRaised : newCounters[n] = info.counters[n]
  <2>1. DOMAIN info.counters = DOMAIN edit.counters
    BY <1>3, <1>4 DEF TypesHold
  <2>2. QED
    BY <1>3, <2>1 DEF CountersAfter
<1> HIDE DEF newPages, newLeaf, newRaised, newCounters, newInserted
<1>20. /\ edit' \in WriterEdits /\ edit'.pages = newPages /\ edit'.leaf = newLeaf
       /\ edit'.raised = newRaised /\ edit'.counters = newCounters /\ edit'.inserted = newInserted
  BY <1>2, <1>3, <1>11, <1>13, <1>14, <1>16, <1>17 DEF WriterEdits
<1>21. changes' \in 0 .. MaxChanges
  BY <1>1, <1>3 DEF TypesHold
<1>22. stream' = stream
  BY <1>1 DEF disk
<1>23. Consistent(stream, edit.pages, edit.leaf)'
  BY <1>12, <1>20, <1>22
<1>24. Len(edit.counters)' = Len(info.counters)
  BY <1>16, <1>20
<1>25. \A n \in DOMAIN info.counters \ edit'.raised : edit'.counters[n] = info.counters[n]
  BY <1>19, <1>20
<1>26. KeepsUp(stream.columns, info.builtFor, edit'.counters, edit'.inserted)
  BY <1>18, <1>20
<1>27. QED
  BY <1>1, <1>20, <1>21, <1>23, <1>24, <1>25, <1>26, WriterStep

\* What the invariant says of a writer's buffers.
LEMMA WriterHolds ==
  ASSUME IInv, phase = "writing"
  PROVE  /\ TypesHold /\ CountersHold
         /\ edit \in WriterEdits
         /\ edit.pages \in PageSets /\ edit.leaf \subseteq IndexEntries
         /\ edit.counters \in Seq(0 .. MaxInt) /\ edit.raised \subseteq Nat
         /\ edit.inserted \in InsertedMaps
         /\ Consistent(stream, edit.pages, edit.leaf)
         /\ Len(edit.counters) = Len(info.counters)
         /\ \A n \in DOMAIN info.counters \ edit.raised : edit.counters[n] = info.counters[n]
         /\ KeepsUp(stream.columns, info.builtFor, edit.counters, edit.inserted)
         /\ IsSchema(stream)
<1>1. edit \in WriterEdits
  BY DEF IInv, Writing
<1>2. QED
  BY <1>1 DEF IInv, Writing, WriterEdits, TypesHold

\* A writer that leaves its counters alone changes pages and leaf.
LEMMA WriterEditsRecords ==
  ASSUME IInv, phase = "writing", phase' = phase, changes' \in 0 .. MaxChanges,
         UNCHANGED <<disk, pending, before, inserted, alters, torn>>,
         NEW newPages \in PageSets, NEW newLeaf, Consistent(stream, newPages, newLeaf),
         edit' = [edit EXCEPT !.pages = newPages, !.leaf = newLeaf]
  PROVE  IInv'
<1>1. /\ edit \in WriterEdits
      /\ Len(edit.counters) = Len(info.counters)
      /\ \A n \in DOMAIN info.counters \ edit.raised : edit.counters[n] = info.counters[n]
      /\ KeepsUp(stream.columns, info.builtFor, edit.counters, edit.inserted)
      /\ IsSchema(stream)
  BY WriterHolds
<1>2. newLeaf \subseteq IndexEntries
  BY <1>1, EntriesAreTyped
<1>3. /\ edit' \in WriterEdits /\ edit'.pages = newPages /\ edit'.leaf = newLeaf
      /\ edit'.raised = edit.raised /\ edit'.counters = edit.counters /\ edit'.inserted = edit.inserted
  BY <1>1, <1>2 DEF WriterEdits
<1>4. stream' = stream
  BY DEF disk
<1>5. Consistent(stream, edit.pages, edit.leaf)'
  BY <1>3, <1>4
<1>6. Len(edit.counters)' = Len(info.counters)
  BY <1>1, <1>3
<1>7. \A n \in DOMAIN info.counters \ edit'.raised : edit'.counters[n] = info.counters[n]
  BY <1>1, <1>3
<1>8. KeepsUp(stream.columns, info.builtFor, edit'.counters, edit'.inserted)
  BY <1>1, <1>3
<1>9. QED
  BY <1>3, <1>5, <1>6, <1>7, <1>8, WriterStep

LEMMA UpdateHolds ==
  ASSUME IInv, NEW p \in Pages, NEW s \in 1 .. MaxSlots,
         NEW i \in DOMAIN stream.columns, NEW v \in Values, Update(p, s, i, v)
  PROVE  IInv'
<1> DEFINE old == edit.pages[p].records[s]
           rec == [old EXCEPT ![i] = v]
           moved == stream.key # "" /\ KeyOf(rec) # KeyOf(old)
           newPages == Put(edit.pages, p, s, rec)
           newLeaf == IF ~moved THEN edit.leaf
                      ELSE {e \in edit.leaf : <<e.page, e.slot>> # <<p, s>>}
                           \cup {[key |-> KeyOf(rec), page |-> p, slot |-> s]}
<1>1. /\ phase = "writing" /\ phase' = phase /\ changes < MaxChanges /\ changes' = changes + 1
      /\ ConstraintsResolve
      /\ old # NoRecord
      /\ ChecksPass(rec)
      /\ UNCHANGED <<disk, pending, before, inserted, alters, torn>>
  BY DEF Update
<1>2. edit' = [edit EXCEPT !.pages = newPages, !.leaf = newLeaf]
  BY DEF Update, Put
<1>3. /\ TypesHold /\ edit.pages \in PageSets /\ IsSchema(stream)
      /\ Consistent(stream, edit.pages, edit.leaf)
  BY <1>1, WriterHolds
<1>4. /\ <<p, s>> \in Places(edit.pages)
      /\ old = RecordAt(edit.pages, <<p, s>>) /\ old \in Seq(Values)
      /\ s \in Slots(stream.columns) /\ Len(old) = Len(stream.columns)
  <2>1. <<p, s>> \in Places(edit.pages) /\ old = RecordAt(edit.pages, <<p, s>>)
    BY <1>1 DEF Places, RecordAt
  <2>2. old \in Seq(Values)
    BY <1>3, <2>1, RecordsOfPages
  <2>3. s \in Slots(stream.columns) /\ GoodRecord(stream, old)
    BY <1>3, <2>1 DEF Consistent
  <2>4. QED
    BY <2>1, <2>2, <2>3 DEF GoodRecord
<1>5. rec \in Seq(Values) /\ Len(rec) = Len(stream.columns)
  <2> HIDE DEF old
  <2>1. QED
    BY <1>4
<1>6. GoodRecord(stream, rec) /\ rec # NoRecord
  <2>1. Len(stream.columns) \in Nat \ {0}
    BY <1>3, ColumnsOfSchemas
  <2> HIDE DEF rec
  <2>2. QED
    BY <1>1, <1>5, <2>1, ChecksAreTheSchemas DEF GoodRecord, NoRecord
<1> HIDE DEF rec, old
<1>7. newPages \in PageSets
  BY <1>3, <1>5, PutLaws
<1>8. Consistent(stream, newPages, newLeaf)
  <2> DEFINE others == {e \in edit.leaf : <<e.page, e.slot>> # <<p, s>>}
             mine == [key |-> KeyIn(stream, rec), page |-> p, slot |-> s]
  <2>1. Consistent(stream, newPages, IF stream.key = "" THEN edit.leaf ELSE others \cup {mine})
    BY <1>3, <1>4, <1>5, <1>6, PutKeepsConsistent
  <2>2. KeyIn(stream, rec) = KeyOf(rec) /\ KeyIn(stream, old) = KeyOf(old)
    BY DEF KeyIn, KeyOf
  <2>3. ASSUME stream.key # "", ~moved PROVE others \cup {mine} = edit.leaf
    <3>1. edit.leaf = {Entry(stream, edit.pages, x) : x \in Places(edit.pages)}
      BY <1>3, <2>3, EntriesOfPages DEF Consistent
    <3>2. mine = Entry(stream, edit.pages, <<p, s>>)
      BY <1>4, <2>2, <2>3 DEF Entry
    <3>3. ASSUME NEW e \in edit.leaf, <<e.page, e.slot>> = <<p, s>> PROVE e = mine
      <4>1. PICK x \in Places(edit.pages) : e = Entry(stream, edit.pages, x)
        BY <3>1
      <4>2. x = <<x[1], x[2]>> /\ e.page = x[1] /\ e.slot = x[2]
        BY <1>3, <4>1, RecordsOfPages DEF Entry
      <4>3. x = <<p, s>>
        BY <3>3, <4>2
      <4>4. QED
        BY <3>2, <4>1, <4>3
    <3>4. mine \in edit.leaf
      BY <1>4, <3>1, <3>2
    <3> HIDE DEF mine
    <3>5. QED
      BY <3>3, <3>4
  <2>4. newLeaf = IF stream.key = "" THEN edit.leaf ELSE others \cup {mine}
    <3>1. CASE moved
      BY <2>2, <3>1
    <3>2. CASE ~moved
      BY <2>3, <3>2
    <3>3. QED
      BY <3>1, <3>2
  <2> HIDE DEF newLeaf, newPages
  <2>5. QED
    BY <2>1, <2>4
<1>9. changes' \in 0 .. MaxChanges
  BY <1>1, <1>3 DEF TypesHold
<1> HIDE DEF newPages, newLeaf
<1>10. QED
  BY <1>1, <1>2, <1>7, <1>8, <1>9, WriterEditsRecords

LEMMA DeleteHolds ==
  ASSUME IInv, NEW p \in Pages, NEW s \in 1 .. MaxSlots, Delete(p, s)
  PROVE  IInv'
<1> DEFINE newPages == Put(edit.pages, p, s, NoRecord)
           newLeaf == {e \in edit.leaf : <<e.page, e.slot>> # <<p, s>>}
<1>1. /\ phase = "writing" /\ phase' = phase /\ changes < MaxChanges /\ changes' = changes + 1
      /\ UNCHANGED <<disk, pending, before, inserted, alters, torn>>
  BY DEF Delete
<1>2. edit' = [edit EXCEPT !.pages = newPages, !.leaf = newLeaf]
  BY DEF Delete, Put
<1>3. /\ TypesHold /\ edit.pages \in PageSets /\ IsSchema(stream)
      /\ Consistent(stream, edit.pages, edit.leaf)
  BY <1>1, WriterHolds
<1>4. newPages \in PageSets
  <2>1. NoRecord \in Seq(Values)
    BY DEF NoRecord
  <2>2. QED
    BY <1>3, <2>1, PutLaws
<1>5. Consistent(stream, newPages, newLeaf)
  <2>1. IsSchema(stream) /\ edit.pages \in PageSets /\ Consistent(stream, edit.pages, edit.leaf)
    BY <1>3
  <2>2. Consistent(stream, Put(edit.pages, p, s, NoRecord),
                   {e \in edit.leaf : <<e.page, e.slot>> # <<p, s>>})
    BY ONLY <2>1, p \in Pages, s \in 1 .. MaxSlots, ClearKeepsConsistent
  <2>3. QED
    BY <2>2
<1>6. changes' \in 0 .. MaxChanges
  BY <1>1, <1>3 DEF TypesHold
<1> HIDE DEF newPages, newLeaf
<1>7. QED
  BY <1>1, <1>2, <1>4, <1>5, <1>6, WriterEditsRecords

LEMMA CommitHolds ==
  ASSUME IInv, Commit
  PROVE  IInv'
<1>1. /\ phase = "writing" /\ phase' = "idle"
      /\ pages' = edit.pages /\ leaf' = edit.leaf /\ inserted' = edit.inserted
      /\ stream' = stream /\ lastID' = lastID /\ changes' = changes /\ alters' = alters /\ torn' = torn
  BY DEF Commit, Closed
<1> DEFINE counters == [n \in DOMAIN info.counters |->
                          IF n \in edit.raised THEN edit.counters[n] ELSE info.counters[n]]
<1>2. info' = [info EXCEPT !.counters = counters]
  BY DEF Commit
<1>3. /\ TypesHold /\ CountersHold
      /\ edit.pages \in PageSets /\ edit.leaf \subseteq IndexEntries
      /\ edit.counters \in Seq(0 .. MaxInt)
      /\ edit.inserted \in InsertedMaps
      /\ Consistent(stream, edit.pages, edit.leaf)
      /\ Len(edit.counters) = Len(info.counters)
      /\ \A n \in DOMAIN info.counters \ edit.raised : edit.counters[n] = info.counters[n]
      /\ KeepsUp(stream.columns, info.builtFor, edit.counters, edit.inserted)
  BY <1>1, WriterHolds
<1>4. info \in [builtFor : Seq(Columns), counters : Seq(0 .. MaxInt)]
  BY <1>3 DEF TypesHold
<1>5. counters = edit.counters
  <2>1. DOMAIN info.counters = DOMAIN edit.counters
    BY <1>3, <1>4
  <2>2. \A n \in DOMAIN edit.counters : counters[n] = edit.counters[n]
    BY <1>3, <2>1
  <2>3. edit.counters = [n \in DOMAIN edit.counters |-> edit.counters[n]]
    BY <1>3
  <2>4. counters = [n \in DOMAIN edit.counters |-> edit.counters[n]]
    BY <2>1, <2>2
  <2>5. QED
    BY <2>3, <2>4
<1> HIDE DEF counters
<1>6. info' = [builtFor |-> info.builtFor, counters |-> edit.counters]
  BY <1>2, <1>4, <1>5
<1>7. info'.builtFor = info.builtFor /\ info'.counters = edit.counters
  BY <1>6
<1>8. TypesHold'
  <2>1. info' \in [builtFor : Seq(Columns), counters : Seq(0 .. MaxInt)]
    BY <1>3, <1>4, <1>6
  <2>2. Len(info'.counters) = Len(info'.builtFor)
    BY <1>3, <1>7 DEF TypesHold
  <2>3. QED
    BY <1>1, <1>3, <2>1, <2>2 DEF TypesHold
<1>9. CountersHold'
  BY <1>1, <1>3, <1>7 DEF CountersHold
<1>10. AtRest' /\ TornIsIdle' /\ Writing' /\ Altering'
  BY <1>1, <1>3 DEF AtRest, TornIsIdle, Writing, Altering
<1>11. QED
  BY <1>8, <1>9, <1>10 DEF IInv

LEMMA RollbackHolds ==
  ASSUME IInv, Rollback
  PROVE  IInv'
<1>1. /\ phase = "writing" /\ phase' = "idle"
      /\ stream' = stream /\ pages' = pages /\ leaf' = leaf /\ info' = info /\ lastID' = lastID
      /\ inserted' = inserted /\ changes' = changes /\ alters' = alters /\ torn' = torn
  BY DEF Rollback, Closed, disk
<1>2. TypesHold /\ CountersHold /\ AtRest
  BY DEF IInv
<1>3. QED
  BY <1>1, <1>2 DEF IInv, TypesHold, CountersHold, AtRest, TornIsIdle, Writing, Altering

-----------------------------------------------------------------------------
(* What an alteration makes of a table.                                    *)

\* The other columns stay, those that a key or a constraint names among them.
ReshapesSchema(old, new) ==
  /\ IsSchema(new)
  /\ new.key = old.key /\ new.constraints = old.constraints
  /\ \A name : ColumnNamed(old.columns, name) /\ ColumnNamed(new.columns, name) =>
       new.columns[ColumnAt(new.columns, name)].kind = old.columns[ColumnAt(old.columns, name)].kind
  /\ old.key # "" => ColumnNamed(new.columns, old.key)
  /\ \A c \in old.constraints : ColumnNamed(old.columns, c.column) => ColumnNamed(new.columns, c.column)

\* They keep their values, and a new one has none.
ReshapesRecord(old, new, rec, to) ==
  /\ to \in Seq(Values) /\ Len(to) = Len(new.columns)
  /\ \A name : ColumnNamed(new.columns, name) =>
       to[ColumnAt(new.columns, name)] =
         IF ColumnNamed(old.columns, name) THEN rec[ColumnAt(old.columns, name)] ELSE Null

LEMMA ReshapedRecords ==
  ASSUME NEW old, IsSchema(old), NEW new, ReshapesSchema(old, new),
         NEW rec, GoodRecord(old, rec), NEW to, ReshapesRecord(old, new, rec, to)
  PROVE  GoodRecord(new, to) /\ (old.key # "" => KeyIn(new, to) = KeyIn(old, rec))
<1>1. ASSUME NEW c \in new.constraints
      PROVE  /\ ColumnNamed(old.columns, c.column) /\ ColumnNamed(new.columns, c.column)
             /\ to[ColumnAt(new.columns, c.column)] = rec[ColumnAt(old.columns, c.column)]
             /\ new.columns[ColumnAt(new.columns, c.column)].kind
                  = old.columns[ColumnAt(old.columns, c.column)].kind
  <2>1. c \in old.constraints
    BY DEF ReshapesSchema
  <2>2. ColumnNamed(old.columns, c.column)
    BY <2>1 DEF GoodRecord, ResolvesIn
  <2>3. ColumnNamed(new.columns, c.column)
    BY <2>1, <2>2 DEF ReshapesSchema
  <2>4. QED
    BY <2>2, <2>3 DEF ReshapesSchema, ReshapesRecord
<1>2. ResolvesIn(new)
  <2>1. \A c \in new.constraints : c.kind = "check" =>
          old.columns[ColumnAt(old.columns, c.column)].kind \in {"integer", "autoinc"}
    BY DEF GoodRecord, ResolvesIn, ReshapesSchema
  <2>2. QED
    BY <1>1, <2>1 DEF ResolvesIn
<1>3. PassesIn(new, to)
  <2>1. ASSUME NEW c \in new.constraints PROVE SatisfiesIn(new, to, c)
    <3>1. SatisfiesIn(old, rec, c)
      BY DEF GoodRecord, PassesIn, ReshapesSchema
    <3>2. QED
      BY <1>1, <3>1 DEF SatisfiesIn
  <2>2. QED
    BY <2>1 DEF PassesIn
<1>4. GoodRecord(new, to)
  BY <1>2, <1>3 DEF GoodRecord, ReshapesRecord
<1>5. ASSUME old.key # "" PROVE KeyIn(new, to) = KeyIn(old, rec)
  <2>1. ColumnNamed(new.columns, old.key) /\ new.key = old.key
    BY <1>5 DEF ReshapesSchema
  <2>2. ColumnNamed(old.columns, old.key)
    BY <1>5, ColumnsOfSchemas
  <2>3. QED
    BY <2>1, <2>2 DEF KeyIn, ReshapesRecord
<1>6. QED
  BY <1>4, <1>5

\* As many records as places.
LEMMA RecordsCounted ==
  ASSUME NEW strm, NEW pgs \in PageSets, MaxSlots \in Nat
  PROVE  Cardinality(RecordsOf(strm, pgs)) = Cardinality(Places(pgs))
<1> DEFINE P == Places(pgs)
           R == RecordsOf(strm, pgs)
           f == [x \in P |-> [page |-> x[1], slot |-> x[2],
                              values |-> [name \in Names(strm.columns) |->
                                            pgs[x[1]].records[x[2]][ColumnAt(strm.columns, name)]]]]
<1>1. IsFiniteSet(P)
  BY PlacesListed
<1>2. R = {f[x] : x \in P}
  BY DEF RecordsOf
<1>3. \A x \in P : f[x].page = x[1] /\ f[x].slot = x[2] /\ x = <<x[1], x[2]>>
  BY DEF Places
<1>4. \A x, y \in P : f[x] = f[y] => x = y
  <2> HIDE DEF f, P
  <2>1. QED
    BY <1>3
<1>5. DOMAIN f = P /\ f \in [P -> R]
  <2>1. f = [x \in P |-> f[x]] /\ DOMAIN f = P
    OBVIOUS
  <2> HIDE DEF f, P, R
  <2>2. QED
    BY <1>2, <2>1
<1> HIDE DEF f, P, R
<1>6. f \in Bijection(P, R)
  BY <1>2, <1>4, <1>5 DEF Bijection, Injection, Surjection, IsInjective
<1>7. ExistsBijection(P, R)
  BY <1>6 DEF ExistsBijection
<1>8. QED
  BY <1>1, <1>7, FS_Bijection DEF P, R

\* Rewriting every page reshapes the table, and the leaf still names its records.
LEMMA ReshapedPages ==
  ASSUME NEW old, IsSchema(old), NEW new, ReshapesSchema(old, new),
         NEW pgs \in PageSets, NEW lf, Consistent(old, pgs, lf), MaxSlots \in Nat,
         NEW T, NEW to, to = [p \in Pages |-> RewrittenPage(pgs[p], new.columns, T)],
         \A x \in Places(pgs) : /\ ReshapesRecord(old, new, RecordAt(pgs, x), T[RecordAt(pgs, x)])
                                /\ x[2] \in Slots(new.columns)
  PROVE  /\ to \in PageSets
         /\ Consistent(new, to, lf)
         /\ Carried(RecordsOf(old, pgs), RecordsOf(new, to))
<1>1. /\ new.columns \in Seq(Columns) /\ Len(new.columns) \in Nat \ {0}
      /\ DOMAIN new.columns = 1 .. Len(new.columns)
      /\ \A i \in DOMAIN new.columns : ColumnNamed(new.columns, new.columns[i].name)
                                       /\ ColumnAt(new.columns, new.columns[i].name) = i
  BY ColumnsOfSchemas DEF ReshapesSchema
<1>2. NoRecord \in Seq(Values)
  BY DEF NoRecord
<1>3. ASSUME NEW x \in Pages \X (1 .. MaxSlots)
      PROVE  /\ to[x[1]].laidOutFor = new.columns
             /\ RecordAt(to, x) = IF RecordAt(pgs, x) = NoRecord THEN NoRecord ELSE T[RecordAt(pgs, x)]
  BY <1>3 DEF RewrittenPage, RecordForSlot, RecordAt
<1>4. \A x \in Places(pgs) : /\ x \in Pages \X (1 .. MaxSlots)
                             /\ RecordAt(to, x) = T[RecordAt(pgs, x)]
                             /\ RecordAt(to, x) \in Seq(Values) /\ Len(RecordAt(to, x)) = Len(new.columns)
                             /\ RecordAt(to, x) # NoRecord
  <2>1. \A x \in Places(pgs) : x \in Pages \X (1 .. MaxSlots) /\ RecordAt(pgs, x) # NoRecord
    BY RecordsOfPages
  <2>2. \A x \in Places(pgs) : T[RecordAt(pgs, x)] \in Seq(Values)
                               /\ Len(T[RecordAt(pgs, x)]) = Len(new.columns)
    BY DEF ReshapesRecord
  <2>3. Len(NoRecord) = 0
    BY DEF NoRecord
  <2>4. QED
    BY <1>1, <1>3, <2>1, <2>2, <2>3
<1>5. to \in PageSets
  <2>1. ASSUME NEW p \in Pages, NEW s \in 1 .. MaxSlots
        PROVE  to[p].records[s] \in Seq(Values)
    <3>1. <<p, s>> \in Pages \X (1 .. MaxSlots) /\ RecordAt(to, <<p, s>>) = to[p].records[s]
      BY DEF RecordAt
    <3>2. CASE <<p, s>> \in Places(pgs)
      BY <1>4, <3>1, <3>2
    <3>3. CASE <<p, s>> \notin Places(pgs)
      <4>1. RecordAt(pgs, <<p, s>>) = NoRecord
        BY <3>1, <3>3, RecordsOfPages
      <4>2. RecordAt(to, <<p, s>>) = NoRecord
        BY <1>3, <3>1, <4>1
      <4>3. QED
        BY <1>2, <3>1, <4>2
    <3>4. QED
      BY <3>2, <3>3
  <2>2. ASSUME NEW p \in Pages
        PROVE  to[p] \in [laidOutFor : Seq(Columns), records : [1 .. MaxSlots -> Seq(Values)]]
    <3> DEFINE recs == [s \in 1 .. MaxSlots |->
                          LET rec == RecordForSlot(pgs[p], s)
                          IN  IF rec = NoRecord THEN NoRecord ELSE T[rec]]
    <3>1. to[p] = [laidOutFor |-> new.columns, records |-> recs]
      BY DEF RewrittenPage
    <3>2. recs = [s \in 1 .. MaxSlots |-> recs[s]]
      OBVIOUS
    <3> HIDE DEF recs
    <3>3. \A s \in 1 .. MaxSlots : recs[s] \in Seq(Values)
      BY <2>1, <3>1
    <3>4. recs \in [1 .. MaxSlots -> Seq(Values)]
      BY <3>2, <3>3
    <3>5. QED
      BY <1>1, <3>1, <3>4
  <2>3. QED
    BY <2>2 DEF PageSets
<1>6. Places(to) = Places(pgs)
  <2>1. \A x : x \in Places(to) <=> x \in Pages \X (1 .. MaxSlots) /\ RecordAt(to, x) # NoRecord
    BY <1>5, RecordsOfPages
  <2>2. \A x : x \in Places(pgs) <=> x \in Pages \X (1 .. MaxSlots) /\ RecordAt(pgs, x) # NoRecord
    BY RecordsOfPages
  <2>3. ASSUME NEW x \in Places(to) PROVE x \in Places(pgs)
    BY <1>3, <2>1, <2>2
  <2>4. ASSUME NEW x \in Places(pgs) PROVE x \in Places(to)
    BY <1>4, <2>1, <2>2
  <2>5. QED
    BY <2>3, <2>4
<1>7. \A x \in Places(pgs) : /\ GoodRecord(new, RecordAt(to, x))
                             /\ old.key # "" => Entry(new, to, x) = Entry(old, pgs, x)
  <2>1. ASSUME NEW x \in Places(pgs)
        PROVE  /\ GoodRecord(new, RecordAt(to, x))
               /\ old.key # "" => KeyIn(new, RecordAt(to, x)) = KeyIn(old, RecordAt(pgs, x))
    <3>1. GoodRecord(old, RecordAt(pgs, x))
      BY DEF Consistent, RecordAt
    <3>2. ReshapesRecord(old, new, RecordAt(pgs, x), RecordAt(to, x))
      BY <1>4
    <3>3. IsSchema(old) /\ ReshapesSchema(old, new)
      OBVIOUS
    <3> DEFINE rec == RecordAt(pgs, x)
               made == RecordAt(to, x)
    <3>4. GoodRecord(old, rec) /\ ReshapesRecord(old, new, rec, made)
      BY <3>1, <3>2
    <3> HIDE DEF rec, made
    <3>5. GoodRecord(new, made) /\ (old.key # "" => KeyIn(new, made) = KeyIn(old, rec))
      BY ONLY <3>3, <3>4, ReshapedRecords, ZenonT(60)
    <3>6. QED
      BY <3>5 DEF rec, made
  <2>2. QED
    BY <2>1 DEF Entry
<1>8. Consistent(new, to, lf)
  <2>1. \A p \in Pages : to[p].laidOutFor = new.columns
    BY DEF RewrittenPage
  <2>2. lf = KeyEntries(new, to)
    <3>1. new.key = old.key
      BY DEF ReshapesSchema
    <3>2. CASE old.key = ""
      BY <3>1, <3>2, EntriesOfPages DEF Consistent
    <3>3. CASE old.key # ""
      <4>1. lf = {Entry(old, pgs, x) : x \in Places(pgs)}
        BY <3>3, EntriesOfPages DEF Consistent
      <4>2. KeyEntries(new, to) = {Entry(new, to, x) : x \in Places(pgs)}
        BY <1>6, <3>1, <3>3, EntriesOfPages
      <4>3. \A x \in Places(pgs) : Entry(new, to, x) = Entry(old, pgs, x)
        BY <1>7, <3>3
      <4>4. QED
        BY <4>1, <4>2, <4>3
    <3>4. QED
      BY <3>2, <3>3
  <2>3. QED
    BY <1>6, <1>7, <2>1, <2>2 DEF Consistent, RecordAt
<1>9. Carried(RecordsOf(old, pgs), RecordsOf(new, to))
  <2>1. Cardinality(RecordsOf(new, to)) = Cardinality(RecordsOf(old, pgs))
    BY <1>5, <1>6, RecordsCounted
  <2>2. ASSUME NEW r \in RecordsOf(old, pgs)
        PROVE  \E q \in RecordsOf(new, to) :
                 /\ <<q.page, q.slot>> = <<r.page, r.slot>>
                 /\ \A i \in DOMAIN q.values :
                      q.values[i] = IF i \in DOMAIN r.values THEN r.values[i] ELSE Null
    <3> DEFINE was(x) == [name \in Names(old.columns) |-> RecordAt(pgs, x)[ColumnAt(old.columns, name)]]
               is(x) == [name \in Names(new.columns) |-> RecordAt(to, x)[ColumnAt(new.columns, name)]]
    <3>1. PICK x \in Places(pgs) : r = [page |-> x[1], slot |-> x[2], values |-> was(x)]
      BY DEF RecordsOf, RecordAt
    <3> DEFINE q == [page |-> x[1], slot |-> x[2], values |-> is(x)]
    <3>2. q \in RecordsOf(new, to)
      BY <1>6 DEF RecordsOf, RecordAt
    <3>3. q.page = x[1] /\ q.slot = x[2] /\ q.values = is(x)
          /\ r.page = x[1] /\ r.slot = x[2] /\ r.values = was(x)
      BY <3>1
    <3>4. ASSUME NEW i \in Names(new.columns)
          PROVE  is(x)[i] = IF i \in Names(old.columns) THEN was(x)[i] ELSE Null
      <4>1. ColumnNamed(new.columns, i) /\ (i \in Names(old.columns) <=> ColumnNamed(old.columns, i))
        BY DEF Names, ColumnNamed
      <4>2. RecordAt(to, x)[ColumnAt(new.columns, i)] =
              IF ColumnNamed(old.columns, i) THEN RecordAt(pgs, x)[ColumnAt(old.columns, i)] ELSE Null
        BY <1>4, <4>1 DEF ReshapesRecord
      <4>3. QED
        BY <4>1, <4>2
    <3>5. DOMAIN is(x) = Names(new.columns) /\ DOMAIN was(x) = Names(old.columns)
      OBVIOUS
    <3> HIDE DEF was, is, q
    <3>6. QED
      BY <3>2, <3>3, <3>4, <3>5
  <2>3. QED
    BY <2>1, <2>2 DEF Carried
<1>10. QED
  BY <1>5, <1>8, <1>9

-----------------------------------------------------------------------------
(* ALTER TABLE.                                                            *)

Units == {"schema", "page", "lastID"} \X Nat

\* The schema is written first and once, and every page after it.
LEMMA WritesLaws ==
  ASSUME NEW extra \in Seq({"lastID"} \X Nat)
  PROVE  LET w == Writes(extra)
         IN  /\ w \in Seq(Units) /\ w # <<>>
             /\ w[1] = <<"schema", 0>>
             /\ \A n \in DOMAIN w : w[n][1] = "schema" => n = 1
             /\ \A n \in DOMAIN w : w[n][1] = "lastID" => \E m \in DOMAIN extra : w[n] = extra[m]
             /\ \A p \in Pages : \E n \in DOMAIN w : w[n] = <<"page", p>>
<1> DEFINE N == Cardinality(Pages)
           listing == InOrder(Pages, <)
           first == <<<<"schema", 0>>>>
           middle == [n \in 1 .. N |-> <<"page", listing[n]>>]
           w == (first \o middle) \o extra
<1>1. /\ N \in Nat /\ listing \in [1 .. N -> Pages]
      /\ \A p \in Pages : \E n \in 1 .. N : listing[n] = p
  BY PagesListed
<1>2. Writes(extra) = w
  BY DEF Writes
<1> HIDE DEF N, listing
<1>3. /\ middle \in Seq(Units) /\ Len(middle) = N /\ DOMAIN middle = 1 .. N
      /\ \A n \in 1 .. N : middle[n] = <<"page", listing[n]>>
  <2>1. \A n \in 1 .. N : <<"page", listing[n]>> \in Units
    BY <1>1 DEF Units
  <2>2. middle \in [1 .. N -> Units]
    BY <2>1
  <2>3. \A n \in 1 .. N : middle[n] = <<"page", listing[n]>>
    OBVIOUS
  <2> HIDE DEF middle
  <2>4. QED
    BY ONLY <1>1, <2>2, <2>3, FunctionsAreSequences
<1>4. first \in Seq(Units) /\ Len(first) = 1 /\ first[1] = <<"schema", 0>>
  BY DEF Units
<1>5. /\ extra \in Seq(Units) /\ Len(extra) \in Nat /\ DOMAIN extra = 1 .. Len(extra)
      /\ \A n \in DOMAIN extra : extra[n][1] = "lastID"
  <2>1. extra \in [1 .. Len(extra) -> {"lastID"} \X Nat] /\ Len(extra) \in Nat
    OBVIOUS
  <2>2. \A n \in 1 .. Len(extra) : extra[n] \in Units /\ extra[n][1] = "lastID"
    BY <2>1 DEF Units
  <2>3. extra \in [1 .. Len(extra) -> Units]
    BY <2>1, <2>2
  <2>4. QED
    BY <2>1, <2>2, <2>3
<1> HIDE DEF first, middle
<1>6. /\ w \in Seq(Units) /\ Len(w) = 1 + N + Len(extra) /\ DOMAIN w = 1 .. Len(w)
      /\ w[1] = first[1]
      /\ \A n \in 1 .. N : w[n + 1] = middle[n]
      /\ \A n \in 1 .. Len(extra) : w[n + 1 + N] = extra[n]
  <2> DEFINE a == first \o middle
  <2>1. /\ a \in Seq(Units) /\ Len(a) = 1 + N /\ a[1] = first[1]
        /\ \A n \in 1 .. N : a[n + 1] = middle[n]
    <3>1. /\ a \in Seq(Units)
          /\ Len(a) = Len(first) + Len(middle)
          /\ \A n \in 1 .. Len(first) : a[n] = first[n]
          /\ \A n \in 1 .. Len(middle) : a[n + Len(first)] = middle[n]
      <4>1. first \in Seq(Units) /\ middle \in Seq(Units)
        BY <1>3, <1>4
      <4>2. QED
        BY ONLY <4>1, ConcatenationLaws
    <3> HIDE DEF a
    <3>2. QED
      BY <1>1, <1>3, <1>4, <3>1
  <2> HIDE DEF a
  <2>2. /\ a \o extra \in Seq(Units) /\ Len(a \o extra) = 1 + N + Len(extra)
        /\ \A n \in 1 .. 1 + N : (a \o extra)[n] = a[n]
        /\ \A n \in 1 .. Len(extra) : (a \o extra)[n + 1 + N] = extra[n]
    <3>1. /\ Len(a \o extra) = Len(a) + Len(extra)
          /\ \A n \in 1 .. Len(extra) : (a \o extra)[n + Len(a)] = extra[n]
          /\ a \o extra \in Seq(Units)
          /\ \A n \in 1 .. Len(a) : (a \o extra)[n] = a[n]
      <4>1. extra \in Seq(Units) /\ a \in Seq(Units)
        BY <1>5, <2>1
      <4>2. QED
        BY ONLY <4>1, ConcatenationLaws
    <3>2. \A n \in 1 .. Len(extra) : n + Len(a) = n + 1 + N
      BY <1>1, <1>5, <2>1
    <3>3. QED
      BY <2>1, <3>1, <3>2
  <2>3. DOMAIN (a \o extra) = 1 .. Len(a \o extra)
    BY <2>2
  <2>4. w = a \o extra
    BY DEF a
  <2> HIDE DEF w
  <2>5. QED
    BY <1>1, <2>1, <2>2, <2>3, <2>4
<1> HIDE DEF w
<1>7. ASSUME NEW n \in DOMAIN w
      PROVE  \/ n = 1 /\ w[n] = <<"schema", 0>>
             \/ \E p \in Pages : w[n] = <<"page", p>>
             \/ \E m \in DOMAIN extra : w[n] = extra[m] /\ w[n][1] = "lastID"
  <2>1. CASE n = 1
    BY <1>4, <1>6, <2>1
  <2>2. CASE n \in 2 .. N + 1
    <3>1. n - 1 \in 1 .. N /\ (n - 1) + 1 = n
      BY <1>1, <2>2
    <3>2. w[n] = <<"page", listing[n - 1]>> /\ listing[n - 1] \in Pages
      BY <1>1, <1>3, <1>6, <3>1
    <3>3. QED
      BY <3>2
  <2>3. CASE n > N + 1
    <3>1. n - 1 - N \in 1 .. Len(extra) /\ (n - 1 - N) + 1 + N = n
      BY <1>1, <1>5, <1>6, <2>3
    <3>2. w[n] = extra[n - 1 - N]
      BY <1>6, <3>1
    <3>3. QED
      BY <1>5, <3>1, <3>2
  <2>4. QED
    BY <1>1, <1>6, <2>1, <2>2, <2>3
<1>8. ASSUME NEW p \in Pages PROVE \E n \in DOMAIN w : w[n] = <<"page", p>>
  <2>1. PICK m \in 1 .. N : listing[m] = p
    BY <1>1
  <2>2. m + 1 \in DOMAIN w /\ w[m + 1] = <<"page", p>>
    BY <1>1, <1>3, <1>5, <1>6, <2>1
  <2>3. QED
    BY <2>2
<1>9. w # <<>>
  BY <1>1, <1>5, <1>6
<1>10. \A n \in DOMAIN w : w[n][1] = "schema" => n = 1
  BY <1>7
<1>11. \A n \in DOMAIN w : w[n][1] = "lastID" => \E m \in DOMAIN extra : w[n] = extra[m]
  BY <1>7
<1>12. QED
  BY <1>2, <1>4, <1>6, <1>8, <1>9, <1>10, <1>11

LEMMA BeginAlterHolds ==
  ASSUME IInv, NEW new, NEW T, NEW extra \in Seq({"lastID"} \X Nat),
         BeginAlter(new, T, extra), ReshapesSchema(stream, new),
         \A rec \in Present : rec \in Seq(Values) /\ GoodRecord(stream, rec)
                              => ReshapesRecord(stream, new, rec, T[rec]),
         Follows(new.columns, info.builtFor),
         KeepsUp(new.columns, info.builtFor, info.counters, inserted),
         \A m \in DOMAIN extra : extra[m][2] >= Len(info.builtFor)
  PROVE  IInv'
<1> DEFINE to == [p \in Pages |-> RewrittenPage(pages[p], new.columns, T)]
           writes == Writes(extra)
<1>1. /\ alters < MaxAlters /\ alters' = alters + 1
      /\ phase = "idle" /\ phase' = "altering" /\ ~torn /\ torn' = torn
      /\ stream' = stream /\ pages' = pages /\ leaf' = leaf /\ info' = info /\ lastID' = lastID
      /\ inserted' = inserted /\ changes' = changes
      /\ EveryRecordFits(new.columns)
      /\ edit' = [stream |-> new, pages |-> to]
      /\ pending' = writes
      /\ before' = RecordsOf(stream, pages)
  BY DEF BeginAlter, disk
<1>2. TypesHold /\ CountersHold /\ AtRest
  BY DEF IInv
<1>3. IsSchema(stream) /\ pages \in PageSets /\ Consistent(stream, pages, leaf)
  BY <1>1, <1>2 DEF TypesHold, AtRest
<1>4. MaxSlots \in Nat
  <2>1. stream.columns \in Seq(Columns) /\ Len(stream.columns) \in Nat \ {0}
    BY ONLY <1>3, ColumnsOfSchemas
  <2>2. QED
    BY <2>1, SlotsAreAddressed
<1>5. ASSUME NEW x \in Places(pages)
      PROVE  /\ ReshapesRecord(stream, new, RecordAt(pages, x), T[RecordAt(pages, x)])
             /\ x[2] \in Slots(new.columns)
  <2>1. /\ x \in Pages \X (1 .. MaxSlots) /\ RecordAt(pages, x) # NoRecord
        /\ RecordAt(pages, x) \in Seq(Values)
    BY <1>3, RecordsOfPages
  <2>2. RecordAt(pages, x) \in Present
    BY <2>1 DEF Present, RecordAt
  <2>3. GoodRecord(stream, RecordAt(pages, x))
    BY <1>3 DEF Consistent, RecordAt
  <2>4. x[2] \in OccupiedSlots(pages[x[1]]) /\ x[1] \in Pages
    BY <2>1 DEF OccupiedSlots, RecordAt
  <2>5. x[2] \in Slots(new.columns)
    BY <1>1, <2>4 DEF EveryRecordFits
  <2>6. QED
    BY <2>1, <2>2, <2>3, <2>5
<1> HIDE DEF to
<1>6. /\ to \in PageSets
      /\ Consistent(new, to, leaf)
      /\ Carried(RecordsOf(stream, pages), RecordsOf(new, to))
  <2>1. to = [p \in Pages |-> RewrittenPage(pages[p], new.columns, T)]
    BY DEF to
  <2>2. ReshapesSchema(stream, new)
    OBVIOUS
  <2>3. QED
    BY ONLY <1>3, <1>4, <1>5, <2>1, <2>2, ReshapedPages
<1>7. /\ writes \in Seq(Units) /\ writes # <<>>
      /\ writes[1] = <<"schema", 0>>
      /\ \A n \in DOMAIN writes : writes[n][1] = "schema" => n = 1
      /\ \A n \in DOMAIN writes : writes[n][1] = "lastID" => \E m \in DOMAIN extra : writes[n] = extra[m]
      /\ \A p \in Pages : \E n \in DOMAIN writes : writes[n] = <<"page", p>>
  BY WritesLaws
<1> HIDE DEF writes
<1>8. IsSchema(new) /\ new \in Schemas
  BY ColumnsOfSchemas DEF ReshapesSchema
<1>9. edit'.stream = new /\ edit'.pages = to
  BY <1>1
<1>10. SchemaPending'
  BY <1>1, <1>7 DEF SchemaPending
<1>11. \A p \in Pages : PagePending(p)'
  BY <1>1, <1>7 DEF PagePending
<1>12. Altering'
  <2>1. edit' \in [stream : Schemas, pages : PageSets]
    BY <1>1, <1>6, <1>8
  <2>2. Consistent(edit.stream, edit.pages, leaf)' /\ Consistent(stream, pages, leaf)'
    BY <1>1, <1>3, <1>6, <1>9
  <2>3. Follows(edit.stream.columns, info.builtFor)'
    BY <1>1, <1>9
  <2>4. KeepsUp(edit.stream.columns, info.builtFor, info.counters, inserted)'
    BY <1>1, <1>9
  <2>5. \A n \in DOMAIN pending' : /\ pending'[n][1] = "lastID" => pending'[n][2] >= Len(info'.builtFor)
                                   /\ pending'[n][1] = "schema" => n = 1
    BY <1>1, <1>7
  <2>6. Carried(before, RecordsOf(edit.stream, edit.pages))'
    BY <1>1, <1>6, <1>9
  <2>7. IsSchema(edit.stream)' /\ (pending \in Seq({"schema", "page", "lastID"} \X Nat))'
    BY <1>1, <1>7, <1>8, <1>9 DEF Units
  <2>8. QED
    BY <1>10, <1>11, <2>1, <2>2, <2>3, <2>4, <2>5, <2>6, <2>7 DEF Altering
<1>13. TypesHold'
  <2>1. alters' \in 0 .. MaxAlters
    BY <1>1, <1>2 DEF TypesHold
  <2>2. QED
    BY <1>1, <1>2, <2>1 DEF TypesHold
<1>14. CountersHold'
  BY <1>1, <1>2 DEF CountersHold
<1>15. AtRest' /\ TornIsIdle' /\ Writing'
  BY <1>1 DEF AtRest, TornIsIdle, Writing
<1>16. QED
  BY <1>12, <1>13, <1>14, <1>15 DEF IInv

\* A column that is added comes last and has a new id.
LEMMA AddColumnHolds ==
  ASSUME IInv, NEW name \in ColumnNames, NEW kind \in NewKinds, AddColumn(name, kind)
  PROVE  IInv'
<1> DEFINE col == [name |-> name, id |-> NextID, kind |-> kind, increment |-> 1, maxValue |-> MaxInt]
           old == stream.columns
           cols == Append(old, col)
           new == [stream EXCEPT !.columns = cols]
           T == [rec \in Present |-> Append(rec, Null)]
           extra == <<<<"lastID", col.id>>>>
<1>1. /\ ~ColumnNamed(old, name) /\ kind \in CreatableKinds
      /\ BeginAlter(new, T, extra)
  BY DEF AddColumn, SpliceAdd, Extended
<1>2. /\ TypesHold /\ CountersHold /\ IsSchema(stream)
      /\ lastID \in Nat /\ lastID >= Len(info.builtFor)
      /\ info.builtFor \in Seq(Columns) /\ Len(info.builtFor) \in Nat
  BY DEF IInv, TypesHold, CountersHold
<1>3. /\ col \in Columns /\ col.name = name /\ col.kind = kind
      /\ col.id \in Nat /\ col.id > Len(info.builtFor)
  BY <1>1, <1>2 DEF Columns, NextID
<1> HIDE DEF col
<1>4. /\ stream \in Schemas /\ old \in Seq(Columns)
      /\ stream.key # "" => ColumnNamed(old, stream.key)
  BY ONLY <1>2, ColumnsOfSchemas
<1> DEFINE n == Len(old)
<1>16. n \in Nat \ {0} /\ DOMAIN old = 1 .. n
  BY ONLY <1>2, ColumnsOfSchemas
<1>17. \A i \in 1 .. n : /\ old[i] \in Columns
                         /\ ColumnNamed(old, old[i].name)
                         /\ ColumnAt(old, old[i].name) = i
  BY ONLY <1>2, <1>16, ColumnsOfSchemas
<1>18. \A m : ColumnNamed(old, m) => ColumnAt(old, m) \in 1 .. n /\ old[ColumnAt(old, m)].name = m
  BY ONLY <1>2, <1>16, ColumnsOfSchemas
<1>5. /\ cols \in Seq(Columns) /\ Len(cols) = n + 1 /\ DOMAIN cols = 1 .. n + 1
      /\ \A i \in 1 .. n : cols[i] = old[i]
      /\ cols[n + 1] = col
  <2>1. col \in Columns /\ old \in Seq(Columns)
    BY <1>3, <1>4
  <2> HIDE DEF old
  <2>2. QED
    BY ONLY <2>1, AppendLaws
<1> HIDE DEF n
<1>19. \A i \in 1 .. n + 1 : (i \in 1 .. n /\ cols[i] = old[i]) \/ (i = n + 1 /\ cols[i] = col)
  <2> HIDE DEF cols, col, old
  <2>1. \A i \in 1 .. n + 1 : i \in 1 .. n \/ i = n + 1
    BY ONLY <1>16
  <2>2. QED
    BY ONLY <1>5, <2>1
<1>20. n + 1 \in 1 .. n + 1 /\ \A i \in 1 .. n : i \in 1 .. n + 1 /\ i # n + 1
  BY ONLY <1>16
<1> HIDE DEF cols
<1>6. \A m : ColumnNamed(cols, m) <=> ColumnNamed(old, m) \/ m = name
  BY ONLY <1>3, <1>5, <1>16, <1>19, <1>20 DEF ColumnNamed
<1>7. /\ new.columns = cols /\ new.key = stream.key /\ new.constraints = stream.constraints
      /\ new \in Schemas
  BY <1>4, <1>5 DEF Schemas
<1>8. IsSchema(new)
  <2>1. new \in [columns : Seq(Columns), key : STRING, constraints : SUBSET Constraints, blobs : BOOLEAN]
    BY <1>7 DEF Schemas
  <2>2. cols # <<>>
    BY ONLY <1>5, <1>16
  <2>3. ASSUME NEW i \in DOMAIN cols, NEW j \in DOMAIN cols, cols[i].name = cols[j].name
        PROVE  i = j
    <3>1. \A k \in 1 .. n : old[k].name # name
      BY <1>1, <1>16 DEF ColumnNamed
    <3>2. \A k, l \in 1 .. n : old[k].name = old[l].name => k = l
      BY ONLY <1>17
    <3>3. i \in 1 .. n + 1 /\ j \in 1 .. n + 1
      BY ONLY <1>5, i \in DOMAIN cols, j \in DOMAIN cols
    <3>4. QED
      BY ONLY <1>3, <1>19, <2>3, <3>1, <3>2, <3>3
  <2>4. stream.key = "" \/ \E i \in DOMAIN cols : cols[i].name = stream.key
    <3>1. stream.key # "" => ColumnNamed(cols, stream.key)
      BY <1>4, <1>6
    <3>2. QED
      BY <3>1 DEF ColumnNamed
  <2> HIDE DEF new
  <2>5. QED
    BY <1>7, <2>1, <2>2, <2>3, <2>4 DEF IsSchema
<1> HIDE DEF new
<1>9. \A m : ColumnNamed(cols, m) =>
        IF ColumnNamed(old, m) THEN ColumnAt(cols, m) = ColumnAt(old, m) /\ ColumnAt(old, m) \in 1 .. n
        ELSE ColumnAt(cols, m) = n + 1
  <2>1. \A i \in 1 .. n + 1 : ColumnAt(cols, cols[i].name) = i
    BY ONLY <1>5, <1>7, <1>8, ColumnsOfSchemas
  <2>2. \A m : ColumnNamed(old, m) => cols[ColumnAt(old, m)].name = m /\ ColumnAt(old, m) \in 1 .. n + 1
    BY ONLY <1>5, <1>18, <1>20
  <2>3. cols[n + 1].name = name
    BY ONLY <1>3, <1>5
  <2>4. QED
    BY ONLY <1>6, <1>18, <1>20, <2>1, <2>2, <2>3
<1>10. ReshapesSchema(stream, new)
  <2>1. ASSUME NEW m, ColumnNamed(old, m), ColumnNamed(cols, m)
        PROVE  cols[ColumnAt(cols, m)].kind = old[ColumnAt(old, m)].kind
    BY ONLY <1>5, <1>9, <2>1
  <2>2. QED
    BY ONLY <1>4, <1>6, <1>7, <1>8, <2>1 DEF ReshapesSchema
<1>11. ASSUME NEW rec \in Present, rec \in Seq(Values), GoodRecord(stream, rec)
       PROVE  ReshapesRecord(stream, new, rec, T[rec])
  <2>1. T[rec] = Append(rec, Null)
    OBVIOUS
  <2>2. Len(rec) = Len(old) /\ Null \in Values
    BY <1>11 DEF GoodRecord, Values
  <2>3. /\ T[rec] \in Seq(Values) /\ Len(T[rec]) = n + 1
        /\ \A i \in 1 .. n : T[rec][i] = rec[i]
        /\ T[rec][n + 1] = Null
    <3> HIDE DEF T, old
    <3>1. /\ Append(rec, Null) \in Seq(Values) /\ Len(Append(rec, Null)) = Len(rec) + 1
          /\ \A i \in 1 .. Len(rec) : Append(rec, Null)[i] = rec[i]
          /\ Append(rec, Null)[Len(rec) + 1] = Null
      BY ONLY <1>11, <2>2, AppendLaws
    <3>2. QED
      BY ONLY <2>1, <2>2, <3>1 DEF n
  <2> HIDE DEF T
  <2>4. ASSUME NEW m, ColumnNamed(cols, m)
        PROVE  T[rec][ColumnAt(cols, m)] = IF ColumnNamed(old, m) THEN rec[ColumnAt(old, m)] ELSE Null
    BY ONLY <1>9, <2>3, <2>4
  <2>5. QED
    BY ONLY <1>5, <1>7, <2>3, <2>4 DEF ReshapesRecord
<1>12. Follows(cols, info.builtFor)
  <2>1. Follows(old, info.builtFor)
    BY <1>2 DEF CountersHold
  <2>2. ASSUME NEW i \in DOMAIN cols, cols[i].id <= Len(info.builtFor)
        PROVE  i \in DOMAIN old /\ cols[i] = old[i]
    <3>1. cols[i] # col
      BY <1>2, <1>3, <2>2
    <3>2. QED
      BY <1>5, <1>16, <1>19, <3>1
  <2>3. \A i \in DOMAIN cols : cols[i].id <= Len(info.builtFor) =>
          \E j \in DOMAIN info.builtFor : i <= j /\ info.builtFor[j].id = cols[i].id
    BY <2>1, <2>2 DEF Follows
  <2>4. \A i, j \in DOMAIN cols : cols[i].id = cols[j].id /\ cols[i].id <= Len(info.builtFor) => i = j
    BY <2>1, <2>2 DEF Follows
  <2>5. QED
    BY <2>3, <2>4 DEF Follows
<1>13. KeepsUp(cols, info.builtFor, info.counters, inserted)
  <2>1. KeepsUp(old, info.builtFor, info.counters, inserted)
    BY <1>2 DEF CountersHold
  <2>2. ASSUME NEW i \in Positions(cols, "autoinc") \cap DOMAIN info.builtFor,
               cols[i].id = info.builtFor[i].id
        PROVE  i \in Positions(old, "autoinc") /\ cols[i] = old[i]
    <3>1. i \in DOMAIN cols /\ cols[i].kind = "autoinc"
      BY DEF Positions
    <3>2. info.builtFor[i].id <= Len(info.builtFor)
      BY <1>2 DEF CountersHold, NumberedThrough
    <3>3. i \in DOMAIN old /\ cols[i] = old[i]
      <4>1. cols[i] # col
        BY <1>2, <1>3, <2>2, <3>2
      <4>2. QED
        BY <1>5, <1>16, <1>19, <3>1, <4>1
    <3>4. QED
      BY <3>1, <3>3 DEF Positions
  <2>3. QED
    BY <2>1, <2>2 DEF KeepsUp
<1>14. extra \in Seq({"lastID"} \X Nat) /\ \A m \in DOMAIN extra : extra[m][2] >= Len(info.builtFor)
  BY <1>2, <1>3
<1> HIDE DEF T, extra
<1>15. QED
  BY <1>1, <1>7, <1>10, <1>11, <1>12, <1>13, <1>14, BeginAlterHolds

\* A column behind the one that is dropped is no longer in the place its counter is
\* kept for, so that nothing is said of its counter any more.
LEMMA DropColumnHolds ==
  ASSUME IInv, NEW i \in DOMAIN stream.columns, DropColumn(i)
  PROVE  IInv'
<1> DEFINE old == stream.columns
           cols == RemoveAt(old, i)
           new == [stream EXCEPT !.columns = cols]
           T == [rec \in Present |-> RemoveAt(rec, i)]
           n == Len(old)
           from(k) == IF k < i THEN k ELSE k + 1
           built == info.builtFor
<1>1. /\ ~NamedByTail(old[i].name) /\ n > 1
      /\ BeginAlter(new, T, <<>>)
  BY DEF DropColumn, SpliceDrop, MayBeDropped, Without
<1>2. /\ TypesHold /\ CountersHold /\ IsSchema(stream)
      /\ built \in Seq(Columns) /\ Len(built) \in Nat /\ DOMAIN built = 1 .. Len(built)
  BY DEF IInv, TypesHold, CountersHold
<1>3. /\ stream \in Schemas /\ old \in Seq(Columns)
      /\ stream.key # "" => ColumnNamed(old, stream.key)
  BY ONLY <1>2, ColumnsOfSchemas
<1>4. n \in Nat /\ DOMAIN old = 1 .. n
  BY ONLY <1>2, ColumnsOfSchemas
<1>5. \A k \in 1 .. n : /\ old[k] \in Columns
                        /\ ColumnNamed(old, old[k].name)
                        /\ ColumnAt(old, old[k].name) = k
  BY ONLY <1>2, <1>4, ColumnsOfSchemas
<1>6. \A m : ColumnNamed(old, m) => ColumnAt(old, m) \in 1 .. n /\ old[ColumnAt(old, m)].name = m
  BY ONLY <1>2, <1>4, ColumnsOfSchemas
<1>7. i \in DOMAIN old
  OBVIOUS
<1>8. /\ cols \in Seq(Columns) /\ Len(cols) = n - 1 /\ DOMAIN cols = 1 .. n - 1
      /\ \A k \in 1 .. n - 1 : cols[k] = IF k < i THEN old[k] ELSE old[k + 1]
  BY ONLY <1>3, <1>7, RemoveAtLaws
<1> HIDE DEF cols, n, built
<1>9. /\ i \in 1 .. n
      /\ \A k \in 1 .. n - 1 : from(k) \in 1 .. n /\ from(k) # i /\ k <= from(k)
      /\ \A k, l \in 1 .. n - 1 : from(k) = from(l) => k = l
      /\ \A l \in 1 .. n : l # i => \E k \in 1 .. n - 1 : from(k) = l
  <2>1. i \in 1 .. n
    BY ONLY <1>4, <1>7
  <2>2. /\ \A k \in 1 .. n - 1 : from(k) \in 1 .. n /\ from(k) # i /\ k <= from(k)
        /\ \A k, l \in 1 .. n - 1 : from(k) = from(l) => k = l
    BY ONLY <1>4, <2>1
  <2>3. ASSUME NEW l \in 1 .. n, l # i PROVE \E k \in 1 .. n - 1 : from(k) = l
    <3>1. CASE l < i
      BY ONLY <1>4, <2>1, <2>3, <3>1
    <3>2. CASE ~(l < i)
      <4>1. l - 1 \in 1 .. n - 1 /\ from(l - 1) = l
        BY ONLY <1>4, <2>1, <2>3, <3>2
      <4>2. QED
        BY <4>1
    <3>3. QED
      BY <3>1, <3>2
  <2>4. QED
    BY <2>1, <2>2, <2>3
<1>10. \A k \in 1 .. n - 1 : cols[k] = old[from(k)]
  BY <1>8
<1> HIDE DEF from, old
<1>11. /\ \A m : ColumnNamed(cols, m) => ColumnNamed(old, m)
       /\ \A m : ColumnNamed(old, m) /\ m # old[i].name => ColumnNamed(cols, m)
  <2>1. ASSUME NEW m, ColumnNamed(cols, m) PROVE ColumnNamed(old, m)
    <3>1. PICK k \in 1 .. n - 1 : cols[k].name = m
      BY <1>8, <2>1 DEF ColumnNamed
    <3>2. QED
      BY <1>5, <1>9, <1>10, <3>1
  <2>2. ASSUME NEW m, ColumnNamed(old, m), m # old[i].name PROVE ColumnNamed(cols, m)
    <3>1. ColumnAt(old, m) \in 1 .. n /\ old[ColumnAt(old, m)].name = m /\ ColumnAt(old, m) # i
      BY <1>6, <2>2
    <3>2. PICK k \in 1 .. n - 1 : from(k) = ColumnAt(old, m)
      BY <1>9, <3>1
    <3>3. cols[k].name = m /\ k \in DOMAIN cols
      BY <1>8, <1>10, <3>1, <3>2
    <3>4. QED
      BY <3>3 DEF ColumnNamed
  <2>3. QED
    BY <2>1, <2>2
<1>12. /\ new.columns = cols /\ new.key = stream.key /\ new.constraints = stream.constraints
       /\ new \in Schemas
  BY ONLY <1>3, <1>8 DEF Schemas
<1>13. /\ stream.key # "" => stream.key # old[i].name
       /\ \A c \in stream.constraints : c.column # old[i].name
  <2>1. stream.columns = old
    BY DEF old
  <2>2. QED
    BY <1>1, <2>1 DEF NamedByTail
<1>14. IsSchema(new)
  <2>1. new \in [columns : Seq(Columns), key : STRING, constraints : SUBSET Constraints, blobs : BOOLEAN]
    BY <1>12 DEF Schemas
  <2>2. cols # <<>>
    BY ONLY <1>1, <1>4, <1>8
  <2>3. ASSUME NEW k \in DOMAIN cols, NEW l \in DOMAIN cols, cols[k].name = cols[l].name
        PROVE  k = l
    <3>1. k \in 1 .. n - 1 /\ l \in 1 .. n - 1
      BY <1>8
    <3>2. old[from(k)].name = old[from(l)].name
      BY <1>10, <2>3, <3>1
    <3>3. from(k) = from(l)
      BY ONLY <1>5, <1>9, <3>1, <3>2
    <3>4. QED
      BY <1>9, <3>1, <3>3
  <2>4. stream.key = "" \/ \E k \in DOMAIN cols : cols[k].name = stream.key
    <3>1. stream.key # "" => ColumnNamed(cols, stream.key)
      BY <1>3, <1>11, <1>13
    <3>2. QED
      BY <3>1 DEF ColumnNamed
  <2> HIDE DEF new
  <2>5. QED
    BY ONLY <1>12, <2>1, <2>2, <2>3, <2>4 DEF IsSchema
<1> HIDE DEF new
<1>15. \A m : ColumnNamed(cols, m) => /\ ColumnAt(cols, m) \in 1 .. n - 1
                                      /\ from(ColumnAt(cols, m)) = ColumnAt(old, m)
  <2>1. ASSUME NEW m, ColumnNamed(cols, m)
        PROVE  /\ ColumnAt(cols, m) \in 1 .. n - 1
               /\ from(ColumnAt(cols, m)) = ColumnAt(old, m)
    <3>1. ColumnAt(cols, m) \in 1 .. n - 1 /\ cols[ColumnAt(cols, m)].name = m
      BY ONLY <1>8, <1>12, <1>14, <2>1, ColumnsOfSchemas
    <3>2. old[from(ColumnAt(cols, m))].name = m /\ from(ColumnAt(cols, m)) \in 1 .. n
      BY ONLY <1>9, <1>10, <3>1
    <3>3. QED
      BY ONLY <1>5, <3>1, <3>2
  <2>2. QED
    BY <2>1
<1>16. ReshapesSchema(stream, new)
  <2>1. stream.columns = old
    BY DEF old
  <2>2. ASSUME NEW m, ColumnNamed(cols, m)
        PROVE  cols[ColumnAt(cols, m)].kind = old[ColumnAt(old, m)].kind
    BY ONLY <1>10, <1>15, <2>2
  <2>3. QED
    BY ONLY <1>3, <1>11, <1>12, <1>13, <1>14, <2>1, <2>2 DEF ReshapesSchema
<1>17. ASSUME NEW rec \in Present, rec \in Seq(Values), GoodRecord(stream, rec)
       PROVE  ReshapesRecord(stream, new, rec, T[rec])
  <2>1. T[rec] = RemoveAt(rec, i)
    OBVIOUS
  <2>2. Len(rec) = n
    BY <1>17 DEF GoodRecord, n, old
  <2>3. i \in DOMAIN rec
    BY <1>9, <1>17, <2>2
  <2> HIDE DEF T
  <2>4. /\ T[rec] \in Seq(Values) /\ Len(T[rec]) = n - 1
        /\ \A k \in 1 .. n - 1 : T[rec][k] = IF k < i THEN rec[k] ELSE rec[k + 1]
    BY ONLY <1>17, <2>1, <2>2, <2>3, RemoveAtLaws
  <2>5. \A k \in 1 .. n - 1 : T[rec][k] = rec[from(k)]
    BY <2>4 DEF from
  <2>6. ASSUME NEW m, ColumnNamed(cols, m)
        PROVE  ColumnNamed(old, m) /\ T[rec][ColumnAt(cols, m)] = rec[ColumnAt(old, m)]
    BY ONLY <1>11, <1>15, <2>5, <2>6
  <2>7. stream.columns = old
    BY DEF old
  <2>8. QED
    BY ONLY <1>8, <1>12, <2>4, <2>6, <2>7 DEF ReshapesRecord
<1>18. Follows(old, built) /\ KeepsUp(old, built, info.counters, inserted)
  BY <1>2 DEF CountersHold, old, built
<1>19. \A k, l \in DOMAIN built : built[k].id = built[l].id => k = l
  BY <1>2 DEF CountersHold, NumberedThrough, built
<1>20. \A k \in DOMAIN built : built[k].id <= Len(built)
  BY <1>2 DEF CountersHold, NumberedThrough, built
<1>21. Follows(cols, built)
  <2>1. ASSUME NEW k \in DOMAIN cols, cols[k].id <= Len(built)
        PROVE  \E j \in DOMAIN built : k <= j /\ built[j].id = cols[k].id
    <3>1. k \in 1 .. n - 1 /\ from(k) \in 1 .. n /\ k <= from(k) /\ cols[k] = old[from(k)]
      BY <1>8, <1>9, <1>10
    <3>2. PICK j \in DOMAIN built : from(k) <= j /\ built[j].id = cols[k].id
      BY ONLY <1>4, <1>18, <2>1, <3>1 DEF Follows
    <3>3. k <= j
      BY ONLY <1>2, <1>4, <3>1, <3>2
    <3>4. QED
      BY <3>2, <3>3
  <2>2. ASSUME NEW k \in DOMAIN cols, NEW l \in DOMAIN cols,
               cols[k].id = cols[l].id, cols[k].id <= Len(built)
        PROVE  k = l
    <3>1. k \in 1 .. n - 1 /\ l \in 1 .. n - 1
      BY <1>8
    <3>2. /\ from(k) \in DOMAIN old /\ from(l) \in DOMAIN old
          /\ cols[k] = old[from(k)] /\ cols[l] = old[from(l)]
      BY <1>4, <1>9, <1>10, <3>1
    <3>3. from(k) = from(l)
      BY ONLY <1>18, <2>2, <3>2 DEF Follows
    <3>4. QED
      BY <1>9, <3>1, <3>3
  <2>3. QED
    BY <2>1, <2>2 DEF Follows
<1>22. KeepsUp(cols, built, info.counters, inserted)
  <2>1. ASSUME NEW k \in Positions(cols, "autoinc") \cap DOMAIN built, cols[k].id = built[k].id
        PROVE  k \in Positions(old, "autoinc") /\ cols[k] = old[k]
    <3>1. /\ k \in 1 .. n - 1 /\ from(k) \in 1 .. n /\ k <= from(k) /\ cols[k] = old[from(k)]
          /\ cols[k].kind = "autoinc" /\ k \in DOMAIN built
      BY <1>8, <1>9, <1>10 DEF Positions
    <3>2. old[from(k)].id <= Len(built)
      BY <1>20, <2>1, <3>1
    <3>3. PICK j \in DOMAIN built : from(k) <= j /\ built[j].id = old[from(k)].id
      BY ONLY <1>4, <1>18, <3>1, <3>2 DEF Follows
    <3>4. j = k
      BY ONLY <1>19, <2>1, <3>1, <3>3
    <3>5. from(k) = k
      BY ONLY <1>4, <3>1, <3>3, <3>4
    <3>6. QED
      BY <1>4, <3>1, <3>5 DEF Positions
  <2>2. QED
    BY <1>18, <2>1 DEF KeepsUp
<1>23. <<>> \in Seq({"lastID"} \X Nat) /\ \A m \in DOMAIN <<>> : <<>>[m][2] >= Len(info.builtFor)
  OBVIOUS
<1> HIDE DEF T
<1>24. /\ IInv
       /\ \A rec \in Present : rec \in Seq(Values) /\ GoodRecord(stream, rec)
                               => ReshapesRecord(stream, new, rec, T[rec])
       /\ Follows(new.columns, info.builtFor)
       /\ KeepsUp(new.columns, info.builtFor, info.counters, inserted)
  BY <1>12, <1>17, <1>21, <1>22 DEF built
<1>25. QED
  BY ONLY <1>1, <1>16, <1>23, <1>24, BeginAlterHolds

-----------------------------------------------------------------------------
(* The flush of an alteration.                                             *)

\* What Altering says, item by item.
LEMMA AlteringHolds ==
  ASSUME IInv, phase = "altering"
  PROVE  /\ TypesHold /\ CountersHold /\ ~torn
         /\ edit \in [stream : Schemas, pages : PageSets] /\ edit.pages \in PageSets
         /\ IsSchema(edit.stream)
         /\ Consistent(edit.stream, edit.pages, leaf)
         /\ Follows(edit.stream.columns, info.builtFor)
         /\ KeepsUp(edit.stream.columns, info.builtFor, info.counters, inserted)
         /\ pending \in Seq(Units)
         /\ \A n \in DOMAIN pending : /\ pending[n][1] = "lastID" => pending[n][2] >= Len(info.builtFor)
                                      /\ pending[n][1] = "schema" => n = 1
         /\ SchemaPending => Consistent(stream, pages, leaf)
         /\ ~SchemaPending => stream = edit.stream
         /\ \A p \in Pages : pages[p] = edit.pages[p] \/ PagePending(p)
         /\ Carried(before, RecordsOf(edit.stream, edit.pages))
<1>1. TypesHold /\ CountersHold /\ TornIsIdle /\ Altering
  BY DEF IInv
<1>2. edit.pages \in PageSets
  BY <1>1 DEF Altering
<1>3. QED
  BY <1>1, <1>2 DEF Altering, TornIsIdle, Units

LEMMA FlushNextHolds ==
  ASSUME IInv, FlushNext
  PROVE  IInv'
<1> DEFINE unit == Head(pending)
<1>1. /\ phase = "altering" /\ phase' = phase /\ pending # <<>>
      /\ stream' = IF unit[1] = "schema" THEN edit.stream ELSE stream
      /\ pages' = IF unit[1] = "page" THEN [pages EXCEPT ![unit[2]] = edit.pages[unit[2]]] ELSE pages
      /\ lastID' = IF unit[1] = "lastID" THEN unit[2] ELSE lastID
      /\ pending' = Tail(pending)
      /\ leaf' = leaf /\ info' = info /\ edit' = edit /\ before' = before /\ inserted' = inserted
      /\ changes' = changes /\ alters' = alters /\ torn' = torn
  BY DEF FlushNext
<1>2. /\ TypesHold /\ CountersHold /\ ~torn
      /\ edit \in [stream : Schemas, pages : PageSets] /\ edit.pages \in PageSets
      /\ IsSchema(edit.stream)
      /\ Consistent(edit.stream, edit.pages, leaf)
      /\ Follows(edit.stream.columns, info.builtFor)
      /\ KeepsUp(edit.stream.columns, info.builtFor, info.counters, inserted)
      /\ Carried(before, RecordsOf(edit.stream, edit.pages))
  BY <1>1, AlteringHolds
<1>3. /\ pending \in Seq(Units)
      /\ \A n \in DOMAIN pending : /\ pending[n][1] = "lastID" => pending[n][2] >= Len(info.builtFor)
                                   /\ pending[n][1] = "schema" => n = 1
      /\ ~SchemaPending => stream = edit.stream
      /\ \A p \in Pages : pages[p] = edit.pages[p] \/ PagePending(p)
  BY <1>1, AlteringHolds
<1>4. /\ unit = pending[1] /\ 1 \in DOMAIN pending /\ unit \in Units
      /\ pending' \in Seq(Units)
      /\ \A n \in DOMAIN pending' : n + 1 \in DOMAIN pending /\ pending'[n] = pending[n + 1] /\ n >= 1 /\ n \in Nat
      /\ \A n \in DOMAIN pending : n # 1 => n - 1 \in DOMAIN pending' /\ pending'[n - 1] = pending[n]
  BY ONLY <1>1, <1>3, TailLaws
<1> HIDE DEF unit
<1>5. pages \in PageSets /\ DOMAIN pages = Pages
  BY <1>2 DEF TypesHold, PageSets
<1>6. \A p \in Pages : pages'[p] = IF unit = <<"page", p>> THEN edit.pages[p] ELSE pages[p]
  <2>1. unit = <<unit[1], unit[2]>>
    BY <1>4 DEF Units
  <2>2. ASSUME NEW p \in Pages
        PROVE  pages'[p] = IF unit = <<"page", p>> THEN edit.pages[p] ELSE pages[p]
    <3>1. CASE unit[1] = "page"
      <4>1. pages' = [pages EXCEPT ![unit[2]] = edit.pages[unit[2]]]
        BY <1>1, <3>1
      <4>2. unit = <<"page", p>> <=> unit[2] = p
        BY <2>1, <3>1
      <4>3. QED
        BY <1>5, <4>1, <4>2
    <3>2. CASE unit[1] # "page"
      <4>1. unit # <<"page", p>>
        BY <3>2
      <4>2. QED
        BY <1>1, <3>2, <4>1
    <3>3. QED
      BY <3>1, <3>2
  <2>3. QED
    BY <2>2
<1>7. pages' \in PageSets
  <2>1. pages' = [p \in Pages |-> pages'[p]]
    <3>1. CASE unit[1] = "page"
      BY <1>1, <1>5, <3>1
    <3>2. CASE unit[1] # "page"
      BY <1>1, <1>5, <3>2 DEF PageSets
    <3>3. QED
      BY <3>1, <3>2
  <2>2. \A p \in Pages : pages'[p] \in [laidOutFor : Seq(Columns), records : [1 .. MaxSlots -> Seq(Values)]]
    BY <1>2, <1>5, <1>6 DEF PageSets
  <2>3. QED
    BY <2>1, <2>2 DEF PageSets
<1>8. stream' = edit.stream
  BY <1>1, <1>3, <1>4 DEF SchemaPending
<1>9. ~SchemaPending'
  <2>1. SUFFICES ASSUME SchemaPending' PROVE FALSE
    OBVIOUS
  <2>2. pending' # <<>> /\ pending'[1][1] = "schema"
    BY <2>1 DEF SchemaPending
  <2>3. 1 \in DOMAIN pending'
    BY <1>4, <2>2
  <2>4. 2 \in DOMAIN pending /\ pending[2][1] = "schema"
    BY <1>4, <2>2, <2>3
  <2>5. QED
    BY <1>3, <2>4
<1>10. \A n \in DOMAIN pending' : /\ pending'[n][1] = "lastID" => pending'[n][2] >= Len(info'.builtFor)
                                  /\ pending'[n][1] = "schema" => n = 1
  <2>1. ASSUME NEW n \in DOMAIN pending'
        PROVE  /\ pending'[n][1] = "lastID" => pending'[n][2] >= Len(info'.builtFor)
               /\ pending'[n][1] = "schema" => n = 1
    <3>1. n + 1 \in DOMAIN pending /\ pending'[n] = pending[n + 1] /\ n + 1 # 1
      BY <1>4
    <3>2. QED
      BY <1>1, <1>3, <3>1
  <2>2. QED
    BY <2>1
<1>11. \A p \in Pages : (pages[p] = edit.pages[p] \/ PagePending(p))'
  <2>1. ASSUME NEW p \in Pages PROVE pages'[p] = edit.pages[p] \/ PagePending(p)'
    <3>1. CASE pages[p] = edit.pages[p]
      BY <1>6, <3>1
    <3>2. CASE PagePending(p)
      <4>1. PICK n \in DOMAIN pending : pending[n] = <<"page", p>>
        BY <3>2 DEF PagePending
      <4>2. CASE n = 1
        BY <1>4, <1>6, <4>1, <4>2
      <4>3. CASE n # 1
        BY <1>4, <4>1, <4>3 DEF PagePending
      <4>4. QED
        BY <4>2, <4>3
    <3>3. QED
      BY <1>3, <3>1, <3>2
  <2>2. QED
    BY <1>1, <2>1
<1>12. Altering'
  <2>1. /\ edit' \in [stream : Schemas, pages : PageSets]
        /\ IsSchema(edit'.stream)
        /\ Consistent(edit.stream, edit.pages, leaf)'
        /\ Follows(edit'.stream.columns, info'.builtFor)
        /\ KeepsUp(edit'.stream.columns, info'.builtFor, info'.counters, inserted')
        /\ Carried(before, RecordsOf(edit.stream, edit.pages))'
        /\ stream' = edit'.stream
    BY <1>1, <1>2, <1>8
  <2>2. pending' \in Seq({"schema", "page", "lastID"} \X Nat)
    BY <1>4 DEF Units
  <2>3. QED
    BY <1>9, <1>10, <1>11, <2>1, <2>2 DEF Altering
<1>13. TypesHold'
  BY <1>1, <1>2, <1>7, <1>8 DEF TypesHold
<1>14. CountersHold'
  <2>1. lastID' \in Nat /\ lastID' >= Len(info.builtFor)
    <3>1. lastID \in Nat /\ lastID >= Len(info.builtFor)
      BY <1>2 DEF CountersHold
    <3>2. unit[1] = "lastID" => unit[2] \in Nat /\ unit[2] >= Len(info.builtFor)
      BY <1>3, <1>4 DEF Units
    <3>3. QED
      BY <1>1, <3>1, <3>2
  <2>2. QED
    BY <1>1, <1>2, <1>8, <2>1 DEF CountersHold
<1>15. AtRest' /\ TornIsIdle' /\ Writing'
  BY <1>1, <1>2 DEF AtRest, TornIsIdle, Writing
<1>16. QED
  BY <1>12, <1>13, <1>14, <1>15 DEF IInv

\* When nothing is pending every page is the alteration's.
LEMMA AlterationIsWritten ==
  ASSUME IInv, phase = "altering", \A p \in Pages : ~PagePending(p), ~SchemaPending
  PROVE  stream = edit.stream /\ pages = edit.pages
<1>1. stream = edit.stream /\ \A p \in Pages : pages[p] = edit.pages[p]
  BY AlteringHolds
<1>2. pages \in PageSets /\ edit.pages \in PageSets
  BY AlteringHolds DEF TypesHold
<1>3. pages = [p \in Pages |-> pages[p]] /\ edit.pages = [p \in Pages |-> edit.pages[p]]
  BY <1>2 DEF PageSets
<1>4. [p \in Pages |-> pages[p]] = [p \in Pages |-> edit.pages[p]]
  BY <1>1
<1>5. QED
  BY ONLY <1>1, <1>3, <1>4

LEMMA FinishAlterHolds ==
  ASSUME IInv, FinishAlter
  PROVE  IInv'
<1>1. /\ phase = "altering" /\ phase' = "idle" /\ pending = <<>>
      /\ stream' = stream /\ pages' = pages /\ leaf' = leaf /\ info' = info /\ lastID' = lastID
      /\ inserted' = inserted /\ changes' = changes /\ alters' = alters /\ torn' = torn
  BY DEF FinishAlter, Closed, disk
<1>2. TypesHold /\ CountersHold /\ ~torn /\ Consistent(edit.stream, edit.pages, leaf)
  BY <1>1, AlteringHolds
<1>3. stream = edit.stream /\ pages = edit.pages
  BY <1>1, AlterationIsWritten DEF PagePending, SchemaPending
<1>4. AtRest'
  BY <1>1, <1>2, <1>3 DEF AtRest
<1>5. QED
  BY <1>1, <1>2, <1>4 DEF IInv, TypesHold, CountersHold, TornIsIdle, Writing, Altering

\* Cut short before the schema is written nothing has happened; after the last page,
\* everything that matters.
LEMMA CutShortHolds ==
  ASSUME IInv, CutShort
  PROVE  IInv'
<1>1. /\ phase = "altering" /\ phase' = "idle" /\ pending # <<>>
      /\ torn' = (/\ pending[1][1] # "schema"
                  /\ \E n \in DOMAIN pending : pending[n][1] = "page")
      /\ stream' = stream /\ pages' = pages /\ leaf' = leaf /\ info' = info /\ lastID' = lastID
      /\ inserted' = inserted /\ changes' = changes /\ alters' = alters
  BY DEF CutShort, Closed, disk
<1>2. /\ TypesHold /\ CountersHold /\ Consistent(edit.stream, edit.pages, leaf)
      /\ SchemaPending => Consistent(stream, pages, leaf)
  BY <1>1, AlteringHolds
<1>3. torn' \in BOOLEAN
  BY <1>1
<1>4. AtRest'
  <2>1. SUFFICES ASSUME ~torn' PROVE Consistent(stream, pages, leaf)
    BY <1>1 DEF AtRest
  <2>2. CASE SchemaPending
    BY <1>2, <2>2
  <2>3. CASE ~SchemaPending
    <3>1. \A n \in DOMAIN pending : pending[n][1] # "page"
      BY <1>1, <2>1, <2>3 DEF SchemaPending
    <3>2. \A p \in Pages : ~PagePending(p)
      BY <3>1 DEF PagePending
    <3>3. stream = edit.stream /\ pages = edit.pages
      BY <1>1, <2>3, <3>2, AlterationIsWritten
    <3>4. QED
      BY <1>2, <3>3
  <2>4. QED
    BY <2>2, <2>3
<1>5. QED
  BY <1>1, <1>2, <1>3, <1>4 DEF IInv, TypesHold, CountersHold, TornIsIdle, Writing, Altering

-----------------------------------------------------------------------------
(* Compaction.                                                             *)

CopiesSubsets(seq, h) ==
  h = [s \in SUBSET DOMAIN seq |->
         IF s = {} THEN NewTable ELSE Copied(h[s \ {Max(s)}], seq[Max(s)])]

\* What the rows have become when all of them are copied.
CopyOf(seq) == FoldLeft(Copied, NewTable, seq)

CopiedInTurn(t, N, seq) ==
  /\ t[0] = NewTable
  /\ \A k \in 1 .. N : t[k] = Copied(t[k - 1], seq[k])
  /\ CopyOf(seq) = t[N]

\* The rows are copied one after the other, each into what the ones before it made.
LEMMA CopiesInTurn ==
  ASSUME NEW N \in Nat, NEW seq, DOMAIN seq = 1 .. N, NEW A, NewTable \in A,
         \A a \in A : \A n \in 1 .. N : Copied(a, seq[n]) \in A
  PROVE  \E t \in [0 .. N -> A] : CopiedInTurn(t, N, seq)
<1> DEFINE D == DOMAIN seq
           total == FoldLeft(Copied, NewTable, seq)
           h == CHOOSE h : CopiesSubsets(seq, h)
<1>1. total = h[D]
  BY DEF FoldLeft, MapThenFoldSet, CopiesSubsets
<1>2. D = 1 .. N /\ IsFiniteSet(D)
  BY FS_Interval
<1> DEFINE G == [x \in D \X A |-> Copied(x[2], seq[x[1]])]
           ch == [s \in SUBSET D |-> Max(s)]
<1>3. G \in [D \X A -> A]
  BY <1>2
<1>4. \A s \in SUBSET D : s # {} => Max(s) \in s
  <2>1. ASSUME NEW s \in SUBSET D, s # {} PROVE Max(s) \in s
    <3>1. s \subseteq Int /\ N \in Int /\ \A x \in s : x <= N
      BY <1>2
    <3>2. QED
      BY ONLY <2>1, <3>1, MaxOfBounded
  <2>2. QED
    BY <2>1
<1>5. \E g : CopiesSubsets(seq, g)
  <2>1. PICK g \in [SUBSET D -> A] : FoldsSubsets(G, NewTable, ch, D, g)
    <3> HIDE DEF G, D
    <3>1. \E g \in [SUBSET (1 .. N) -> A] :
            FoldsSubsets(G, NewTable, [s \in SUBSET (1 .. N) |-> Max(s)], 1 .. N, g)
      <4>1. G \in [(1 .. N) \X A -> A] /\ N \in Nat /\ NewTable \in A
        BY <1>2, <1>3
      <4>2. QED
        BY ONLY <4>1, FoldsFromLast
    <3>2. QED
      BY <1>2, <3>1
  <2>2. ASSUME NEW s \in SUBSET D
        PROVE  g[s] = IF s = {} THEN NewTable ELSE Copied(g[s \ {Max(s)}], seq[Max(s)])
    <3>1. CASE s = {}
      BY <2>1, <3>1 DEF FoldsSubsets
    <3>2. CASE s # {}
      <4>1. g[s] = G[<<ch[s], g[s \ {ch[s]}]>>]
        BY <2>1, <3>2 DEF FoldsSubsets
      <4>2. ch[s] = Max(s) /\ Max(s) \in D /\ g[s \ {Max(s)}] \in A
        BY <1>4, <2>1, <3>2
      <4>3. QED
        BY <3>2, <4>1, <4>2
    <3>3. QED
      BY <3>1, <3>2
  <2>3. g = [s \in SUBSET D |-> g[s]]
    BY <2>1
  <2>4. QED
    BY <2>2, <2>3 DEF CopiesSubsets
<1>6. CopiesSubsets(seq, h)
  BY <1>5
<1> HIDE DEF h
<1>7. \A s \in SUBSET D : h[s] = IF s = {} THEN NewTable ELSE Copied(h[s \ {Max(s)}], seq[Max(s)])
  BY <1>6 DEF CopiesSubsets
<1> HIDE DEF D, G, ch, total
<1> DEFINE t == [k \in 0 .. N |-> h[1 .. k]]
<1>8. t[0] = NewTable
  <2>1. 1 .. 0 = {} /\ {} \in SUBSET D /\ 0 \in 0 .. N
    OBVIOUS
  <2>2. h[{}] = NewTable
    BY <1>7, <2>1, Zenon
  <2>3. QED
    BY <2>1, <2>2
<1>9. ASSUME NEW k \in 1 .. N PROVE t[k] = Copied(t[k - 1], seq[k])
  <2>1. k \in 0 .. N /\ k - 1 \in 0 .. N /\ 1 .. k \in SUBSET D /\ 1 .. k # {} /\ k \in 1 .. k
    <3>1. k \in 0 .. N /\ k - 1 \in 0 .. N /\ k \in 1 .. k /\ 1 .. k \subseteq 1 .. N
      OBVIOUS
    <3>2. QED
      BY <1>2, <3>1
  <2>2. Max(1 .. k) = k
    <3>1. 1 .. k \subseteq Int /\ k \in Int /\ \A x \in 1 .. k : x <= k
      OBVIOUS
    <3>2. Max(1 .. k) \in 1 .. k /\ \A y \in 1 .. k : y <= Max(1 .. k)
      BY ONLY <2>1, <3>1, MaxOfBounded
    <3>3. QED
      BY <2>1, <3>2
  <2>3. (1 .. k) \ {k} = 1 .. (k - 1)
    OBVIOUS
  <2>4. h[1 .. k] = Copied(h[(1 .. k) \ {Max(1 .. k)}], seq[Max(1 .. k)])
    BY <1>7, <2>1, Zenon
  <2>5. t[k] = h[1 .. k] /\ t[k - 1] = h[1 .. (k - 1)]
    BY <2>1
  <2>6. QED
    BY <2>2, <2>3, <2>4, <2>5
<1>10. t[N] = CopyOf(seq)
  BY <1>1, <1>2 DEF total, CopyOf
<1>11. t = [k \in 0 .. N |-> t[k]]
  OBVIOUS
<1> HIDE DEF t
<1>12. \A k \in 0 .. N : t[k] \in A
  <2> DEFINE Good == {k \in Nat : k \in 0 .. N => t[k] \in A}
  <2>1. 0 \in Good
    BY <1>8
  <2>2. ASSUME NEW k \in Nat, k \in Good PROVE k + 1 \in Good
    <3>1. ASSUME k + 1 \in 0 .. N PROVE t[k + 1] \in A
      <4>1. k + 1 \in 1 .. N /\ (k + 1) - 1 = k /\ k \in 0 .. N
        BY <3>1
      <4>2. t[k + 1] = Copied(t[k], seq[k + 1])
        BY <1>9, <4>1
      <4>3. QED
        BY <2>2, <4>1, <4>2
    <3>2. QED
      BY <3>1
  <2> HIDE DEF Good
  <2>3. \A k \in Nat : k \in Good
    BY <2>1, <2>2, NumbersByInduction
  <2>4. QED
    BY <2>3 DEF Good
<1>13. t \in [0 .. N -> A]
  BY <1>11, <1>12
<1>14. CopiedInTurn(t, N, seq)
  BY <1>8, <1>9, <1>10 DEF CopiedInTurn
<1>15. QED
  BY <1>13, <1>14

\* What a copy has: if every row was accepted so far, rows the schema accepts, and
\* counters that are not behind them.
CopyIsGood(acc) ==
  /\ \A k \in DOMAIN acc.records : /\ acc.records[k] \in Seq(Values)
                                   /\ GoodRecord(stream, acc.records[k])
  /\ acc.counters \in [DOMAIN stream.columns -> 0 .. MaxInt]
  /\ acc.inserted \in InsertedMaps
  /\ KeepsUp(Renumbered(stream.columns), Renumbered(stream.columns), acc.counters, acc.inserted)
CopyTypes ==
  [records : Seq(Seq(Int)), leaf : SUBSET [key : Int, page : Pages, slot : Nat],
   counters : [DOMAIN stream.columns -> Int], inserted : Maps(Int), accepted : BOOLEAN]

\* The entries of the first records, where they come to lie.
PlacesUpTo(n) == {x \in Pages \X Slots(stream.columns) : PlaceNumber(stream.columns, x) <= n}
CopiedEntries(records) ==
  IF stream.key = "" THEN {}
  ELSE {[key |-> KeyOf(records[PlaceNumber(stream.columns, x)]), page |-> x[1], slot |-> x[2]] :
           x \in PlacesUpTo(Len(records))}

Copies ==
  {acc \in CopyTypes : /\ acc.accepted => CopyIsGood(acc)
                       /\ acc.leaf = CopiedEntries(acc.records)}

LEMMA RenumberedLaws ==
  ASSUME NEW cols \in Seq(Columns)
  PROVE  LET new == Renumbered(cols)
         IN  /\ new \in Seq(Columns) /\ Len(new) = Len(cols)
             /\ DOMAIN new = 1 .. Len(cols) /\ Len(cols) \in Nat
             /\ \A i \in 1 .. Len(cols) : /\ new[i].id = i
                                          /\ new[i].name = cols[i].name /\ new[i].kind = cols[i].kind
             /\ Positions(new, "autoinc") = Positions(cols, "autoinc")
<1> DEFINE new == Renumbered(cols)
           n == Len(cols)
<1>1. n \in Nat /\ DOMAIN cols = 1 .. n /\ \A i \in 1 .. n : cols[i] \in Columns
  OBVIOUS
<1>2. new = [i \in 1 .. n |-> [cols[i] EXCEPT !.id = i]]
  BY <1>1 DEF Renumbered
<1> HIDE DEF n, new
<1>3. ASSUME NEW i \in 1 .. n
      PROVE  /\ new[i] \in Columns /\ new[i].id = i
             /\ new[i].name = cols[i].name /\ new[i].kind = cols[i].kind
  <2>1. new[i] = [cols[i] EXCEPT !.id = i] /\ cols[i] \in Columns /\ i \in Nat
    BY <1>1, <1>2
  <2>2. QED
    BY ONLY <2>1 DEF Columns
<1>4. new \in [1 .. n -> Columns]
  BY <1>2, <1>3
<1>5. new \in Seq(Columns) /\ Len(new) = n /\ DOMAIN new = 1 .. n
  BY ONLY <1>1, <1>4, FunctionsAreSequences
<1>6. Positions(new, "autoinc") = Positions(cols, "autoinc")
  BY <1>1, <1>3, <1>5 DEF Positions
<1>7. QED
  BY <1>1, <1>3, <1>5, <1>6 DEF n, new

\* Places are numbered from 1.
LEMMA PlacesAreNumbered ==
  ASSUME TypesHold
  PROVE  /\ Slots(stream.columns) \subseteq 1 .. MaxSlots /\ MaxSlots \in Nat
         /\ \A x \in Pages \X Slots(stream.columns) :
              /\ PlaceNumber(stream.columns, x) \in Nat /\ PlaceNumber(stream.columns, x) >= 1
              /\ x[1] \in Pages /\ x[2] \in Nat
<1> DEFINE cols == stream.columns
           per == RecordsPerPage(cols)
<1>1. IsSchema(stream)
  BY DEF TypesHold
<1>2. cols \in Seq(Columns) /\ Len(cols) \in Nat \ {0}
  BY ONLY <1>1, ColumnsOfSchemas
<1> HIDE DEF cols
<1>3. per \in Nat /\ MaxSlots \in Nat /\ Slots(cols) \subseteq 1 .. MaxSlots /\ Slots(cols) = 1 .. per
  <2>1. Len(cols) > 0
    BY <1>2
  <2>2. QED
    BY ONLY <1>2, <2>1, SlotsAreAddressed DEF Slots
<1>4. \A p \in Pages : Ahead(cols, p) \in Nat
  <2>1. ASSUME NEW p \in Pages PROVE Cardinality({q \in Pages : q < p}) \in Nat
    <3>1. IsFiniteSet({q \in Pages : q < p})
      BY FS_Subset
    <3>2. QED
      BY <3>1, FS_CardinalityType
  <2> HIDE DEF per
  <2>2. \A a, b \in Nat : a * b \in Nat
    OBVIOUS
  <2>3. QED
    BY <1>3, <2>1, <2>2 DEF Ahead, per
<1> HIDE DEF per
<1>5. ASSUME NEW x \in Pages \X Slots(cols)
      PROVE  /\ PlaceNumber(cols, x) \in Nat /\ PlaceNumber(cols, x) >= 1
             /\ x[1] \in Pages /\ x[2] \in Nat
  <2>1. x[1] \in Pages /\ x[2] \in Nat /\ x[2] >= 1
    BY <1>3
  <2>2. Ahead(cols, x[1]) \in Nat /\ PlaceNumber(cols, x) = Ahead(cols, x[1]) + x[2]
    BY <1>4, <2>1 DEF PlaceNumber
  <2> HIDE DEF PlaceNumber
  <2>3. QED
    BY ONLY <2>1, <2>2
<1>6. QED
  BY <1>3, <1>5 DEF cols

\* An insert puts one entry into the leaf, for the place its record gets.
LEMMA EntriesGrow ==
  ASSUME TypesHold, NEW records \in Seq(Seq(Int)), NEW rec \in Seq(Int)
  PROVE  CopiedEntries(Append(records, rec))
           = CopiedEntries(records) \cup EntriesAt(FreePlaces(stream.columns, Len(records) + 1), rec)
<1> DEFINE cols == stream.columns
           L == Len(records)
           new == Append(records, rec)
           Places0 == Pages \X Slots(cols)
<1>1. /\ L \in Nat /\ Len(new) = L + 1 /\ new[L + 1] = rec
      /\ \A k \in 1 .. L : new[k] = records[k]
  OBVIOUS
<1>2. \A x \in Places0 : PlaceNumber(cols, x) \in Nat /\ PlaceNumber(cols, x) >= 1
  BY PlacesAreNumbered
<1>3. CASE stream.key = ""
  BY <1>3 DEF CopiedEntries, EntriesAt
<1>4. CASE stream.key # ""
  <2> DEFINE e(s, x) == [key |-> KeyOf(s[PlaceNumber(cols, x)]), page |-> x[1], slot |-> x[2]]
             old == {x \in Places0 : PlaceNumber(cols, x) <= L}
             added == {x \in Places0 : PlaceNumber(cols, x) = L + 1}
             all == {x \in Places0 : PlaceNumber(cols, x) <= L + 1}
  <2>1. /\ CopiedEntries(records) = {e(records, x) : x \in old}
        /\ CopiedEntries(new) = {e(new, x) : x \in all}
    BY <1>1, <1>4 DEF CopiedEntries, PlacesUpTo
  <2>2. EntriesAt(FreePlaces(cols, L + 1), rec) = {e(new, x) : x \in added}
    <3>1. EntriesAt(FreePlaces(cols, L + 1), rec)
            = {[key |-> KeyOf(rec), page |-> x[1], slot |-> x[2]] : x \in added}
      BY <1>4 DEF EntriesAt, FreePlaces
    <3>2. \A x \in added : e(new, x) = [key |-> KeyOf(rec), page |-> x[1], slot |-> x[2]]
      BY <1>1
    <3> HIDE DEF e, added
    <3>3. QED
      BY <3>1, <3>2
  <2>3. all = old \cup added
    <3> HIDE DEF Places0, L
    <3> QED BY <1>1, <1>2
  <2>4. \A x \in old : e(new, x) = e(records, x)
    <3>1. \A x \in old : PlaceNumber(cols, x) \in 1 .. L
      BY <1>1, <1>2
    <3>2. QED
      BY <1>1, <3>1
  <2> HIDE DEF e, old, added, all, new, L
  <2>5. {e(new, x) : x \in all} = {e(records, x) : x \in old} \cup {e(new, x) : x \in added}
    BY ONLY <2>3, <2>4
  <2>6. QED
    BY <2>1, <2>2, <2>5 DEF new, L
<1>5. QED
  BY <1>3, <1>4

LEMMA NewTableIsCopy ==
  ASSUME TypesHold
  PROVE  NewTable \in Copies
<1>1. NewTable = [records |-> <<>>, leaf |-> {}, counters |-> [i \in DOMAIN stream.columns |-> 0],
                  inserted |-> [i \in {} |-> 0], accepted |-> TRUE]
  BY DEF NewTable
<1>2. [i \in {} |-> 0] \in Maps(Int) /\ [i \in {} |-> 0] \in InsertedMaps
  <2>1. [i \in {} |-> 0] \in [{} -> Int] /\ [i \in {} |-> 0] \in [{} -> 0 .. MaxInt]
    OBVIOUS
  <2>2. {} \in SUBSET Nat
    OBVIOUS
  <2>3. QED
    BY <2>1, <2>2 DEF Maps, InsertedMaps
<1>3. NewTable \in CopyTypes
  BY <1>1, <1>2 DEF CopyTypes
<1>4. CopyIsGood(NewTable)
  <2>1. NewTable.records = <<>> /\ NewTable.counters = [i \in DOMAIN stream.columns |-> 0]
        /\ NewTable.inserted = [i \in {} |-> 0]
    BY <1>1
  <2>2. KeepsUp(Renumbered(stream.columns), Renumbered(stream.columns),
                NewTable.counters, NewTable.inserted)
    BY <2>1 DEF KeepsUp
  <2>3. NewTable.counters \in [DOMAIN stream.columns -> 0 .. MaxInt]
    BY <2>1
  <2>4. QED
    BY <1>2, <2>1, <2>2, <2>3 DEF CopyIsGood
<1>5. CopiedEntries(<<>>) = {}
  <2>1. PlacesUpTo(0) = {}
    <3>1. \A x \in Pages \X Slots(stream.columns) :
            PlaceNumber(stream.columns, x) \in Nat /\ PlaceNumber(stream.columns, x) >= 1
      BY PlacesAreNumbered
    <3>2. \A x \in PlacesUpTo(0) : FALSE
      BY <3>1 DEF PlacesUpTo
    <3>3. QED
      BY <3>2
  <2>2. Len(<<>>) = 0
    OBVIOUS
  <2>3. QED
    BY <2>1, <2>2 DEF CopiedEntries
<1>6. NewTable.leaf = CopiedEntries(NewTable.records)
  BY <1>1, <1>5
<1>7. QED
  BY <1>3, <1>4, <1>6 DEF Copies

\* An insert of the copying makes of a good copy a good one.
LEMMA CopiedIsCopy ==
  ASSUME TypesHold, NEW acc \in Copies, NEW values \in Seq(Values),
         Len(values) = Len(stream.columns)
  PROVE  Copied(acc, values) \in Copies
<1> DEFINE cols == stream.columns
           new == Renumbered(cols)
           n == Len(cols)
           rec == Assigned(acc.counters, values)
           counters == CountersAfter(acc.counters, values, rec)
           ins == InsertedAfter(acc.inserted, new, rec)
           places == FreePlaces(cols, Len(acc.records) + 1)
           accepted == /\ acc.accepted
                       /\ \A i \in Unnumbered(values) : MayAssign(acc.counters, i)
                       /\ ConstraintsResolve /\ ChecksPass(rec)
                       /\ stream.key # "" => KeyIsFree(acc.leaf, KeyOf(rec))
                       /\ places # {}
           records == Append(acc.records, rec)
           entries == acc.leaf \cup EntriesAt(places, rec)
           to == [records |-> records, leaf |-> entries, counters |-> counters, inserted |-> ins,
                  accepted |-> accepted]
<1>1. Copied(acc, values) = to
  BY DEF Copied
<1>2. IsSchema(stream)
  BY DEF TypesHold
<1>3. /\ cols \in Seq(Columns) /\ n \in Nat \ {0} /\ DOMAIN cols = 1 .. n
  BY ONLY <1>2, ColumnsOfSchemas
<1>4. /\ IsFiniteSet(AutoColumns) /\ AutoColumns \subseteq 1 .. n
      /\ \A i \in AutoColumns : cols[i].increment \in Nat
      /\ AutoColumns = Positions(cols, "autoinc")
  BY AutoColumnsLaws DEF AutoColumns
<1>5. /\ \A i \in 1 .. n : new[i].id = i
      /\ Positions(new, "autoinc") = Positions(cols, "autoinc")
  BY <1>3, RenumberedLaws
<1>6. /\ acc.records \in Seq(Seq(Int)) /\ acc.counters \in [1 .. n -> Int]
      /\ acc.inserted \in Maps(Int) /\ acc.accepted \in BOOLEAN
      /\ acc.accepted => CopyIsGood(acc)
      /\ acc.leaf \subseteq [key : Int, page : Pages, slot : Nat]
      /\ acc.leaf = CopiedEntries(acc.records)
  BY <1>3 DEF Copies, CopyTypes
<1>7. values \in [1 .. n -> Values] /\ Values \subseteq Int
  BY DEF Values, Null
<1> HIDE DEF cols, n, new
<1>8. \A i \in AutoColumns : /\ NextValue(acc.counters, i) = acc.counters[i] + cols[i].increment
                             /\ acc.counters[i] \in Int /\ cols[i].increment \in Nat
  BY <1>4, <1>6 DEF NextValue, cols
<1>9. rec = [i \in 1 .. n |-> IF i \in Unnumbered(values) THEN NextValue(acc.counters, i) ELSE values[i]]
  BY <1>7 DEF Assigned
<1>10. Unnumbered(values) \subseteq AutoColumns
  BY DEF Unnumbered
<1> HIDE DEF rec
<1>11. rec \in [1 .. n -> Int] /\ rec \in Seq(Int) /\ Len(rec) = n
  <2>1. rec \in [1 .. n -> Int]
    <3>1. \A i \in Unnumbered(values) : NextValue(acc.counters, i) \in Int
      BY ONLY <1>8, <1>10
    <3>2. QED
      BY ONLY <1>7, <1>9, <3>1
  <2>2. n \in Nat
    BY <1>3
  <2>3. QED
    BY ONLY <2>1, <2>2, FunctionsAreSequences
<1>12. counters \in [1 .. n -> Int]
  BY <1>6, <1>11 DEF CountersAfter
<1>13. ins \in Maps(Int)
  <2>1. \A i \in AutoColumns : new[i].id \in Nat /\ (rec[i] # Null => rec[i] \in Int)
    BY <1>4, <1>5, <1>11
  <2>2. QED
    BY ONLY <1>4, <1>6, <2>1, InsertedAfterLaws
<1>14. /\ records \in Seq(Seq(Int)) /\ DOMAIN records = 1 .. Len(acc.records) + 1
       /\ \A k \in 1 .. Len(acc.records) : records[k] = acc.records[k]
       /\ records[Len(acc.records) + 1] = rec
       /\ Len(acc.records) \in Nat /\ DOMAIN acc.records = 1 .. Len(acc.records)
  <2>1. acc.records \in Seq(Seq(Int)) /\ rec \in Seq(Int)
    BY <1>6, <1>11
  <2>2. Len(acc.records) \in Nat /\ DOMAIN acc.records = 1 .. Len(acc.records)
    BY <2>1
  <2>3. QED
    BY ONLY <2>1, <2>2, AppendLaws
<1>15. accepted \in BOOLEAN
  OBVIOUS
<1>20. entries \subseteq [key : Int, page : Pages, slot : Nat] /\ entries = CopiedEntries(records)
  <2>1. acc.records \in Seq(Seq(Int)) /\ rec \in Seq(Int)
    BY <1>6, <1>11
  <2>2. CopiedEntries(Append(acc.records, rec)) = CopiedEntries(acc.records) \cup EntriesAt(places, rec)
    BY <2>1, EntriesGrow DEF cols
  <2>3. EntriesAt(places, rec) \subseteq [key : Int, page : Pages, slot : Nat]
    <3>1. CASE stream.key = ""
      BY <3>1 DEF EntriesAt
    <3>2. CASE stream.key # ""
      <4>1. KeyOf(rec) \in Int
        <5>1. ColumnAt(stream.columns, stream.key) \in 1 .. n
          BY <1>2, <3>2, ColumnsOfSchemas DEF n, cols
        <5>2. QED
          BY <1>11, <5>1 DEF KeyOf
      <4>2. \A x \in places : x[1] \in Pages /\ x[2] \in Nat
        BY PlacesAreNumbered DEF FreePlaces, cols
      <4> HIDE DEF places
      <4>3. EntriesAt(places, rec) = {[key |-> KeyOf(rec), page |-> x[1], slot |-> x[2]] : x \in places}
        BY ONLY <3>2 DEF EntriesAt
      <4> DEFINE key == KeyOf(rec)
      <4> HIDE DEF key
      <4>4. \A x \in places : [key |-> key, page |-> x[1], slot |-> x[2]] \in [key : Int, page : Pages, slot : Nat]
        <5>1. key \in Int
          BY ONLY <4>1 DEF key
        <5>2. QED
          BY ONLY <4>2, <5>1
      <4>5. EntriesAt(places, rec) = {[key |-> key, page |-> x[1], slot |-> x[2]] : x \in places}
        BY ONLY <4>3 DEF key
      <4>6. QED
        BY ONLY <4>4, <4>5
    <3>3. QED
      BY <3>1, <3>2
  <2>4. QED
    BY <1>6, <2>2, <2>3
<1> HIDE DEF counters, ins, records, entries
<1>16. to \in CopyTypes
  <2> HIDE DEF accepted
  <2>1. QED
    BY <1>3, <1>12, <1>13, <1>14, <1>15, <1>20 DEF CopyTypes, cols
<1>17. ASSUME accepted PROVE CopyIsGood(to)
  <2>1. /\ CopyIsGood(acc) /\ ConstraintsResolve /\ ChecksPass(rec)
        /\ \A i \in Unnumbered(values) : MayAssign(acc.counters, i)
    BY <1>6, <1>17
  <2>2. /\ acc.counters \in [1 .. n -> 0 .. MaxInt] /\ acc.inserted \in InsertedMaps
        /\ KeepsUp(new, new, acc.counters, acc.inserted)
        /\ \A k \in DOMAIN acc.records : /\ acc.records[k] \in Seq(Values)
                                         /\ GoodRecord(stream, acc.records[k])
    BY <1>3, <2>1 DEF CopyIsGood, cols, new
  <2>3. rec \in Seq(Values)
    <3>1. ASSUME NEW i \in Unnumbered(values) PROVE NextValue(acc.counters, i) \in Values
      <4>1. MayAssign(acc.counters, i) /\ i \in AutoColumns
        BY <1>10, <2>1
      <4>2. NextValue(acc.counters, i) \in Nat
        <5>1. acc.counters[i] \in 0 .. MaxInt
          BY <1>4, <2>2, <4>1
        <5>2. NextValue(acc.counters, i) = acc.counters[i] + cols[i].increment /\ cols[i].increment \in Nat
          BY <1>8, <4>1
        <5>3. QED
          BY ONLY <5>1, <5>2
      <4>3. QED
        BY <4>1, <4>2 DEF MayAssign, Values
    <3>2. rec \in [1 .. n -> Values]
      BY <1>7, <1>9, <3>1
    <3>3. n \in Nat
      BY <1>3
    <3>4. QED
      BY ONLY <3>2, <3>3, FunctionsAreSequences
  <2>4. GoodRecord(stream, rec)
    BY <1>11, <2>1, ChecksAreTheSchemas DEF GoodRecord, n, cols
  <2>5. \A k \in DOMAIN records : records[k] \in Seq(Values) /\ GoodRecord(stream, records[k])
    <3> DEFINE L == Len(acc.records)
    <3>1. L \in Nat /\ DOMAIN records = 1 .. L + 1 /\ DOMAIN acc.records = 1 .. L
      BY <1>14
    <3> HIDE DEF L
    <3>2. \A k \in 1 .. L + 1 : k \in 1 .. L \/ k = L + 1
      BY ONLY <3>1
    <3>3. \A k \in 1 .. L : records[k] = acc.records[k]
      BY <1>14 DEF L
    <3>4. records[L + 1] = rec
      BY <1>14 DEF L
    <3>5. QED
      BY ONLY <2>2, <2>3, <2>4, <3>1, <3>2, <3>3, <3>4
  <2>6. \A i \in 1 .. n : rec[i] \in Values
    BY <1>11, <2>3
  <2>7. counters \in [1 .. n -> 0 .. MaxInt]
    <3>1. \A i \in Raised(acc.counters, values, rec) : rec[i] \in 0 .. MaxInt
      BY <1>4, <2>6 DEF Raised, Values, Null
    <3>2. QED
      BY <2>2, <3>1 DEF counters, CountersAfter
  <2>8. ins \in InsertedMaps
    <3>1. \A i \in AutoColumns : new[i].id \in Nat /\ (rec[i] # Null => rec[i] \in 0 .. MaxInt)
      BY <1>4, <1>5, <2>6 DEF Values, Null
    <3>2. QED
      BY <1>4, <2>2, <3>1, InsertedAfterLaws DEF ins, InsertedMaps
  <2>9. KeepsUp(new, new, counters, ins)
    <3>1. Positions(new, "autoinc") = AutoColumns /\ AutoColumns \subseteq DOMAIN acc.counters
      BY <1>4, <1>5, <1>6
    <3>2. \A i \in AutoColumns : new[i].id \in Nat /\ rec[i] \in Int /\ acc.counters[i] \in Int
      BY <1>4, <1>5, <1>6, <1>11
    <3>3. \A i, k \in AutoColumns :
            i \in DOMAIN new /\ new[i].id = new[i].id /\ new[k].id = new[i].id => k = i
      BY <1>4, <1>5
    <3>4. acc.inserted \in Maps(Int) /\ IsFiniteSet(AutoColumns) /\ KeepsUp(new, new, acc.counters, acc.inserted)
      BY <1>4, <1>6, <2>2
    <3>5. KeepsUp(new, new, CountersAfter(acc.counters, values, rec), InsertedAfter(acc.inserted, new, rec))
      BY ONLY <3>1, <3>2, <3>3, <3>4, CountersFollow
    <3>6. QED
      BY <3>5 DEF counters, ins
  <2>10. to.records = records /\ to.counters = counters /\ to.inserted = ins
    OBVIOUS
  <2> HIDE DEF to
  <2>11. QED
    BY <1>3, <2>5, <2>7, <2>8, <2>9, <2>10 DEF CopyIsGood, cols, new
<1>18. to.accepted = accepted /\ to.leaf = CopiedEntries(to.records)
  BY <1>20
<1> HIDE DEF to, accepted
<1>19. QED
  BY <1>1, <1>16, <1>17, <1>18 DEF Copies

\* The copies are the rows, in their order, but for the numbers they are given.
LEMMA CopiedRows ==
  ASSUME TypesHold, NEW N \in Nat, NEW seq, DOMAIN seq = 1 .. N,
         \A n \in 1 .. N : seq[n] \in Seq(Values) /\ Len(seq[n]) = Len(stream.columns)
  PROVE  LET copy == CopyOf(seq)
         IN  /\ copy \in Copies
             /\ Len(copy.records) = N
             /\ \A n \in 1 .. N : \A i \in DOMAIN seq[n] :
                  i \in Unnumbered(seq[n]) \/ copy.records[n][i] = seq[n][i]
<1>1. NewTable \in Copies
  BY NewTableIsCopy
<1>2. \A a \in Copies : \A n \in 1 .. N : Copied(a, seq[n]) \in Copies
  BY CopiedIsCopy
<1>3. PICK t \in [0 .. N -> Copies] : CopiedInTurn(t, N, seq)
  <2>1. N \in Nat /\ DOMAIN seq = 1 .. N
    OBVIOUS
  <2>2. QED
    BY ONLY <1>1, <1>2, <2>1, CopiesInTurn
<1>3a. /\ t[0] = NewTable
       /\ \A k \in 1 .. N : t[k] = Copied(t[k - 1], seq[k])
       /\ CopyOf(seq) = t[N]
  BY <1>3 DEF CopiedInTurn
<1>4. \A k \in 0 .. N : t[k] \in Copies /\ t[k].records \in Seq(Seq(Int))
  BY <1>3 DEF Copies, CopyTypes
<1>5. t[0].records = <<>>
  BY <1>3a DEF NewTable
<1> DEFINE rec(k) == Assigned(t[k - 1].counters, seq[k])
           Same(k, r) == \A i \in DOMAIN seq[k] : i \in Unnumbered(seq[k]) \/ r[i] = seq[k][i]
<1>6. \A k \in 1 .. N : t[k].records = Append(t[k - 1].records, rec(k)) /\ Same(k, rec(k))
  <2>1. ASSUME NEW acc, NEW values
        PROVE  Copied(acc, values).records = Append(acc.records, Assigned(acc.counters, values))
    BY DEF Copied
  <2>4. \A k \in 1 .. N : t[k].records = Append(t[k - 1].records, rec(k))
    BY <1>3a, <2>1
  <2>2. \A k \in 1 .. N : Same(k, rec(k))
    BY DEF Assigned
  <2>3. QED
    BY <2>2, <2>4
<1>7. \A k \in 1 .. N : rec(k) \in Seq(Int)
  <2>1. ASSUME NEW k \in 1 .. N PROVE rec(k) \in Seq(Int)
    <3> DEFINE n == Len(stream.columns)
               counters == t[k - 1].counters
    <3>1. k - 1 \in 0 .. N /\ t[k - 1] \in Copies
      BY <1>3
    <3>2. counters \in [DOMAIN stream.columns -> Int]
      BY <3>1 DEF Copies, CopyTypes
    <3>3. IsSchema(stream)
      BY DEF TypesHold
    <3>4. stream.columns \in Seq(Columns) /\ DOMAIN stream.columns = 1 .. n /\ n \in Nat
      BY ONLY <3>3, ColumnsOfSchemas
    <3>5. seq[k] \in [1 .. n -> Values] /\ Values \subseteq Int
      BY DEF Values, Null
    <3>6. \A i \in AutoColumns : i \in 1 .. n /\ stream.columns[i].increment \in Nat
      BY <3>4, AutoColumnsLaws
    <3> HIDE DEF n, counters
    <3>7. \A i \in Unnumbered(seq[k]) : NextValue(counters, i) \in Int
      BY <3>2, <3>4, <3>6 DEF NextValue, Unnumbered
    <3>8. Assigned(counters, seq[k]) \in [1 .. n -> Int]
      BY ONLY <3>5, <3>7 DEF Assigned
    <3>9. Assigned(counters, seq[k]) \in Seq(Int)
      BY ONLY <3>4, <3>8, FunctionsAreSequences
    <3>10. QED
      BY <3>9 DEF counters
  <2>2. QED
    BY <2>1
<1> HIDE DEF rec, Same
<1> DEFINE Good == {k \in Nat : k \in 0 .. N => /\ Len(t[k].records) = k
                                                /\ \A n \in 1 .. k : Same(n, t[k].records[n])}
<1>8. 0 \in Good
  BY <1>5
<1>9. ASSUME NEW k \in Nat, k \in Good PROVE k + 1 \in Good
  <2>1. ASSUME k + 1 \in 0 .. N
        PROVE  /\ Len(t[k + 1].records) = k + 1
               /\ \A n \in 1 .. k + 1 : Same(n, t[k + 1].records[n])
    <3> DEFINE old == t[k].records
               new == t[k + 1].records
               r == rec(k + 1)
    <3>1. k + 1 \in 1 .. N /\ (k + 1) - 1 = k /\ k \in 0 .. N
      BY <2>1
    <3>2. new = Append(old, r) /\ Same(k + 1, r) /\ old \in Seq(Seq(Int)) /\ r \in Seq(Int)
      BY <1>4, <1>6, <1>7, <3>1
    <3>3. Len(old) = k /\ \A n \in 1 .. k : Same(n, old[n])
      BY <1>9, <3>1
    <3> HIDE DEF old, new, r
    <3>4. /\ Len(Append(old, r)) = Len(old) + 1
          /\ \A n \in 1 .. Len(old) : Append(old, r)[n] = old[n]
          /\ Append(old, r)[Len(old) + 1] = r
      <4>1. old \in Seq(Seq(Int)) /\ r \in Seq(Int)
        BY <3>2
      <4>2. QED
        BY ONLY <4>1, AppendLaws
    <3>5. \A n \in 1 .. k + 1 : n \in 1 .. k \/ n = k + 1
      OBVIOUS
    <3>6. \A n \in 1 .. k + 1 : Same(n, new[n])
      BY ONLY <3>2, <3>3, <3>4, <3>5
    <3>7. Len(new) = k + 1
      BY ONLY <3>2, <3>3, <3>4
    <3>8. QED
      BY <3>6, <3>7 DEF new
  <2>2. QED
    BY <2>1
<1>10. N \in Good
  <2> HIDE DEF Good
  <2> QED BY <1>8, <1>9, NumbersByInduction
<1>11. Len(t[N].records) = N /\ \A n \in 1 .. N : Same(n, t[N].records[n])
  BY <1>10
<1>12. QED
  BY <1>4, <1>11, <1>3a DEF Same

\* What is read off pages, in a reader's order.
LEMMA ReadInOrder ==
  ASSUME NEW pgs, MaxSlots \in Nat
  PROVE  LET P == Places(pgs)
             M == Cardinality(P)
         IN  /\ P \subseteq Pages \X (1 .. MaxSlots)
             /\ M \in Nat
             /\ \E s \in [1 .. M -> P] :
                  /\ \A x \in P : \E n \in 1 .. M : s[n] = x
                  /\ \A i, j \in 1 .. M : i < j =>
                       s[i][1] < s[j][1] \/ (s[i][1] = s[j][1] /\ s[i][2] < s[j][2])
                  /\ InRecordOrder(pgs) = [n \in 1 .. M |-> RecordAt(pgs, s[n])]
<1> DEFINE P == Places(pgs)
           M == Cardinality(P)
           order == InOrder(P, LAMBDA x, y : x[1] < y[1] \/ (x[1] = y[1] /\ x[2] < y[2]))
<1>1. InRecordOrder(pgs) = [n \in DOMAIN order |-> pgs[order[n][1]].records[order[n][2]]]
  BY DEF InRecordOrder
<1>2. /\ M \in Nat /\ order \in [1 .. M -> P]
      /\ \A x \in P : \E n \in 1 .. M : order[n] = x
      /\ \A i, j \in 1 .. M : i < j =>
           order[i][1] < order[j][1] \/ (order[i][1] = order[j][1] /\ order[i][2] < order[j][2])
  BY PlacesListed
<1>3. P \subseteq Pages \X (1 .. MaxSlots)
  BY DEF Places
<1> HIDE DEF P, M, order
<1>4. InRecordOrder(pgs) = [n \in 1 .. M |-> RecordAt(pgs, order[n])]
  BY <1>1, <1>2 DEF RecordAt
<1>5. \E s \in [1 .. M -> P] :
        /\ \A x \in P : \E n \in 1 .. M : s[n] = x
        /\ \A i, j \in 1 .. M : i < j =>
             s[i][1] < s[j][1] \/ (s[i][1] = s[j][1] /\ s[i][2] < s[j][2])
        /\ InRecordOrder(pgs) = [n \in 1 .. M |-> RecordAt(pgs, s[n])]
  BY <1>2, <1>4
<1>6. QED
  BY <1>2, <1>3, <1>5 DEF P, M

\* Where Filled puts the n-th record, and that a reader meets it there as the n-th.
LEMMA FilledInOrder ==
  ASSUME NEW cols, NEW records, NEW N \in Nat, Len(records) = N,
         \A k \in 1 .. N : records[k] # NoRecord,
         MaxSlots \in Nat, RecordsPerPage(cols) \in Nat, RecordsPerPage(cols) <= MaxSlots,
         N <= Cardinality(Pages) * RecordsPerPage(cols)
  PROVE  InRecordOrder(Filled(cols, records)) = [n \in 1 .. N |-> records[n]]
<1> DEFINE per == RecordsPerPage(cols)
           C == Cardinality(Pages)
           rank == [p \in Pages |-> Cardinality({q \in Pages : q < p})]
           ahead == [p \in Pages |-> per * rank[p]]
           to == Filled(cols, records)
           P == Places(to)
           M == Cardinality(P)
<1>1. /\ C \in Nat
      /\ \A p \in Pages : rank[p] \in 0 .. C - 1
      /\ \A p, q \in Pages : p < q => rank[p] < rank[q]
      /\ \A r \in 0 .. C - 1 : \E p \in Pages : rank[p] = r
  BY FS_CardinalityType, RanksOfNumbers
<1>2. \A p \in Pages : \A s \in 1 .. MaxSlots :
        to[p].records[s] = IF s <= per /\ ahead[p] + s <= N THEN records[ahead[p] + s] ELSE NoRecord
  <2>1. ASSUME NEW p \in Pages, NEW s \in 1 .. MaxSlots
        PROVE  to[p].records[s] = IF s \in Slots(cols) /\ PlaceNumber(cols, <<p, s>>) <= N
                                  THEN records[PlaceNumber(cols, <<p, s>>)] ELSE NoRecord
    BY DEF Filled
  <2>2. ASSUME NEW p \in Pages, NEW s \in 1 .. MaxSlots
        PROVE  PlaceNumber(cols, <<p, s>>) = ahead[p] + s /\ (s \in Slots(cols) <=> s <= per)
    BY DEF PlaceNumber, Ahead, Slots
  <2> HIDE DEF to, per, ahead
  <2>3. QED
    BY ONLY <2>1, <2>2
<1> HIDE DEF rank
<1>3. /\ \A p \in Pages : ahead[p] \in Nat
      /\ \A p, q \in Pages : p < q => ahead[p] + per <= ahead[q]
  <2>1. ASSUME NEW p \in Pages, NEW q \in Pages, p < q PROVE ahead[p] + per <= ahead[q]
    <3>1. rank[p] \in Nat /\ rank[q] \in Nat /\ rank[p] + 1 \in Nat /\ rank[p] + 1 <= rank[q]
      BY <1>1, <2>1
    <3>2. per * (rank[p] + 1) <= per * rank[q]
      BY ONLY <3>1, RecordsPerPage(cols) \in Nat, ProductsGrow
    <3>3. per * (rank[p] + 1) = per * rank[p] + per
      BY <3>1
    <3>4. QED
      BY <3>2, <3>3
  <2>2. ASSUME NEW p \in Pages PROVE ahead[p] \in Nat
    <3>1. rank[p] \in Nat
      BY <1>1
    <3>2. per * rank[p] \in Nat
      BY <3>1
    <3>3. QED
      BY <3>2
  <2>3. QED
    BY <2>1, <2>2
<1>4. ASSUME NEW n \in 1 .. N
      PROVE  \E p \in Pages : \E s \in 1 .. per : n = ahead[p] + s
  <2>1. per # 0 /\ n - 1 \in Nat /\ (n - 1) + 1 = n
    <3>1. CASE per = 0
      <4>1. C * per = 0
        BY <1>1, <3>1
      <4>2. QED
        BY <4>1
    <3>2. QED
      BY <3>1
  <2>2. PICK r \in Nat : \E s \in 1 .. per : (n - 1) + 1 = per * r + s
    BY ONLY <2>1, RecordsPerPage(cols) \in Nat, NumbersInBlocks
  <2>3. PICK s \in 1 .. per : n = per * r + s
    BY <2>1, <2>2
  <2>4. r \in 0 .. C - 1
    <3>1. SUFFICES ASSUME C <= r PROVE FALSE
      BY <1>1
    <3>2. per * C \in Nat /\ per * r \in Nat /\ per * C <= per * r
      BY ONLY <1>1, <3>1, r \in Nat, RecordsPerPage(cols) \in Nat, ProductsGrow
    <3>3. C * per = per * C
      BY <1>1
    <3> HIDE DEF per, C
    <3>4. n \in Nat /\ s \in Nat /\ s >= 1 /\ n = per * r + s /\ n <= N /\ N <= C * per
      BY <2>3 DEF per, C
    <3>5. QED
      BY ONLY <3>2, <3>3, <3>4, N \in Nat
  <2>5. PICK p \in Pages : rank[p] = r
    BY <1>1, <2>4
  <2>6. QED
    BY <2>3, <2>5
<1> HIDE DEF ahead, to, per
<1>5. per \in Nat /\ per <= MaxSlots
  BY DEF per
<1>6. /\ P \subseteq Pages \X (1 .. MaxSlots) /\ M \in Nat
      /\ \E s \in [1 .. M -> P] :
           /\ \A x \in P : \E n \in 1 .. M : s[n] = x
           /\ \A i, j \in 1 .. M : i < j =>
                s[i][1] < s[j][1] \/ (s[i][1] = s[j][1] /\ s[i][2] < s[j][2])
           /\ InRecordOrder(to) = [n \in 1 .. M |-> RecordAt(to, s[n])]
  BY ReadInOrder
<1> HIDE DEF M
<1>7. PICK s \in [1 .. M -> P] :
        /\ \A x \in P : \E n \in 1 .. M : s[n] = x
        /\ \A i, j \in 1 .. M : i < j =>
             s[i][1] < s[j][1] \/ (s[i][1] = s[j][1] /\ s[i][2] < s[j][2])
        /\ InRecordOrder(to) = [n \in 1 .. M |-> RecordAt(to, s[n])]
  BY <1>6
<1> DEFINE f == [n \in 1 .. M |-> ahead[s[n][1]] + s[n][2]]
<1>8. ASSUME NEW x \in P
      PROVE  /\ x[1] \in Pages /\ x[1] \in Nat /\ x[2] \in 1 .. per /\ ahead[x[1]] \in Nat
             /\ ahead[x[1]] + x[2] \in 1 .. N
             /\ RecordAt(to, x) = records[ahead[x[1]] + x[2]]
  <2>1. x[1] \in Pages /\ x[2] \in 1 .. MaxSlots /\ to[x[1]].records[x[2]] # NoRecord
    BY <1>6 DEF P, Places
  <2>2. x[2] <= per /\ ahead[x[1]] + x[2] <= N /\ RecordAt(to, x) = records[ahead[x[1]] + x[2]]
    BY <1>2, <2>1 DEF RecordAt
  <2>3. ahead[x[1]] \in Nat /\ x[1] \in Nat
    BY <1>3, <2>1
  <2>4. QED
    BY <1>5, <2>1, <2>2, <2>3
<1>9. f \in [1 .. M -> 1 .. N]
  BY <1>7, <1>8
<1>10. ASSUME NEW i \in 1 .. M, NEW j \in 1 .. M, i < j
       PROVE  f[i] < f[j]
  <2> DEFINE x == s[i]
             y == s[j]
  <2>1. x \in P /\ y \in P /\ (x[1] < y[1] \/ (x[1] = y[1] /\ x[2] < y[2]))
    BY <1>7, <1>10
  <2>2. f[i] = ahead[x[1]] + x[2] /\ f[j] = ahead[y[1]] + y[2]
    OBVIOUS
  <2> HIDE DEF f, x, y
  <2>3. /\ x[1] \in Pages /\ x[2] \in 1 .. per /\ ahead[x[1]] \in Nat
        /\ y[1] \in Pages /\ y[2] \in 1 .. per /\ ahead[y[1]] \in Nat
    BY <1>8, <2>1
  <2>4. CASE x[1] < y[1]
    <3>1. ahead[x[1]] + per <= ahead[y[1]]
      BY <1>3, <2>3, <2>4
    <3>2. QED
      BY ONLY <1>5, <2>2, <2>3, <3>1
  <2>5. CASE x[1] = y[1] /\ x[2] < y[2]
    BY ONLY <1>5, <2>2, <2>3, <2>5
  <2>6. QED
    BY <2>1, <2>4, <2>5
<1>11. ASSUME NEW k \in 1 .. N
       PROVE  \E i \in 1 .. M : f[i] = k
  <2>1. PICK p \in Pages : \E t \in 1 .. per : k = ahead[p] + t
    BY <1>4
  <2>2. PICK t \in 1 .. per : k = ahead[p] + t
    BY <2>1
  <2>3. t \in 1 .. MaxSlots /\ t <= per
    BY <1>5
  <2>4. to[p].records[t] = records[k]
    BY <1>2, <2>2, <2>3
  <2>5. <<p, t>> \in P
    BY <2>3, <2>4 DEF P, Places
  <2>6. PICK i \in 1 .. M : s[i] = <<p, t>>
    BY <1>7, <2>5
  <2>7. QED
    BY <2>2, <2>6
<1> HIDE DEF f
<1>12. M = N /\ \A k \in 1 .. N : f[k] = k
  <2>1. Increasing(f, M)
    BY <1>10 DEF Increasing
  <2>2. \A k \in 1 .. N : k \in Range(f)
    BY <1>9, <1>11 DEF Range
  <2>3. M \in Nat /\ N \in Nat
    BY <1>6
  <2>4. QED
    BY ONLY <1>9, <2>1, <2>2, <2>3, GrowingOntoIsIdentity
<1>13. \A n \in 1 .. N : RecordAt(to, s[n]) = records[n]
  <2>1. ASSUME NEW n \in 1 .. N PROVE RecordAt(to, s[n]) = records[n]
    <3>1. s[n] \in P /\ f[n] = n /\ f[n] = ahead[s[n][1]] + s[n][2]
      BY <1>7, <1>12 DEF f
    <3>2. QED
      BY <1>8, <3>1
  <2>2. QED
    BY <2>1
<1>14. InRecordOrder(to) = [n \in 1 .. N |-> records[n]]
  BY <1>7, <1>12, <1>13
<1>15. QED
  BY <1>14 DEF to

\* What a compaction copies: rows of a value per column, as many as there are records.
LEMMA RecordsInOrder ==
  ASSUME IInv, Consistent(stream, pages, leaf)
  PROVE  LET seq == InRecordOrder(pages)
             N == Cardinality(Places(pages))
         IN  /\ N \in Nat /\ DOMAIN seq = 1 .. N
             /\ \A n \in 1 .. N : seq[n] \in Seq(Values) /\ Len(seq[n]) = Len(stream.columns)
<1>1. TypesHold /\ pages \in PageSets /\ IsSchema(stream)
  BY DEF IInv, TypesHold
<1>2. MaxSlots \in Nat
  <2>1. stream.columns \in Seq(Columns) /\ Len(stream.columns) \in Nat \ {0}
    BY ONLY <1>1, ColumnsOfSchemas
  <2>2. QED
    BY <2>1, SlotsAreAddressed
<1> DEFINE P == Places(pages)
           N == Cardinality(P)
           order == InOrder(P, LAMBDA x, y : x[1] < y[1] \/ (x[1] = y[1] /\ x[2] < y[2]))
           seq == [n \in DOMAIN order |-> pages[order[n][1]].records[order[n][2]]]
<1>3. InRecordOrder(pages) = seq
  BY DEF InRecordOrder
<1>4. N \in Nat /\ order \in [1 .. N -> P]
  BY <1>2, PlacesListed
<1> HIDE DEF order, P
<1>5. \A x \in P : /\ RecordAt(pages, x) \in Seq(Values)
                   /\ Len(RecordAt(pages, x)) = Len(stream.columns)
  <2>1. \A x \in P : x \in Pages \X (1 .. MaxSlots)
    BY <1>1, RecordsOfPages DEF P
  <2>2. \A x \in P : GoodRecord(stream, RecordAt(pages, x))
    BY DEF P, Consistent, RecordAt
  <2>3. QED
    BY <1>1, <2>1, <2>2, RecordsOfPages DEF GoodRecord
<1>6. DOMAIN seq = 1 .. N /\ \A n \in 1 .. N : seq[n] = RecordAt(pages, order[n]) /\ order[n] \in P
  BY <1>4 DEF RecordAt
<1> HIDE DEF seq, N
<1>7. \A n \in 1 .. N : seq[n] \in Seq(Values) /\ Len(seq[n]) = Len(stream.columns)
  BY <1>5, <1>6
<1>8. QED
  BY <1>3, <1>4, <1>6, <1>7 DEF N, P

\* The columns are the same but for their ids.
LEMMA RenumberedSchemas ==
  ASSUME NEW old, IsSchema(old), NEW new, new = [old EXCEPT !.columns = Renumbered(old.columns)]
  PROVE  /\ new.columns = Renumbered(old.columns)
         /\ ReshapesSchema(old, new)
         /\ \A rec : GoodRecord(old, rec) => GoodRecord(new, rec)
<1> DEFINE cols == old.columns
           n == Len(cols)
           made == Renumbered(cols)
<1>1. /\ old \in Schemas /\ cols \in Seq(Columns) /\ n \in Nat \ {0} /\ DOMAIN cols = 1 .. n
      /\ old.key # "" => ColumnNamed(cols, old.key)
  BY ONLY IsSchema(old), ColumnsOfSchemas
<1>2. \A i \in 1 .. n : ColumnAt(cols, cols[i].name) = i
  BY ONLY IsSchema(old), <1>1, ColumnsOfSchemas
<1>3. /\ made \in Seq(Columns) /\ Len(made) = n /\ DOMAIN made = 1 .. n
      /\ \A i \in 1 .. n : made[i].name = cols[i].name /\ made[i].kind = cols[i].kind
  BY ONLY <1>1, RenumberedLaws
<1>4. /\ new.columns = made /\ new.key = old.key /\ new.constraints = old.constraints
      /\ new \in Schemas
  <2> HIDE DEF made
  <2>1. new = [old EXCEPT !.columns = made]
    BY DEF made
  <2>2. QED
    BY ONLY <1>1, <1>3, <2>1 DEF Schemas
<1> HIDE DEF made, n
<1>5. \A m : ColumnNamed(made, m) <=> ColumnNamed(cols, m)
  BY ONLY <1>1, <1>3 DEF ColumnNamed
<1>6. IsSchema(new)
  <2>1. \A i, j \in DOMAIN made : made[i].name = made[j].name => i = j
    BY ONLY <1>2, <1>3
  <2>2. made # <<>>
    BY ONLY <1>1, <1>3
  <2>3. new.key = "" \/ \E i \in DOMAIN made : made[i].name = new.key
    <3>1. new.key # "" => ColumnNamed(made, new.key)
      BY <1>1, <1>4, <1>5
    <3>2. QED
      BY ONLY <3>1 DEF ColumnNamed
  <2>4. QED
    BY ONLY <1>4, <2>1, <2>2, <2>3 DEF IsSchema, Schemas
<1>7. \A m : ColumnNamed(made, m) => ColumnAt(made, m) = ColumnAt(cols, m) /\ ColumnAt(made, m) \in 1 .. n
  <2>1. \A m : ColumnNamed(made, m) => ColumnAt(made, m) \in 1 .. n /\ made[ColumnAt(made, m)].name = m
    <3>1. \A m : ColumnNamed(new.columns, m) =>
            /\ ColumnAt(new.columns, m) \in DOMAIN new.columns
            /\ new.columns[ColumnAt(new.columns, m)].name = m
      BY ONLY <1>6, ColumnsOfSchemas
    <3>2. new.columns = made /\ DOMAIN made = 1 .. n
      BY <1>3, <1>4
    <3>3. QED
      BY ONLY <3>1, <3>2
  <2>2. QED
    BY ONLY <1>2, <1>3, <2>1
<1>8. ReshapesSchema(old, new)
  <2>1. old.key # "" => ColumnNamed(new.columns, old.key)
    BY <1>1, <1>4, <1>5
  <2>2. \A m : ColumnNamed(made, m) => made[ColumnAt(made, m)].kind = cols[ColumnAt(cols, m)].kind
    BY ONLY <1>3, <1>7
  <2>3. QED
    BY <1>4, <1>5, <1>6, <2>1, <2>2 DEF ReshapesSchema
<1>9. ASSUME NEW rec, GoodRecord(old, rec) PROVE GoodRecord(new, rec)
  <2>1. \A m : ColumnNamed(new.columns, m) =>
          /\ ColumnNamed(cols, m) /\ ColumnAt(new.columns, m) = ColumnAt(cols, m)
          /\ new.columns[ColumnAt(new.columns, m)].kind = cols[ColumnAt(cols, m)].kind
    BY ONLY <1>3, <1>4, <1>5, <1>7
  <2>2. \A c \in new.constraints : c \in old.constraints /\ ColumnNamed(new.columns, c.column)
    BY ONLY <1>4, <1>5, <1>9 DEF GoodRecord, ResolvesIn
  <2>3. ResolvesIn(new)
    BY ONLY <1>9, <2>1, <2>2 DEF GoodRecord, ResolvesIn
  <2>4. PassesIn(new, rec)
    <3>1. ASSUME NEW c \in new.constraints PROVE SatisfiesIn(new, rec, c)
      <4>1. SatisfiesIn(old, rec, c)
        BY ONLY <1>9, <2>2 DEF GoodRecord, PassesIn
      <4>2. ColumnAt(new.columns, c.column) = ColumnAt(old.columns, c.column)
        BY <2>1, <2>2
      <4>3. QED
        BY ONLY <4>1, <4>2 DEF SatisfiesIn
    <3>2. QED
      BY <3>1 DEF PassesIn
  <2>5. Len(rec) = Len(new.columns)
    BY <1>3, <1>4, <1>9 DEF GoodRecord, n
  <2>6. QED
    BY <2>3, <2>4, <2>5 DEF GoodRecord
<1>10. QED
  BY <1>4, <1>8, <1>9 DEF made

\* The new table, filled with good rows, is as its schema says.
LEMMA FilledPages ==
  ASSUME NEW strm, IsSchema(strm), NEW records, NEW N \in Nat, Len(records) = N,
         \A k \in 1 .. N : records[k] \in Seq(Values) /\ GoodRecord(strm, records[k])
  PROVE  LET to == Filled(strm.columns, records)
         IN  /\ to \in PageSets
             /\ Consistent(strm, to, KeyEntries(strm, to))
             /\ Places(to) = {x \in Pages \X Slots(strm.columns) : PlaceNumber(strm.columns, x) <= N}
             /\ \A x \in Places(to) : RecordAt(to, x) = records[PlaceNumber(strm.columns, x)]
             /\ \A x \in Places(to) : PlaceNumber(strm.columns, x) \in 1 .. N
<1> DEFINE cols == strm.columns
           per == RecordsPerPage(cols)
           ahead(p) == Ahead(cols, p)
           to == Filled(cols, records)
<1>1. cols \in Seq(Columns) /\ Len(cols) \in Nat \ {0}
  BY ONLY IsSchema(strm), ColumnsOfSchemas
<1>2. per \in Nat /\ MaxSlots \in Nat /\ Slots(cols) = 1 .. per
  BY ONLY <1>1, SlotsAreAddressed DEF Slots
<1>3. \A p \in Pages : ahead(p) \in Nat
  <2>1. ASSUME NEW p \in Pages PROVE Cardinality({q \in Pages : q < p}) \in Nat
    <3>1. IsFiniteSet({q \in Pages : q < p})
      BY FS_Subset
    <3>2. QED
      BY <3>1, FS_CardinalityType
  <2> HIDE DEF per
  <2>2. \A a, b \in Nat : a * b \in Nat
    OBVIOUS
  <2>3. QED
    BY <1>2, <2>1, <2>2 DEF Ahead, per
<1> HIDE DEF cols, per
<1>4. to = [p \in Pages |->
              [laidOutFor |-> cols,
               records |-> [s \in 1 .. MaxSlots |->
                  IF s <= per /\ ahead(p) + s <= Len(records) THEN records[ahead(p) + s] ELSE NoRecord]]]
  <2>1. \A s \in 1 .. MaxSlots : s \in Slots(cols) <=> s <= per
    BY <1>2
  <2>2. \A p, s : PlaceNumber(cols, <<p, s>>) = ahead(p) + s
    BY DEF PlaceNumber
  <2> HIDE DEF ahead
  <2>3. QED
    BY <2>1, <2>2 DEF Filled
<1> HIDE DEF to, ahead
<1>5. ASSUME NEW p \in Pages, NEW s \in 1 .. MaxSlots
      PROVE  \/ to[p].records[s] = NoRecord
             \/ /\ s \in Slots(cols)
                /\ to[p].records[s] \in Seq(Values) /\ GoodRecord(strm, to[p].records[s])
  <2>1. to[p].records[s] = IF s <= per /\ ahead(p) + s <= Len(records)
                           THEN records[ahead(p) + s] ELSE NoRecord
    BY <1>4
  <2>2. CASE s <= per /\ ahead(p) + s <= N
    <3>1. ahead(p) \in Nat /\ s \in Nat /\ s >= 1
      BY <1>2, <1>3
    <3>2. ahead(p) + s \in 1 .. N /\ s \in 1 .. per
      BY ONLY <1>2, <2>2, <3>1, N \in Nat
    <3>3. to[p].records[s] = records[ahead(p) + s]
      BY <2>1, <2>2
    <3>4. QED
      BY <1>2, <3>2, <3>3
  <2>3. CASE ~(s <= per /\ ahead(p) + s <= N)
    BY <2>1, <2>3
  <2>4. QED
    BY <2>2, <2>3
<1>6. \A p \in Pages : to[p].laidOutFor = cols
  BY <1>4
<1>7. to \in PageSets
  <2>1. NoRecord \in Seq(Values)
    BY DEF NoRecord
  <2>2. \A p \in Pages : \A s \in 1 .. MaxSlots : to[p].records[s] \in Seq(Values)
    BY <1>5, <2>1
  <2>3. ASSUME NEW p \in Pages
        PROVE  to[p] \in [laidOutFor : Seq(Columns), records : [1 .. MaxSlots -> Seq(Values)]]
    <3> DEFINE recs == [s \in 1 .. MaxSlots |->
                  IF s <= per /\ ahead(p) + s <= Len(records) THEN records[ahead(p) + s] ELSE NoRecord]
    <3>1. to[p] = [laidOutFor |-> cols, records |-> recs]
      BY <1>4
    <3>2. recs = [s \in 1 .. MaxSlots |-> recs[s]]
      OBVIOUS
    <3> HIDE DEF recs
    <3>3. \A s \in 1 .. MaxSlots : recs[s] \in Seq(Values)
      BY <2>2, <3>1
    <3>4. recs \in [1 .. MaxSlots -> Seq(Values)]
      BY <3>2, <3>3
    <3>5. QED
      BY <1>1, <3>1, <3>4
  <2>4. to = [p \in Pages |-> to[p]]
    BY <1>4
  <2>5. QED
    BY <2>3, <2>4 DEF PageSets
<1>8. \A x \in Places(to) : x[2] \in Slots(cols) /\ GoodRecord(strm, to[x[1]].records[x[2]])
  <2>1. \A x \in Places(to) : x[1] \in Pages /\ x[2] \in 1 .. MaxSlots /\ to[x[1]].records[x[2]] # NoRecord
    BY DEF Places
  <2>2. QED
    BY <1>5, <2>1
<1>9. Consistent(strm, to, KeyEntries(strm, to))
  BY <1>6, <1>8 DEF Consistent, cols
<1>10. ASSUME NEW x \in Pages \X (1 .. MaxSlots)
       PROVE  /\ x \in Places(to) <=> x[2] \in Slots(cols) /\ PlaceNumber(cols, x) <= N
              /\ x \in Places(to) => /\ RecordAt(to, x) = records[PlaceNumber(cols, x)]
                                     /\ PlaceNumber(cols, x) \in 1 .. N
  <2>1. /\ x[1] \in Pages /\ x[2] \in 1 .. MaxSlots
        /\ PlaceNumber(cols, x) = ahead(x[1]) + x[2] /\ ahead(x[1]) \in Nat
    BY <1>3 DEF PlaceNumber, ahead
  <2>2. to[x[1]].records[x[2]] = IF x[2] <= per /\ ahead(x[1]) + x[2] <= N
                                 THEN records[ahead(x[1]) + x[2]] ELSE NoRecord
    BY <1>4, <2>1
  <2>3. x[2] \in Slots(cols) <=> x[2] <= per
    BY <1>2, <2>1
  <2>4. CASE x[2] <= per /\ ahead(x[1]) + x[2] <= N
    <3>1. ahead(x[1]) + x[2] \in 1 .. N
      BY <1>2, <2>1, <2>4
    <3>2. Len(records[ahead(x[1]) + x[2]]) = Len(cols) /\ Len(cols) # 0
      BY <1>1, <3>1 DEF GoodRecord, cols
    <3>3. records[ahead(x[1]) + x[2]] # NoRecord
      BY <3>2 DEF NoRecord
    <3>4. QED
      BY <2>1, <2>2, <2>3, <2>4, <3>1, <3>3 DEF Places, RecordAt
  <2>5. CASE ~(x[2] <= per /\ ahead(x[1]) + x[2] <= N)
    <3>1. x \notin Places(to)
      BY <2>2, <2>5 DEF Places
    <3>2. QED
      BY <2>1, <2>3, <2>5, <3>1
  <2>6. QED
    BY <2>4, <2>5
<1>11. Slots(cols) \subseteq 1 .. MaxSlots
  <2>1. Len(cols) > 0
    BY <1>1
  <2>2. QED
    BY <1>1, <2>1, SlotsAreAddressed
<1>12. Places(to) = {x \in Pages \X Slots(cols) : PlaceNumber(cols, x) <= N}
  <2>1. Places(to) \subseteq Pages \X (1 .. MaxSlots)
    BY DEF Places
  <2>2. Pages \X Slots(cols) \subseteq Pages \X (1 .. MaxSlots)
    BY <1>11
  <2>3. \A x \in Pages \X (1 .. MaxSlots) : x \in Pages \X Slots(cols) <=> x[2] \in Slots(cols)
    BY <1>11
  <2>4. QED
    BY <1>10, <2>1, <2>2, <2>3
<1>13. \A x \in Places(to) : x \in Pages \X (1 .. MaxSlots)
  BY DEF Places
<1>14. QED
  BY <1>7, <1>9, <1>10, <1>12, <1>13 DEF to, cols

\* A page takes as many records of the new table as of the old one, so that the records
\* that were there find room.
LEMMA CopiesFindRoom ==
  ASSUME IInv, Consistent(stream, pages, leaf)
  PROVE  /\ MaxSlots \in Nat
         /\ RecordsPerPage(Renumbered(stream.columns)) \in Nat
         /\ RecordsPerPage(Renumbered(stream.columns)) <= MaxSlots
         /\ Cardinality(Places(pages)) <= Cardinality(Pages) * RecordsPerPage(Renumbered(stream.columns))
<1> DEFINE cols == stream.columns
           new == Renumbered(cols)
           per == RecordsPerPage(cols)
           P == Places(pages)
<1>1. IsSchema(stream)
  BY DEF IInv, TypesHold
<1>2. cols \in Seq(Columns) /\ Len(cols) \in Nat \ {0}
  BY ONLY <1>1, ColumnsOfSchemas
<1>3. /\ new \in Seq(Columns) /\ Len(new) = Len(cols)
      /\ \A i \in 1 .. Len(cols) : new[i].kind = cols[i].kind
  BY ONLY <1>2, RenumberedLaws
<1> HIDE DEF cols, new
<1>4. RecordsPerPage(new) = per
  <2>1. Len(cols) > 0
    BY <1>2
  <2>2. QED
    BY ONLY <1>2, <1>3, <2>1, SameKindsSameSize
<1>5. per \in Nat /\ MaxSlots \in Nat /\ 1 .. per \subseteq 1 .. MaxSlots
  <2>1. Len(cols) > 0
    BY <1>2
  <2>2. QED
    BY <1>2, <2>1, SlotsAreAddressed DEF Slots
<1>6. P \subseteq Pages \X (1 .. per)
  <2>1. \A x \in P : x \in Pages \X (1 .. MaxSlots) /\ x[2] \in Slots(cols)
    BY DEF Consistent, Places, cols
  <2>2. QED
    BY <2>1 DEF Slots
<1> HIDE DEF per, P
<1>7. IsFiniteSet(1 .. per) /\ Cardinality(1 .. per) = per
  <2>1. 1 \in Int /\ per \in Int
    BY <1>5
  <2>2. IsFiniteSet(1 .. per) /\ Cardinality(1 .. per) = IF 1 > per THEN 0 ELSE per - 1 + 1
    BY ONLY <2>1, FS_Interval
  <2>3. QED
    BY <1>5, <2>2
<1>8. /\ IsFiniteSet(Pages \X (1 .. per))
      /\ Cardinality(Pages \X (1 .. per)) = Cardinality(Pages) * per
  <2>1. IsFiniteSet(Pages)
    OBVIOUS
  <2>2. /\ IsFiniteSet(Pages \X (1 .. per))
        /\ Cardinality(Pages \X (1 .. per)) = Cardinality(Pages) * Cardinality(1 .. per)
    BY ONLY <1>7, <2>1, FS_Product
  <2>3. QED
    BY <1>7, <2>2
<1>9. Cardinality(P) <= Cardinality(Pages) * per
  BY <1>6, <1>8, FS_Subset
<1>10. per <= MaxSlots
  <2>1. CASE per = 0
    BY <1>5, <2>1
  <2>2. CASE per # 0
    <3>1. per \in 1 .. per
      BY <1>5, <2>2
    <3>2. QED
      BY <1>5, <3>1
  <2>3. QED
    BY <2>1, <2>2
<1>11. QED
  BY <1>4, <1>5, <1>9, <1>10 DEF P, cols, new

LEMMA CompactHolds ==
  ASSUME IInv, Compact
  PROVE  IInv'
<1> DEFINE copy == FoldLeft(Copied, NewTable, InRecordOrder(pages))
           cols == Renumbered(stream.columns)
           new == [stream EXCEPT !.columns = cols]
           n == Len(stream.columns)
<1>1. /\ alters < MaxAlters /\ alters' = alters + 1
      /\ phase = "idle" /\ phase' = phase /\ ~torn /\ torn' = torn
      /\ copy.accepted
      /\ stream' = new
      /\ pages' = Filled(cols, copy.records)
      /\ leaf' = copy.leaf
      /\ info' = [builtFor |-> cols, counters |-> copy.counters]
      /\ lastID' = Len(cols)
      /\ inserted' = copy.inserted
      /\ changes' = changes
  BY DEF Compact
<1>2. TypesHold /\ IsSchema(stream) /\ Consistent(stream, pages, leaf)
  BY <1>1 DEF IInv, TypesHold, AtRest
<1>3. copy \in Copies
  <2> DEFINE seq == InRecordOrder(pages)
             N == Cardinality(Places(pages))
  <2>1. /\ N \in Nat /\ DOMAIN seq = 1 .. N
        /\ \A k \in 1 .. N : seq[k] \in Seq(Values) /\ Len(seq[k]) = Len(stream.columns)
    BY <1>2, RecordsInOrder
  <2> HIDE DEF seq, N
  <2>2. CopyOf(seq) \in Copies
    BY ONLY <1>2, <2>1, CopiedRows
  <2>3. QED
    BY <2>2 DEF seq, CopyOf
<1> HIDE DEF copy
<1>4. /\ copy.records \in Seq(Seq(Int))
      /\ \A k \in DOMAIN copy.records : copy.records[k] \in Seq(Values) /\ GoodRecord(stream, copy.records[k])
      /\ copy.counters \in [DOMAIN stream.columns -> 0 .. MaxInt]
      /\ copy.inserted \in InsertedMaps
      /\ KeepsUp(cols, cols, copy.counters, copy.inserted)
  BY <1>1, <1>3 DEF Copies, CopyTypes, CopyIsGood
<1>5. stream.columns \in Seq(Columns) /\ n \in Nat \ {0} /\ DOMAIN stream.columns = 1 .. n
  BY ONLY <1>2, ColumnsOfSchemas
<1>6. /\ cols \in Seq(Columns) /\ Len(cols) = n /\ DOMAIN cols = 1 .. n
      /\ \A i \in 1 .. n : cols[i].id = i
  BY ONLY <1>5, RenumberedLaws
<1>7. /\ new.columns = cols /\ IsSchema(new)
      /\ \A rec : GoodRecord(stream, rec) => GoodRecord(new, rec)
  <2>1. new = [stream EXCEPT !.columns = Renumbered(stream.columns)]
    OBVIOUS
  <2> HIDE DEF new
  <2>2. /\ new.columns = Renumbered(stream.columns) /\ ReshapesSchema(stream, new)
        /\ \A rec : GoodRecord(stream, rec) => GoodRecord(new, rec)
    BY ONLY <1>2, <2>1, RenumberedSchemas
  <2>3. QED
    BY <2>2 DEF ReshapesSchema
<1> HIDE DEF new, cols, n
<1>8. pages' \in PageSets /\ Consistent(stream, pages, leaf)'
  <2> DEFINE records == copy.records
             N == Len(records)
  <2>1. N \in Nat /\ DOMAIN records = 1 .. N
    BY <1>4
  <2>2. \A k \in 1 .. N : records[k] \in Seq(Values) /\ GoodRecord(new, records[k])
    BY <1>4, <1>7, <2>1
  <2>3. /\ Filled(new.columns, records) \in PageSets
        /\ Consistent(new, Filled(new.columns, records), KeyEntries(new, Filled(new.columns, records)))
        /\ Places(Filled(new.columns, records))
             = {x \in Pages \X Slots(new.columns) : PlaceNumber(new.columns, x) <= N}
        /\ \A x \in Places(Filled(new.columns, records)) :
             RecordAt(Filled(new.columns, records), x) = records[PlaceNumber(new.columns, x)]
    <3>1. IsSchema(new) /\ Len(records) = N
      BY <1>7
    <3> HIDE DEF records, N
    <3>2. QED
      BY ONLY <2>1, <2>2, <3>1, FilledPages
  <2>4. copy.leaf = KeyEntries(new, Filled(new.columns, records))
    <3>1. copy.leaf = CopiedEntries(records)
      BY <1>3 DEF Copies
    <3>2. new.key = stream.key /\ new.columns = Renumbered(stream.columns)
      BY <1>7 DEF new, cols
    <3>3. CASE stream.key = ""
      BY <3>1, <3>2, <3>3, EntriesOfPages DEF CopiedEntries
    <3>4. CASE stream.key # ""
      <4> DEFINE to == Filled(new.columns, records)
                 key == stream.key
      <4>1. RecordsPerPage(new.columns) = RecordsPerPage(stream.columns)
        <5>1. /\ new.columns \in Seq(Columns) /\ Len(new.columns) = Len(stream.columns)
              /\ \A i \in 1 .. Len(stream.columns) : new.columns[i].kind = stream.columns[i].kind
          BY ONLY <1>5, <3>2, RenumberedLaws
        <5>2. Len(stream.columns) > 0
          BY <1>5 DEF n
        <5>3. QED
          BY ONLY <1>5, <5>1, <5>2, SameKindsSameSize
      <4>2. /\ Slots(new.columns) = Slots(stream.columns)
            /\ \A x : PlaceNumber(new.columns, x) = PlaceNumber(stream.columns, x)
        BY ONLY <4>1 DEF Slots, PlaceNumber, Ahead
      <4>3. ColumnAt(new.columns, key) = ColumnAt(stream.columns, key)
        <5>1. /\ DOMAIN new.columns = DOMAIN stream.columns
              /\ \A i \in DOMAIN stream.columns : new.columns[i].name = stream.columns[i].name
          BY ONLY <1>5, <3>2, RenumberedLaws
        <5>2. QED
          BY ONLY <5>1 DEF ColumnAt
      <4>4. Places(to) = PlacesUpTo(N)
        BY <2>3, <4>2 DEF PlacesUpTo
      <4>5. KeyEntries(new, to) = {Entry(new, to, x) : x \in PlacesUpTo(N)}
        BY <3>2, <3>4, <4>4, EntriesOfPages
      <4>6. CopiedEntries(records)
              = {[key |-> KeyOf(records[PlaceNumber(stream.columns, x)]), page |-> x[1], slot |-> x[2]] :
                   x \in PlacesUpTo(N)}
        BY <3>4 DEF CopiedEntries
      <4>7. ASSUME NEW x \in PlacesUpTo(N)
            PROVE  Entry(new, to, x)
                     = [key |-> KeyOf(records[PlaceNumber(stream.columns, x)]), page |-> x[1], slot |-> x[2]]
        <5>1. RecordAt(to, x) = records[PlaceNumber(stream.columns, x)]
          BY <2>3, <4>2, <4>4
        <5> HIDE DEF to, records
        <5>2. KeyIn(new, RecordAt(to, x)) = KeyOf(RecordAt(to, x))
          BY <3>2, <4>3 DEF KeyIn, KeyOf
        <5>3. QED
          BY ONLY <5>1, <5>2 DEF Entry
      <4> HIDE DEF to, records, N
      <4>8. {Entry(new, to, x) : x \in PlacesUpTo(N)}
              = {[key |-> KeyOf(records[PlaceNumber(stream.columns, x)]), page |-> x[1], slot |-> x[2]] :
                   x \in PlacesUpTo(N)}
        BY ONLY <4>7
      <4>9. QED
        BY ONLY <3>1, <4>5, <4>6, <4>8 DEF to
    <3>5. QED
      BY <3>3, <3>4
  <2>5. QED
    BY <1>1, <1>7, <2>3, <2>4
<1>9. leaf' \subseteq IndexEntries
  <2>1. IsSchema(new) /\ Consistent(new, pages', leaf')
    BY <1>1, <1>7, <1>8
  <2>2. QED
    BY <1>8, <2>1, EntriesAreTyped
<1>10. info'.builtFor = cols /\ info'.counters = copy.counters
  BY <1>1
<1>11. copy.counters \in Seq(0 .. MaxInt) /\ Len(copy.counters) = n
  <2>1. copy.counters \in [1 .. n -> 0 .. MaxInt] /\ n \in Nat
    BY <1>4, <1>5
  <2>2. QED
    BY ONLY <2>1, FunctionsAreSequences
<1>12. TypesHold'
  <2>1. info' \in [builtFor : Seq(Columns), counters : Seq(0 .. MaxInt)]
    BY <1>1, <1>6, <1>11
  <2>2. Len(info'.counters) = Len(info'.builtFor)
    BY <1>6, <1>10, <1>11
  <2>3. alters' \in 0 .. MaxAlters
    BY <1>1, <1>2 DEF TypesHold
  <2>4. IsSchema(stream') /\ inserted' \in InsertedMaps
    BY <1>1, <1>4, <1>7
  <2>5. QED
    BY <1>1, <1>2, <1>8, <1>9, <2>1, <2>2, <2>3, <2>4 DEF TypesHold
<1>13. CountersHold'
  <2>1. stream'.columns = cols /\ lastID' = n /\ inserted' = copy.inserted
    BY <1>1, <1>6, <1>7
  <2>2. NumberedThrough(cols)
    BY <1>5, <1>6 DEF NumberedThrough
  <2>3. Follows(cols, cols)
    <3>1. \A i \in DOMAIN cols : \E j \in DOMAIN cols : i <= j /\ cols[j].id = cols[i].id
      BY <1>5, <1>6
    <3>2. \A i, j \in DOMAIN cols : cols[i].id = cols[j].id => i = j
      BY <1>6
    <3>3. QED
      BY <3>1, <3>2 DEF Follows
  <2>4. n \in Nat /\ n >= Len(cols)
    BY <1>5, <1>6
  <2>5. QED
    BY <1>4, <1>10, <2>1, <2>2, <2>3, <2>4 DEF CountersHold
<1>14. AtRest' /\ TornIsIdle' /\ Writing' /\ Altering'
  BY <1>1, <1>8 DEF AtRest, TornIsIdle, Writing, Altering
<1>15. QED
  BY <1>12, <1>13, <1>14 DEF IInv

-----------------------------------------------------------------------------
(* The theorems.                                                           *)

LEMMA NextHolds ==
  ASSUME IInv, [Next]_vars
  PROVE  IInv'
<1>1. CASE OpenWriter
  BY <1>1, OpenWriterHolds
<1>2. ASSUME NEW i \in DOMAIN stream.columns, NEW v \in Values, Insert(i, v) PROVE IInv'
  BY <1>2, InsertHolds
<1>3. ASSUME NEW p \in Pages, NEW s \in 1 .. MaxSlots, Delete(p, s) PROVE IInv'
  BY <1>3, DeleteHolds
<1>4. ASSUME NEW p \in Pages, NEW s \in 1 .. MaxSlots,
             NEW i \in DOMAIN stream.columns, NEW v \in Values, Update(p, s, i, v)
      PROVE  IInv'
  BY <1>4, UpdateHolds
<1>5. CASE Commit
  BY <1>5, CommitHolds
<1>6. CASE Rollback
  BY <1>6, RollbackHolds
<1>7. ASSUME NEW name \in ColumnNames, NEW kind \in NewKinds, AddColumn(name, kind) PROVE IInv'
  BY <1>7, AddColumnHolds
<1>8. ASSUME NEW i \in DOMAIN stream.columns, DropColumn(i) PROVE IInv'
  BY <1>8, DropColumnHolds
<1>9. CASE FlushNext
  BY <1>9, FlushNextHolds
<1>10. CASE FinishAlter
  BY <1>10, FinishAlterHolds
<1>11. CASE CutShort
  BY <1>11, CutShortHolds
<1>12. CASE Compact
  BY <1>12, CompactHolds
<1>13. CASE UNCHANGED vars
  <2>1. /\ stream' = stream /\ pages' = pages /\ leaf' = leaf /\ info' = info /\ lastID' = lastID
        /\ phase' = phase /\ edit' = edit /\ pending' = pending /\ before' = before
        /\ inserted' = inserted /\ changes' = changes /\ alters' = alters /\ torn' = torn
    BY <1>13 DEF vars, disk
  <2>2. QED
    BY <2>1 DEF IInv, TypesHold, CountersHold, AtRest, TornIsIdle, Writing, Altering,
                SchemaPending, PagePending
<1>14. QED
  BY <1>1, <1>2, <1>3, <1>4, <1>5, <1>6, <1>7, <1>8, <1>9, <1>10, <1>11, <1>12, <1>13 DEF Next

LEMMA InvariantHolds == Spec => []IInv
<1>1. IInv /\ [Next]_vars => IInv'
  BY NextHolds
<1>2. QED
  BY <1>1, InitHolds, PTL DEF Spec

\* Pages and records follow the schema: between operations every page is laid out for
\* the columns there are and every record lies in a slot that layout addresses,
\* though ADD COLUMN and DROP COLUMN (rewriteDataPage) rewrite one page after the
\* other, and unless one of them was cut short.
THEOREM LayoutsFollowSchemas == Spec => []PagesFollowSchema
<1>1. IInv => PagesFollowSchema
  <2>1. SUFFICES ASSUME IInv PROVE PagesFollowSchema
    OBVIOUS
  <2>2. TypesHold /\ AtRest
    BY <2>1 DEF IInv
  <2>3. TypeOK
    <3>1. /\ stream.columns \in Seq(Columns) /\ stream.constraints \subseteq Constraints
      BY <2>2, ColumnsOfSchemas DEF TypesHold
    <3>2. QED
      BY <2>2, <3>1 DEF TypesHold, PageSets, TypeOK
  <2>4. ASSUME phase # "altering", ~torn, NEW p \in Pages
        PROVE  /\ pages[p].laidOutFor = stream.columns
               /\ OccupiedSlots(pages[p]) \subseteq Slots(stream.columns)
               /\ \A s \in OccupiedSlots(pages[p]) : Len(pages[p].records[s]) = Len(stream.columns)
    <3>1. Consistent(stream, pages, leaf)
      BY <2>2, <2>4 DEF AtRest
    <3>2. ASSUME NEW s \in OccupiedSlots(pages[p])
          PROVE  s \in Slots(stream.columns) /\ Len(pages[p].records[s]) = Len(stream.columns)
      <4>1. <<p, s>> \in Places(pages)
        BY DEF OccupiedSlots, Places
      <4>2. QED
        BY <3>1, <4>1 DEF Consistent, GoodRecord
    <3>3. QED
      BY <3>1, <3>2 DEF Consistent
  <2>5. QED
    BY <2>3, <2>4 DEF PagesFollowSchema
<1>2. QED
  BY <1>1, InvariantHolds, PTL

\* The entries of the primary key index name the records with their keys, although
\* alterations (rewriteDataPage) move every value and never look at an index.
THEOREM EntriesNameRecords == Spec => []IndexPointsAtRecords
<1>1. IInv => IndexPointsAtRecords
  BY DEF IInv, AtRest, Consistent, IndexPointsAtRecords
<1>2. QED
  BY <1>1, InvariantHolds, PTL

\* NOT NULL and CHECK (check in writer_constraint.go) hold of every record, whatever
\* was inserted, updated, added, dropped and compacted.
THEOREM RowsKeepConstraints == Spec => []ConstraintsHold
<1>1. IInv => ConstraintsHold
  <2>1. SUFFICES ASSUME IInv, phase # "altering", ~torn,
                        NEW p \in Pages, NEW s \in OccupiedSlots(pages[p])
                 PROVE  ChecksPass(pages[p].records[s])
    BY DEF ConstraintsHold
  <2>2. Consistent(stream, pages, leaf)
    BY <2>1 DEF IInv, AtRest
  <2>3. <<p, s>> \in Places(pages)
    BY DEF OccupiedSlots, Places
  <2>4. PassesIn(stream, pages[p].records[s])
    BY <2>2, <2>3 DEF Consistent, GoodRecord
  <2>5. QED
    BY <2>4, ChecksAreTheSchemas
<1>2. QED
  BY <1>1, InvariantHolds, PTL

\* The counter of an AUTOINC column that is still where the table info file has it is
\* not behind any value inserted (raiseAutoInc, writeAutoIncCounters), through
\* alterations that move columns and compactions that number them anew.
THEOREM CountersStayAhead == Spec => []CountersKeepUp
<1>1. IInv => CountersKeepUp
  <2>1. SUFFICES ASSUME IInv, InPlace, NEW i \in AutoColumns,
                        stream.columns[i].id \in DOMAIN inserted
                 PROVE  info.counters[i] >= inserted[stream.columns[i].id]
    BY DEF CountersKeepUp, CounterKeepsUp
  <2>2. KeepsUp(stream.columns, info.builtFor, info.counters, inserted)
    BY <2>1 DEF IInv, CountersHold
  <2>3. i \in DOMAIN info.builtFor /\ info.builtFor[i] = stream.columns[i]
    BY <2>1 DEF InPlace
  <2>4. QED
    BY <2>1, <2>2, <2>3 DEF KeepsUp, AutoColumns
<1>2. QED
  BY <1>1, InvariantHolds, PTL

\* An alteration that completes (flushPages to its end) leaves every record where it
\* was, with the values of the columns it kept and NULL in the one it added.
THEOREM AlterationsCarryRecords == Spec => AlterationsKeepRecords
<1>1. ASSUME IInv, FinishAlter
      PROVE  LET after == RecordsOf(stream, pages)
             IN  /\ Cardinality(after) = Cardinality(before)
                 /\ \A r \in before : \E q \in after :
                      /\ <<q.page, q.slot>> = <<r.page, r.slot>>
                      /\ \A i \in DOMAIN q.values :
                           q.values[i] = IF i \in DOMAIN r.values THEN r.values[i] ELSE Null
  <2>1. phase = "altering" /\ pending = <<>>
    BY <1>1 DEF FinishAlter
  <2>2. stream = edit.stream /\ pages = edit.pages
    BY <1>1, <2>1, AlterationIsWritten DEF PagePending, SchemaPending
  <2>3. Carried(before, RecordsOf(edit.stream, edit.pages))
    BY <1>1, <2>1, AlteringHolds
  <2>4. QED
    BY <2>2, <2>3 DEF Carried
<1>2. QED
  BY <1>1, InvariantHolds, PTL DEF AlterationsKeepRecords

\* A compaction (copyTableRows) has in the new table the rows of the old one, each
\* at its place in a reader's order and with its values, but for the AUTOINC columns
\* Insert had to number.
THEOREM CompactionsCarryRecords == Spec => CompactionsKeepRecords
<1>1. ASSUME IInv, Compact
      PROVE  SameRecords(InRecordOrder(pages), InRecordOrder(pages'),
                         LAMBDA values, i : i \in Unnumbered(values))
  <2> DEFINE seq == InRecordOrder(pages)
             N == Cardinality(Places(pages))
             copy == CopyOf(seq)
             records == copy.records
  <2>1. copy.accepted /\ pages' = Filled(Renumbered(stream.columns), records) /\ phase = "idle" /\ ~torn
    BY <1>1 DEF Compact, CopyOf
  <2>2. TypesHold /\ Consistent(stream, pages, leaf)
    BY <1>1, <2>1 DEF IInv, AtRest
  <2>3. /\ N \in Nat /\ DOMAIN seq = 1 .. N
        /\ \A n \in 1 .. N : seq[n] \in Seq(Values) /\ Len(seq[n]) = Len(stream.columns)
    BY <1>1, <2>2, RecordsInOrder
  <2>4. MaxSlots \in Nat
    BY <1>1, <2>2, CopiesFindRoom
  <2>5. PICK s : seq = [n \in 1 .. N |-> RecordAt(pages, s[n])]
    BY <2>4, ReadInOrder
  <2> HIDE DEF seq
  <2>6. /\ copy \in Copies /\ Len(records) = N
        /\ \A n \in 1 .. N : \A i \in DOMAIN seq[n] :
             i \in Unnumbered(seq[n]) \/ records[n][i] = seq[n][i]
    <3> HIDE DEF N
    <3>1. QED
      BY ONLY <2>2, <2>3, CopiedRows
  <2> HIDE DEF copy
  <2>7. \A k \in 1 .. N : records[k] # NoRecord
    <3>1. CopyIsGood(copy) /\ DOMAIN records = 1 .. N
      BY <2>1, <2>6 DEF Copies, CopyTypes
    <3>2. IsSchema(stream)
      BY <2>2 DEF TypesHold
    <3>3. Len(stream.columns) # 0
      BY ONLY <3>2, ColumnsOfSchemas
    <3>4. \A k \in 1 .. N : Len(records[k]) = Len(stream.columns)
      BY <3>1 DEF CopyIsGood, GoodRecord
    <3>5. QED
      BY <3>3, <3>4 DEF NoRecord
  <2>8. InRecordOrder(pages') = [n \in 1 .. N |-> records[n]]
    <3> DEFINE cols == Renumbered(stream.columns)
    <3>1. /\ MaxSlots \in Nat /\ RecordsPerPage(cols) \in Nat /\ RecordsPerPage(cols) <= MaxSlots
          /\ N <= Cardinality(Pages) * RecordsPerPage(cols)
      BY <1>1, <2>2, CopiesFindRoom
    <3>2. pages' = Filled(cols, records)
      BY <2>1
    <3> HIDE DEF cols, N, records
    <3>3. Len(records) = N
      BY <2>6 DEF records
    <3>4. \A k \in 1 .. N : records[k] # NoRecord
      BY <2>7
    <3>5. InRecordOrder(Filled(cols, records)) = [n \in 1 .. N |-> records[n]]
      BY ONLY <2>3, <3>1, <3>3, <3>4, FilledInOrder
    <3>6. QED
      BY <3>2, <3>5
  <2> DEFINE read == [n \in 1 .. N |-> records[n]]
             T == {seq[n] : n \in 1 .. N} \cup {records[n] : n \in 1 .. N}
  <2>9. seq = [n \in 1 .. N |-> seq[n]]
    BY <2>5
  <2>10. Len(seq) = N /\ Len(read) = N
    <3>1. seq \in [1 .. N -> T] /\ read \in [1 .. N -> T]
      BY <2>9
    <3> HIDE DEF T, N, read
    <3>2. QED
      BY ONLY <2>3, <3>1, FunctionsAreSequences
  <2>11. \A n \in DOMAIN seq : \A i \in DOMAIN seq[n] :
           i \in Unnumbered(seq[n]) \/ read[n][i] = seq[n][i]
    BY <2>3, <2>6
  <2> HIDE DEF read
  <2>12. QED
    BY <2>8, <2>10, <2>11 DEF SameRecords, seq, read
<1>2. QED
  BY <1>1, InvariantHolds, PTL DEF CompactionsKeepRecords
=============================================================================
