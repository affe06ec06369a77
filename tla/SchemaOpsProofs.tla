-------------------------- MODULE SchemaOpsProofs --------------------------
(***************************************************************************)
(* Who owns which page, proved for SchemaOps.                              *)
(***************************************************************************)
EXTENDS SchemaOps, Extrema

Own == 0 .. DatabasePages - 1

\* What a sound file has of each table: an id already given out, pages of the
\* kind of what leads to them, indexes with a root each, a list of exactly the
\* data pages whose headers name the table, and index entries that point at no
\* others.
TableSound(f, t) ==
  /\ t.id <= f.lastID
  /\ \A p \in t.system : f.kind[p] \in {"system", "rest"}
  /\ f.kind[t.schema] = "schema"
  /\ f.kind[t.info] = "info"
  /\ f.kind[ListRoot(f, t)] = "list"
  /\ \A r \in NamedRoots(f, t) : f.kind[r] \in UserKinds /\ f.refs[r] \subseteq DataPages(f, t)
  /\ \A i, j \in Definitions(f, t) : i.root = j.root => i = j
  /\ ListedPages(f, ListRoot(f, t)) = DataPages(f, t)

\* And of all together: the pages in use are the database's and, each once,
\* those of the tables, which have different ids.
Sound(f) ==
  /\ \A p \in Pages : f.kind[p] = "database" <=> p \in Own
  /\ InUse(f) = f.pfs
  /\ f.pfs = Own \cup UNION {OwnPages(f, t) : t \in f.catalog}
  /\ \A t \in f.catalog : TableSound(f, t)
  /\ \A t, u \in f.catalog : t.id = u.id \/ OwnPages(f, t) \cap OwnPages(f, u) # {} => t = u

SoundInv == TypeOK /\ (intact => Sound(file))

-----------------------------------------------------------------------------
(* The pages of a set in order.                                            *)

\* Nth lists a set of pages, each once.
LEMMA NthLists ==
  ASSUME NEW S, S \subseteq Nat, IsFiniteSet(S)
  PROVE  /\ \A i \in 1 .. Cardinality(S) : Nth(S, i) \in S
         /\ \A i, j \in 1 .. Cardinality(S) : Nth(S, i) = Nth(S, j) => i = j
         /\ \A p \in S : \E i \in 1 .. Cardinality(S) : p = Nth(S, i)
<1> DEFINE n == Cardinality(S)
           Below(p) == {q \in S : q < p}
<1>1. n \in Nat
  BY FS_CardinalityType
<1>2. PICK s \in [1 .. n -> S] : Increasing(s, n)
  BY IncreasingListing
<1>3. \A i, j \in 1 .. n : i < j => s[i] # s[j]
  <2>1. \A i \in 1 .. n : s[i] \in Nat
    BY <1>2
  <2>2. QED
    BY <1>2, <2>1 DEF Increasing
<1>4. \A p \in S : \E i \in 1 .. n : s[i] = p
  BY <1>2, <1>3, ListingsAreOnto
<1>5. s \in Surjection(1 .. n, S)
  BY <1>2, <1>4 DEF Surjection
<1>6. \A j \in 1 .. n : Cardinality(Below(s[j])) = j - 1
  BY <1>2, <1>5, BelowInListing
<1>7. \A i \in 1 .. n : Nth(S, i) \in S /\ Cardinality(Below(Nth(S, i))) = i - 1
  <2>1. SUFFICES ASSUME NEW i \in 1 .. n
                 PROVE  Nth(S, i) \in S /\ Cardinality(Below(Nth(S, i))) = i - 1
    OBVIOUS
  <2>2. s[i] \in S /\ Cardinality(Below(s[i])) = i - 1
    BY <1>2, <1>6
  <2>3. QED
    BY <2>2 DEF Nth
<1> HIDE DEF n, Below
<1>8. ASSUME NEW i \in 1 .. n, NEW j \in 1 .. n, Nth(S, i) = Nth(S, j)
      PROVE  i = j
  <2>1. i - 1 = j - 1
    BY <1>7, <1>8
  <2>2. QED
    BY <1>1, <2>1
<1>9. ASSUME NEW p \in S
      PROVE  \E i \in 1 .. n : p = Nth(S, i)
  <2>1. PICK i \in 1 .. n : s[i] = p
    BY <1>4
  <2>2. PICK j \in 1 .. n : s[j] = Nth(S, i)
    BY <1>4, <1>7
  <2>3. j - 1 = i - 1
    BY <1>6, <1>7, <2>2
  <2>4. i = j
    BY <1>1, <2>3
  <2>5. QED
    BY <2>1, <2>2, <2>4
<1>10. QED
  BY <1>7, <1>8, <1>9 DEF n

\* What is in a set of one element is that element.
LEMMA OneMember ==
  ASSUME NEW S, Cardinality(S) = 1, IsFiniteSet(S), NEW x \in S, NEW y \in S
  PROVE  x = y
<1>1. IsFiniteSet(S \ {x}) /\ Cardinality(S \ {x}) = 0
  BY FS_RemoveElement
<1>2. S \ {x} = {}
  BY <1>1, FS_EmptySet
<1>3. QED
  BY <1>2

\* findFreePages returns free pages of the file.
LEMMA FreePagesAreFree ==
  ASSUME NEW used, NEW n
  PROVE  LET found == FindFreePages(used, MappablePages, n)
         IN  found \subseteq Pages /\ found \cap used = {} /\ IsFiniteSet(found)
<1> DEFINE found == FindFreePages(used, MappablePages, n)
<1>1. found \subseteq Pages /\ found \cap used = {}
  BY DEF FindFreePages, Pages
<1>2. IsFiniteSet(Pages)
  BY PageMapAssumption, FS_Interval DEF Pages
<1>3. IsFiniteSet(found)
  BY <1>1, <1>2, FS_Subset
<1>4. QED
  BY <1>1, <1>3

\* A non-empty set of pages has a first.
LEMMA FirstOfPages ==
  ASSUME NEW S \in SUBSET Pages, S # {}
  PROVE  Min(S) \in S
<1>1. S \subseteq Nat
  BY PageMapAssumption DEF Pages
<1>2. QED
  BY <1>1, MinOfBounded

-----------------------------------------------------------------------------
(* What a file says of its tables.                                         *)

LEMMA FieldTypes ==
  ASSUME NEW f \in Contents
  PROVE  /\ f.catalog \subseteq TableInfos
         /\ f.pfs \subseteq Pages
         /\ f.lastID \in 0 .. MaxObjectID
         /\ f.kind \in [Pages -> Kinds]
         /\ f.freed \in [Pages -> BOOLEAN]
         /\ f.owner \in [Pages -> 0 .. MaxObjectID]
         /\ f.schema \in [Pages -> SchemaStreams]
         /\ f.list \in [Pages -> Seq(ListEntries)]
         /\ f.refs \in [Pages -> SUBSET Pages]
         /\ f.records \in [Pages -> 0 .. SlotsPerPage]
BY DEF Contents

LEMMA TableTypes ==
  ASSUME NEW f \in Contents, NEW t \in f.catalog
  PROVE  /\ t.name \in Names /\ t.id \in 1 .. MaxObjectID
         /\ t.system \subseteq Pages /\ t.schema \in Pages /\ t.info \in Pages
         /\ ListRoot(f, t) \in Pages
         /\ Definitions(f, t) \subseteq IndexRecords
         /\ NamedRoots(f, t) \subseteq Pages
         /\ OwnPages(f, t) \subseteq Pages
<1>1. t \in TableInfos
  BY FieldTypes
<1>2. /\ t.name \in Names /\ t.id \in 1 .. MaxObjectID
      /\ t.system \subseteq Pages /\ t.schema \in Pages /\ t.info \in Pages
  BY <1>1 DEF TableInfos
<1>3. f.schema[t.schema] \in SchemaStreams
  BY <1>2, FieldTypes
<1>4. ListRoot(f, t) \in Pages /\ Definitions(f, t) \subseteq IndexRecords
  BY <1>3 DEF SchemaStreams, ListRoot, Definitions
<1>5. NamedRoots(f, t) \subseteq Pages
  BY <1>4 DEF NamedRoots, IndexRecords
<1>6. ListedPages(f, ListRoot(f, t)) \subseteq Pages
  <2>1. f.list[ListRoot(f, t)] \in Seq(ListEntries)
    BY <1>4, FieldTypes
  <2>2. \A i \in DOMAIN f.list[ListRoot(f, t)] : f.list[ListRoot(f, t)][i] \in ListEntries
    BY <2>1
  <2>3. QED
    BY <2>2 DEF ListedPages, ListEntries
<1>7. QED
  BY <1>2, <1>4, <1>5, <1>6 DEF OwnPages, InternalFiles

\* On a sound file the pages a table owns are in use, none of them is the
\* database's, and a page has one table.
LEMMA OwnedPages ==
  ASSUME NEW f \in Contents, Sound(f), NEW t \in f.catalog
  PROVE  /\ OwnPages(f, t) \subseteq f.pfs
         /\ t.system \subseteq OwnPages(f, t)
         /\ t.schema \in OwnPages(f, t) /\ t.info \in OwnPages(f, t)
         /\ ListRoot(f, t) \in OwnPages(f, t)
         /\ NamedRoots(f, t) \subseteq OwnPages(f, t)
         /\ DataPages(f, t) \subseteq OwnPages(f, t)
         /\ \A p \in OwnPages(f, t) :
              ~f.freed[p] /\ f.kind[p] # "none" /\ f.kind[p] # "database" /\ p \notin Own
         /\ \A u \in f.catalog : OwnPages(f, t) \cap OwnPages(f, u) # {} => u = t
<1>1. OwnPages(f, t) \subseteq f.pfs /\ \A u \in f.catalog : OwnPages(f, t) \cap OwnPages(f, u) # {} => u = t
  BY DEF Sound
<1>2. /\ t.system \subseteq OwnPages(f, t)
      /\ t.schema \in OwnPages(f, t) /\ t.info \in OwnPages(f, t)
      /\ ListRoot(f, t) \in OwnPages(f, t)
      /\ NamedRoots(f, t) \subseteq OwnPages(f, t)
  BY DEF OwnPages, InternalFiles
<1>3. OwnPages(f, t) = InternalFiles(t) \cup {ListRoot(f, t)} \cup NamedRoots(f, t) \cup DataPages(f, t)
  BY DEF Sound, TableSound, OwnPages
<1>4. \A p \in OwnPages(f, t) : ~f.freed[p] /\ f.kind[p] # "none" /\ p \in Pages
  BY <1>1 DEF Sound, InUse
<1>5. \A p \in OwnPages(f, t) : f.kind[p] # "database"
  BY <1>3 DEF Sound, TableSound, InternalFiles, DataPages, UserKinds
<1>6. \A p \in OwnPages(f, t) : p \notin Own
  BY <1>4, <1>5 DEF Sound
<1>7. QED
  BY <1>1, <1>2, <1>3, <1>4, <1>5, <1>6

\* A sound catalog is finite: its tables have different ids, of which there are
\* finitely many.
LEMMA CatalogIsFinite ==
  ASSUME NEW f \in Contents, Sound(f)
  PROVE  IsFiniteSet(f.catalog)
<1> DEFINE idOf == [t \in f.catalog |-> t.id]
<1>1. IsFiniteSet(1 .. MaxObjectID)
  BY SchemaOpsAssumption, FS_Interval
<1>2. idOf \in [f.catalog -> 1 .. MaxObjectID]
  BY TableTypes
<1>3. idOf \in Injection(f.catalog, 1 .. MaxObjectID)
  BY <1>2 DEF Sound, Injection, IsInjective
<1>4. QED
  BY <1>1, <1>3, FS_Injection

\* What leads to a table's pages is its schema stream and its list.
LEMMA SameTable ==
  ASSUME NEW f, NEW g, NEW t,
         g.schema[t.schema] = f.schema[t.schema],
         ListedPages(g, ListRoot(f, t)) = ListedPages(f, ListRoot(f, t))
  PROVE  /\ ListRoot(g, t) = ListRoot(f, t)
         /\ Definitions(g, t) = Definitions(f, t)
         /\ NamedRoots(g, t) = NamedRoots(f, t)
         /\ ListedPages(g, ListRoot(g, t)) = ListedPages(f, ListRoot(f, t))
         /\ OwnPages(g, t) = OwnPages(f, t)
<1>1. ListRoot(g, t) = ListRoot(f, t) /\ Definitions(g, t) = Definitions(f, t)
  BY DEF ListRoot, Definitions
<1>2. NamedRoots(g, t) = NamedRoots(f, t)
  BY <1>1 DEF NamedRoots
<1>3. QED
  BY <1>1, <1>2 DEF OwnPages

LEMMA SameList ==
  ASSUME NEW f, NEW g, NEW r, g.list[r] = f.list[r]
  PROVE  ListedPages(g, r) = ListedPages(f, r)
BY DEF ListedPages

LEMMA SameData ==
  ASSUME NEW f, NEW g, NEW t,
         \A p \in Pages : f.kind[p] = "data" /\ ~f.freed[p] /\ f.owner[p] = t.id
                            <=> g.kind[p] = "data" /\ ~g.freed[p] /\ g.owner[p] = t.id
  PROVE  DataPages(g, t) = DataPages(f, t)
BY DEF DataPages
\* A step that leaves a table's pages and data pages as they are keeps it sound.
LEMMA Untouched ==
  ASSUME NEW f \in Contents, NEW g, Sound(f), NEW t \in f.catalog,
         g.lastID \in Nat, g.lastID >= f.lastID,
         \A p \in OwnPages(f, t) : /\ g.kind[p] = f.kind[p] /\ g.schema[p] = f.schema[p]
                                   /\ g.list[p] = f.list[p] /\ g.refs[p] = f.refs[p],
         DataPages(g, t) = DataPages(f, t)
  PROVE  TableSound(g, t) /\ OwnPages(g, t) = OwnPages(f, t)
<1>1. /\ t.system \subseteq OwnPages(f, t)
      /\ t.schema \in OwnPages(f, t) /\ t.info \in OwnPages(f, t)
      /\ ListRoot(f, t) \in OwnPages(f, t)
      /\ NamedRoots(f, t) \subseteq OwnPages(f, t)
  BY OwnedPages
<1>2. ListedPages(g, ListRoot(f, t)) = ListedPages(f, ListRoot(f, t))
  BY <1>1, SameList
<1>3. /\ ListRoot(g, t) = ListRoot(f, t)
      /\ Definitions(g, t) = Definitions(f, t)
      /\ NamedRoots(g, t) = NamedRoots(f, t)
      /\ ListedPages(g, ListRoot(g, t)) = ListedPages(f, ListRoot(f, t))
      /\ OwnPages(g, t) = OwnPages(f, t)
  BY <1>1, <1>2, SameTable
<1>4. TableSound(f, t)
  BY DEF Sound
<1>5. t.id <= g.lastID
  <2>1. t.id \in 1 .. MaxObjectID
    BY TableTypes
  <2>2. t.id \in Nat /\ f.lastID \in Nat
    BY <2>1, FieldTypes, SchemaOpsAssumption
  <2>3. QED
    BY <1>4, <2>2 DEF TableSound
<1>6. TableSound(g, t)
  BY <1>1, <1>3, <1>4, <1>5 DEF TableSound
<1>7. QED
  BY <1>3, <1>6

-----------------------------------------------------------------------------
(* CREATE TABLE.                                                           *)

LEMMA CreateTableKeepsSound ==
  ASSUME TypeOK, intact, Sound(file), NEW name \in Names, CreateTable(name)
  PROVE  file' \in Contents /\ Sound(file')
<1> DEFINE f == file
           g == file'
           new == FindFreePages(f.pfs, MappablePages, SystemChain + 3)
           chain == {Nth(new, i) : i \in 1 .. SystemChain}
           schema == Nth(new, SystemChain + 1)
           info == Nth(new, SystemChain + 2)
           list == Nth(new, SystemChain + 3)
           kindOf(p) == CASE p = Nth(new, 1) -> "system"
                          [] p \in chain -> "rest"
                          [] p = schema -> "schema"
                          [] p = info -> "info"
                          [] OTHER -> "list"
           id == f.lastID + 1
           t == [name |-> name, id |-> id, system |-> chain, schema |-> schema, info |-> info]
<1>1. f \in Contents
  BY DEF TypeOK
<1>2. /\ Cardinality(new) = SystemChain + 3
      /\ f.lastID + 1 + Columns <= MaxObjectID
      /\ g = [f EXCEPT
                !.catalog = @ \cup {t},
                !.pfs = @ \cup new,
                !.lastID = id + Columns,
                !.kind = [p \in Pages |-> IF p \in new THEN kindOf(p) ELSE @[p]],
                !.freed = [p \in Pages |-> @[p] /\ p \notin new],
                !.owner = [p \in Pages |-> IF p \in new THEN NoOwner ELSE @[p]],
                !.schema[schema] = [list |-> list, indexes |-> {}],
                !.list[list] = <<>>]
  BY DEF CreateTable
<1>3. new \subseteq Pages /\ new \cap f.pfs = {} /\ IsFiniteSet(new)
  BY FreePagesAreFree
<1>4. /\ \A i \in 1 .. SystemChain + 3 : Nth(new, i) \in new
      /\ \A i, j \in 1 .. SystemChain + 3 : Nth(new, i) = Nth(new, j) => i = j
      /\ \A p \in new : \E i \in 1 .. SystemChain + 3 : p = Nth(new, i)
  <2>1. new \subseteq Nat
    BY <1>3, PageMapAssumption DEF Pages
  <2> HIDE DEF new
  <2>2. QED
    BY <1>2, <1>3, <2>1, NthLists
<1>5. SystemChain \in Nat \ {0} /\ Columns \in Nat \ {0} /\ MaxObjectID \in Nat
  BY SchemaOpsAssumption
<1> HIDE DEF new
<1>6. /\ chain \subseteq new /\ schema \in new /\ info \in new /\ list \in new
      /\ schema \notin chain /\ info \notin chain /\ list \notin chain
      /\ schema # info /\ schema # list /\ info # list
      /\ Nth(new, 1) \in chain
      /\ new = chain \cup {schema, info, list}
  <2>1. /\ SystemChain + 1 \in 1 .. SystemChain + 3
        /\ SystemChain + 2 \in 1 .. SystemChain + 3
        /\ SystemChain + 3 \in 1 .. SystemChain + 3
        /\ 1 \in 1 .. SystemChain
        /\ \A i \in 1 .. SystemChain :
             /\ i \in 1 .. SystemChain + 3
             /\ i # SystemChain + 1 /\ i # SystemChain + 2 /\ i # SystemChain + 3
        /\ \A i \in 1 .. SystemChain + 3 :
             \/ i \in 1 .. SystemChain
             \/ i = SystemChain + 1 \/ i = SystemChain + 2 \/ i = SystemChain + 3
    BY <1>5
  <2>2. chain \subseteq new /\ schema \in new /\ info \in new /\ list \in new
    BY <1>4, <2>1
  <2>3. schema \notin chain /\ info \notin chain /\ list \notin chain
    BY <1>4, <2>1
  <2>4. schema # info /\ schema # list /\ info # list
    <3>1. /\ SystemChain + 1 # SystemChain + 2 /\ SystemChain + 1 # SystemChain + 3
          /\ SystemChain + 2 # SystemChain + 3
      BY <1>5
    <3>2. QED
      BY <1>4, <2>1, <3>1
  <2>5. \A p \in new : p \in chain \/ p = schema \/ p = info \/ p = list
    BY <1>4, <2>1
  <2>6. QED
    BY <2>1, <2>2, <2>3, <2>4, <2>5
<1>7. /\ \A p \in new : kindOf(p) \in {"system", "rest", "schema", "info", "list"}
      /\ \A p \in chain : kindOf(p) \in {"system", "rest"}
      /\ kindOf(schema) = "schema" /\ kindOf(info) = "info" /\ kindOf(list) = "list"
  <2>1. /\ Nth(new, 1) # schema /\ Nth(new, 1) # info /\ Nth(new, 1) # list
    BY <1>6
  <2> HIDE DEF chain, schema, info, list
  <2>2. QED
    BY <1>6, <2>1
<1>8. t \in TableInfos /\ id \in 1 .. MaxObjectID /\ id + Columns \in 0 .. MaxObjectID
      /\ id + Columns \in Nat /\ id > f.lastID /\ id + Columns > f.lastID /\ id <= id + Columns
  <2>1. f.lastID \in Nat
    BY <1>1, <1>5, FieldTypes
  <2>2. /\ id \in 1 .. MaxObjectID /\ id + Columns \in 0 .. MaxObjectID
        /\ id + Columns \in Nat /\ id > f.lastID /\ id + Columns > f.lastID /\ id <= id + Columns
    BY <1>2, <1>5, <2>1
  <2> HIDE DEF chain, schema, info, list, id
  <2>3. QED
    BY <1>3, <1>6, <2>2 DEF TableInfos
<1> DEFINE kinds == [p \in Pages |-> IF p \in new THEN kindOf(p) ELSE f.kind[p]]
           last == id + Columns
<1>9. kinds \in [Pages -> Kinds]
  <2>1. f.kind \in [Pages -> Kinds]
    BY <1>1, FieldTypes
  <2> HIDE DEF kindOf, chain, schema, info, list
  <2>2. QED
    BY <1>7, <2>1 DEF Kinds
<1>10. [list |-> list, indexes |-> {}] \in SchemaStreams
  BY <1>3, <1>6 DEF SchemaStreams
<1>11. /\ g.catalog = f.catalog \cup {t} /\ g.pfs = f.pfs \cup new /\ g.lastID = last
       /\ g.kind = kinds
       /\ g.freed = [p \in Pages |-> f.freed[p] /\ p \notin new]
       /\ g.owner = [p \in Pages |-> IF p \in new THEN NoOwner ELSE f.owner[p]]
       /\ g.schema = [f.schema EXCEPT ![schema] = [list |-> list, indexes |-> {}]]
       /\ g.list = [f.list EXCEPT ![list] = <<>>]
       /\ g.refs = f.refs /\ g.records = f.records
       /\ g \in Contents
  <2>1. g = [f EXCEPT
               !.catalog = @ \cup {t},
               !.pfs = @ \cup new,
               !.lastID = last,
               !.kind = kinds,
               !.freed = [p \in Pages |-> @[p] /\ p \notin new],
               !.owner = [p \in Pages |-> IF p \in new THEN NoOwner ELSE @[p]],
               !.schema[schema] = [list |-> list, indexes |-> {}],
               !.list[list] = <<>>]
    BY <1>2
  <2> DEFINE freed == [p \in Pages |-> f.freed[p] /\ p \notin new]
             owner == [p \in Pages |-> IF p \in new THEN NoOwner ELSE f.owner[p]]
             stream == [f.schema EXCEPT ![schema] = [list |-> list, indexes |-> {}]]
             lists == [f.list EXCEPT ![list] = <<>>]
             catalog == f.catalog \cup {t}
             pfs == f.pfs \cup new
  <2>2. g = [f EXCEPT !.catalog = catalog, !.pfs = pfs, !.lastID = last, !.kind = kinds,
                      !.freed = freed, !.owner = owner, !.schema = stream, !.list = lists]
    <3> HIDE DEF kindOf, t, chain, schema, info, list, last, kinds
    <3>1. QED
      BY <1>1, <2>1 DEF Contents
  <2>3. last \in 0 .. MaxObjectID /\ catalog \in SUBSET TableInfos /\ pfs \in SUBSET Pages
    BY <1>1, <1>3, <1>8, FieldTypes
  <2>4. freed \in [Pages -> BOOLEAN]
    OBVIOUS
  <2>5. owner \in [Pages -> 0 .. MaxObjectID]
    BY <1>1, <1>5, FieldTypes DEF NoOwner
  <2>6. stream \in [Pages -> SchemaStreams]
    BY <1>1, <1>10, FieldTypes
  <2>7. lists \in [Pages -> Seq(ListEntries)]
    <3>1. <<>> \in Seq(ListEntries)
      OBVIOUS
    <3>2. QED
      BY <1>1, <3>1, FieldTypes
  <2>8. /\ g.catalog = catalog /\ g.pfs = pfs /\ g.lastID = last /\ g.kind = kinds
        /\ g.freed = freed /\ g.owner = owner /\ g.schema = stream /\ g.list = lists
        /\ g.refs = f.refs /\ g.records = f.records
        /\ g \in Contents
    <3> HIDE DEF f, g, catalog, pfs, last, kinds, freed, owner, stream, lists
    <3>1. QED
      BY <1>1, <1>9, <2>2, <2>3, <2>4, <2>5, <2>6, <2>7 DEF Contents
  <2>9. QED
    BY <2>8
<1>12. \A p \in InUse(f) : p \notin new
  BY <1>3 DEF Sound
<1>13. ASSUME NEW u \in f.catalog
       PROVE  /\ TableSound(g, u) /\ OwnPages(g, u) = OwnPages(f, u)
              /\ OwnPages(g, u) \cap new = {}
              /\ u.id # id
  <2>1. \A p \in OwnPages(f, u) : p \in Pages /\ p \notin new
    BY <1>1, <1>3, OwnedPages, TableTypes
  <2>2. \A p \in OwnPages(f, u) : /\ g.kind[p] = f.kind[p] /\ g.schema[p] = f.schema[p]
                                  /\ g.list[p] = f.list[p] /\ g.refs[p] = f.refs[p]
    <3> HIDE DEF f, g, t, chain, schema, info, list, kindOf, last
    <3>1. QED
      BY <1>1, <1>6, <1>11, <2>1
  <2>3. DataPages(g, u) = DataPages(f, u)
    <3>1. ASSUME NEW p \in Pages
          PROVE  f.kind[p] = "data" /\ ~f.freed[p] /\ f.owner[p] = u.id
                   <=> g.kind[p] = "data" /\ ~g.freed[p] /\ g.owner[p] = u.id
      <4>1. CASE p \in new
        <5>1. g.kind[p] # "data"
          <6> HIDE DEF f, g, t, chain, schema, info, list, kindOf, last
          <6>1. QED
            BY <1>7, <1>11, <4>1
        <5>2. p \notin InUse(f)
          BY <1>12, <4>1
        <5>3. ~(f.kind[p] = "data" /\ ~f.freed[p])
          BY <5>2 DEF InUse
        <5>4. QED
          BY <5>1, <5>3
      <4>2. CASE p \notin new
        <5> HIDE DEF f, g, t, chain, schema, info, list, kindOf, last
        <5>1. QED
          BY <1>11, <4>2
      <4>3. QED
        BY <4>1, <4>2
    <3> HIDE DEF f, g
    <3>2. QED
      BY <3>1, SameData
  <2>4. TableSound(g, u) /\ OwnPages(g, u) = OwnPages(f, u)
    <3>1. f.lastID \in Nat /\ g.lastID \in Nat /\ g.lastID >= f.lastID
      BY <1>1, <1>5, <1>8, <1>11, FieldTypes
    <3> HIDE DEF f, g
    <3>2. QED
      BY <1>1, <2>2, <2>3, <3>1, Untouched DEF f
  <2>5. u.id # id
    <3>1. TableSound(f, u) /\ u.id \in 1 .. MaxObjectID
      BY <1>1, TableTypes DEF Sound
    <3>2. u.id \in Nat /\ f.lastID \in Nat
      BY <1>1, <1>5, <3>1, FieldTypes
    <3>3. QED
      BY <3>1, <3>2 DEF TableSound
  <2>6. QED
    BY <2>1, <2>4, <2>5
<1>14. /\ ListRoot(g, t) = list /\ Definitions(g, t) = {} /\ NamedRoots(g, t) = {}
       /\ ListedPages(g, list) = {} /\ OwnPages(g, t) = new
  <2>1. g.schema[schema] = [list |-> list, indexes |-> {}] /\ g.list[list] = <<>>
    <3> HIDE DEF f, g, t, chain, schema, info, list, kindOf, last
    <3>1. QED
      BY <1>1, <1>3, <1>6, <1>11, FieldTypes
  <2>2. ListRoot(g, t) = list /\ Definitions(g, t) = {}
    BY <2>1 DEF ListRoot, Definitions
  <2>3. NamedRoots(g, t) = {}
    BY <2>2 DEF NamedRoots
  <2>4. ListedPages(g, list) = {}
    BY <2>1 DEF ListedPages
  <2>5. OwnPages(g, t) = chain \cup {schema, info, list}
    BY <2>2, <2>3, <2>4 DEF OwnPages, InternalFiles
  <2>6. QED
    BY <1>6, <2>2, <2>3, <2>4, <2>5
<1>15. DataPages(g, t) = {}
  <2>1. SUFFICES ASSUME NEW p \in Pages, g.kind[p] = "data", ~g.freed[p], g.owner[p] = id
                 PROVE  FALSE
    BY DEF DataPages
  <2>2. p \notin new
    <3> HIDE DEF f, g, t, chain, schema, info, list, kindOf, last
    <3>1. QED
      BY <1>7, <1>11, <2>1
  <2>3. f.kind[p] = "data" /\ ~f.freed[p] /\ f.owner[p] = id
    <3> HIDE DEF f, g, t, chain, schema, info, list, kindOf, last
    <3>1. QED
      BY <1>11, <2>1, <2>2
  <2>4. p \in f.pfs /\ p \notin Own
    BY <2>3 DEF Sound, InUse
  <2>5. PICK u \in f.catalog : p \in OwnPages(f, u)
    BY <2>4 DEF Sound
  <2>6. p \in DataPages(f, u)
    BY <2>3, <2>5 DEF Sound, TableSound, OwnPages, InternalFiles, UserKinds
  <2>7. u.id = id
    BY <2>3, <2>6 DEF DataPages
  <2>8. QED
    BY <1>13, <2>7
<1>16. TableSound(g, t)
  <2>1. t.id = id /\ t.system = chain /\ t.schema = schema /\ t.info = info
    OBVIOUS
  <2>2. id <= g.lastID
    BY <1>8, <1>11
  <2>3. \A p \in new : g.kind[p] = kindOf(p)
    <3> HIDE DEF f, g, t, chain, schema, info, list, kindOf, last
    <3>1. QED
      BY <1>3, <1>11
  <2> HIDE DEF f, g, t, chain, schema, info, list, kindOf, id
  <2>4. QED
    BY <1>6, <1>7, <1>14, <1>15, <2>1, <2>2, <2>3 DEF TableSound
<1>17. \A p \in Pages : g.kind[p] = "database" <=> p \in Own
  <2>1. SUFFICES ASSUME NEW p \in Pages PROVE g.kind[p] = "database" <=> p \in Own
    OBVIOUS
  <2>2. CASE p \in new
    <3>1. g.kind[p] # "database"
      <4> HIDE DEF f, g, t, chain, schema, info, list, kindOf, last
      <4>1. QED
        BY <1>7, <1>11, <2>2
    <3>2. p \notin Own
      BY <1>3, <2>2 DEF Sound
    <3>3. QED
      BY <3>1, <3>2
  <2>3. CASE p \notin new
    <3>1. g.kind[p] = f.kind[p]
      BY <1>11, <2>3
    <3>2. QED
      BY <3>1 DEF Sound
  <2>4. QED
    BY <2>2, <2>3
<1>18. InUse(g) = g.pfs
  <2>1. \A p \in Pages : p \in new => g.kind[p] # "none" /\ ~g.freed[p]
    <3> HIDE DEF f, g, t, chain, schema, info, list, kindOf, last
    <3>1. QED
      BY <1>7, <1>11
  <2>2. \A p \in Pages : p \notin new => g.kind[p] = f.kind[p] /\ g.freed[p] = f.freed[p]
    <3> HIDE DEF f, g, t, chain, schema, info, list, kindOf, last
    <3>1. QED
      BY <1>1, <1>11, FieldTypes
  <2>3. g.pfs = f.pfs \cup new /\ InUse(f) = f.pfs
    BY <1>11 DEF Sound
  <2> HIDE DEF f, g, t, chain, schema, info, list, kindOf, last
  <2>4. QED
    BY <1>3, <2>1, <2>2, <2>3 DEF InUse
<1>19. g.pfs = Own \cup UNION {OwnPages(g, u) : u \in g.catalog}
  <2>1. f.pfs = Own \cup UNION {OwnPages(f, u) : u \in f.catalog}
    BY DEF Sound
  <2>2. g.pfs = f.pfs \cup new /\ g.catalog = f.catalog \cup {t}
    BY <1>11
  <2>3. \A u \in f.catalog : OwnPages(g, u) = OwnPages(f, u)
    BY <1>13
  <2> HIDE DEF f, g, t, chain, schema, info, list, kindOf, last
  <2>4. QED
    BY <1>14, <2>1, <2>2, <2>3
<1>20. ASSUME NEW u \in g.catalog, NEW v \in g.catalog,
              u.id = v.id \/ OwnPages(g, u) \cap OwnPages(g, v) # {}
       PROVE  u = v
  <2>1. t.id = id
    OBVIOUS
  <2>2. g.catalog = f.catalog \cup {t}
    BY <1>11
  <2>3. CASE u \in f.catalog /\ v \in f.catalog
    BY <1>13, <1>20, <2>3 DEF Sound
  <2> HIDE DEF f, g, t, chain, schema, info, list, kindOf, id, last
  <2>4. CASE u = t \/ v = t
    BY <1>13, <1>14, <1>20, <2>1, <2>2, <2>4
  <2>5. QED
    BY <2>2, <2>3, <2>4
<1>21. \A u \in g.catalog : TableSound(g, u)
  BY <1>11, <1>13, <1>16
<1>22. QED
  <2> HIDE DEF f, t, chain, schema, info, list, kindOf, id, last
  <2>1. QED
    BY <1>11, <1>17, <1>18, <1>19, <1>20, <1>21 DEF Sound

-----------------------------------------------------------------------------
(* DROP TABLE.                                                             *)

\* A table's own pages are among those attributed to it.
LEMMA OwnPagesAreClaimed ==
  ASSUME NEW f \in Contents, Sound(f), NEW t \in f.catalog
  PROVE  OwnPages(f, t) \subseteq Claimed(f, t)
<1>1. TableSound(f, t)
  BY DEF Sound
<1>2. NamedRoots(f, t) \subseteq Visible(f, t)
  <2>1. NamedRoots(f, t) \subseteq Roots(f)
    BY <1>1, TableTypes DEF TableSound, Roots, UserKinds
  <2>2. QED
    BY <2>1 DEF Visible
<1>3. QED
  BY <1>1, <1>2 DEF OwnPages, Claimed, TableSound

\* When a drop is accepted, they are all there is: what is claimed is reserved and
\* not the database's, so some table owns it, and no two tables claim it.
LEMMA ClaimsAreOwned ==
  ASSUME NEW f \in Contents, Sound(f), NEW t \in f.catalog, DropAccepted(f, t)
  PROVE  Claimed(f, t) = OwnPages(f, t)
<1>1. OwnPages(f, t) \subseteq Claimed(f, t)
  BY OwnPagesAreClaimed
<1>2. ASSUME NEW p \in Claimed(f, t)
      PROVE  p \in OwnPages(f, t)
  <2>1. p \in f.pfs /\ p \in Pages
    BY <1>2, FieldTypes DEF DropAccepted
  <2>2. f.kind[p] # "database"
    <3>1. TableSound(f, t)
      BY DEF Sound
    <3>2. \A r \in Visible(f, t) : f.kind[r] \in UserKinds \cup {"list"}
      BY DEF Visible, Roots
    <3>3. QED
      BY <1>2, <3>1, <3>2 DEF Claimed, TableSound, InternalFiles, DataPages, UserKinds
  <2>3. p \notin Own
    BY <2>1, <2>2 DEF Sound
  <2>4. PICK u \in f.catalog : p \in OwnPages(f, u)
    BY <2>1, <2>3 DEF Sound
  <2>5. p \in Claimed(f, u)
    BY <2>4, OwnPagesAreClaimed
  <2>6. u.id = t.id
    BY <1>2, <2>5 DEF DropAccepted, ClaimedOnce
  <2>7. u = t
    BY <2>6 DEF Sound
  <2>8. QED
    BY <2>4, <2>7
<1>3. QED
  BY <1>1, <1>2

LEMMA ReleasedFields ==
  ASSUME NEW f \in Contents, NEW S
  PROVE  LET g == Released(f, S)
         IN  /\ g \in Contents
             /\ g.pfs = f.pfs \ S
             /\ g.freed = [p \in Pages |-> f.freed[p] \/ p \in S]
             /\ g.catalog = f.catalog /\ g.lastID = f.lastID /\ g.kind = f.kind
             /\ g.owner = f.owner /\ g.schema = f.schema /\ g.list = f.list
             /\ g.refs = f.refs /\ g.records = f.records
<1> DEFINE freed == [p \in Pages |-> f.freed[p] \/ p \in S]
           pfs == f.pfs \ S
           g == Released(f, S)
<1>1. g = [f EXCEPT !.pfs = pfs, !.freed = freed]
  BY DEF Released, Contents
<1>2. pfs \in SUBSET Pages /\ freed \in [Pages -> BOOLEAN]
  BY FieldTypes
<1> HIDE DEF freed, pfs
<1>3. /\ g \in Contents /\ g.pfs = pfs /\ g.freed = freed
      /\ g.catalog = f.catalog /\ g.lastID = f.lastID /\ g.kind = f.kind
      /\ g.owner = f.owner /\ g.schema = f.schema /\ g.list = f.list
      /\ g.refs = f.refs /\ g.records = f.records
  <2> HIDE DEF g
  <2>1. QED
    BY <1>1, <1>2 DEF Contents
<1>4. QED
  BY <1>3 DEF freed, pfs

LEMMA DropTableKeepsSound ==
  ASSUME TypeOK, Sound(file), NEW t \in file.catalog, DropTable(t)
  PROVE  /\ file' \in Contents /\ Sound(file')
         /\ file'.catalog = file.catalog \ {t}
         /\ file'.pfs = file.pfs \ OwnPages(file, t)
         /\ \A u \in file'.catalog : OwnPages(file', u) = OwnPages(file, u)
<1> DEFINE f == file
           g == file'
           gone == OwnPages(f, t)
<1>1. f \in Contents
  BY DEF TypeOK
<1>2. Claimed(f, t) = gone
  BY <1>1, ClaimsAreOwned DEF DropTable
<1>3. g = [Released(f, gone) EXCEPT !.catalog = @ \ {t}]
  BY <1>2 DEF DropTable
<1>4. /\ g \in Contents
      /\ g.catalog = f.catalog \ {t} /\ g.pfs = f.pfs \ gone
      /\ g.freed = [p \in Pages |-> f.freed[p] \/ p \in gone]
      /\ g.lastID = f.lastID /\ g.kind = f.kind
      /\ g.owner = f.owner /\ g.schema = f.schema /\ g.list = f.list
      /\ g.refs = f.refs /\ g.records = f.records
  <2> DEFINE h == Released(f, gone)
             freed == [p \in Pages |-> f.freed[p] \/ p \in gone]
             catalog == f.catalog \ {t}
  <2>1. /\ h \in Contents
        /\ h.pfs = f.pfs \ gone
        /\ h.freed = freed
        /\ h.catalog = f.catalog /\ h.lastID = f.lastID /\ h.kind = f.kind
        /\ h.owner = f.owner /\ h.schema = f.schema /\ h.list = f.list
        /\ h.refs = f.refs /\ h.records = f.records
    BY <1>1, ReleasedFields
  <2>2. catalog \in SUBSET TableInfos
    BY <1>1, FieldTypes
  <2> HIDE DEF h, freed
  <2>3. g = [h EXCEPT !.catalog = catalog]
    BY <1>3, <2>1 DEF h, Contents
  <2> HIDE DEF f, g, gone, catalog
  <2>4. /\ g \in Contents
        /\ g.catalog = catalog /\ g.pfs = f.pfs \ gone /\ g.freed = freed
        /\ g.lastID = f.lastID /\ g.kind = f.kind
        /\ g.owner = f.owner /\ g.schema = f.schema /\ g.list = f.list
        /\ g.refs = f.refs /\ g.records = f.records
    BY <2>1, <2>2, <2>3 DEF Contents
  <2>5. QED
    BY <2>4 DEF freed, catalog
<1>5. ASSUME NEW u \in f.catalog, u # t
      PROVE  TableSound(g, u) /\ OwnPages(g, u) = OwnPages(f, u) /\ OwnPages(f, u) \cap gone = {}
  <2>1. OwnPages(f, u) \cap gone = {}
    BY <1>5 DEF Sound
  <2>2. DataPages(f, u) \subseteq OwnPages(f, u)
    BY <1>1, OwnedPages
  <2>3. \A p \in Pages : f.kind[p] = "data" /\ ~f.freed[p] /\ f.owner[p] = u.id
                           <=> g.kind[p] = "data" /\ ~g.freed[p] /\ g.owner[p] = u.id
    <3> HIDE DEF f, g, gone
    <3>1. QED
      BY <1>4, <2>1, <2>2 DEF DataPages
  <2> HIDE DEF gone, g
  <2>4. DataPages(g, u) = DataPages(f, u)
    BY <2>3, SameData
  <2>5. g.lastID \in Nat /\ g.lastID >= f.lastID
    BY <1>1, <1>4, FieldTypes, SchemaOpsAssumption
  <2>6. QED
    BY <1>1, <1>4, <2>1, <2>4, <2>5, Untouched
<1>6. InUse(g) = g.pfs
  <2>1. InUse(f) = f.pfs
    BY DEF Sound
  <2> HIDE DEF f, g, gone
  <2>2. QED
    BY <1>1, <1>4, <2>1, FieldTypes DEF InUse
<1>7. g.pfs = Own \cup UNION {OwnPages(g, u) : u \in g.catalog}
  <2>1. f.pfs = Own \cup UNION {OwnPages(f, u) : u \in f.catalog}
    BY DEF Sound
  <2>2. gone \cap Own = {}
    BY <1>1, OwnedPages
  <2>3. \A u \in g.catalog : OwnPages(g, u) = OwnPages(f, u) /\ OwnPages(f, u) \cap gone = {}
    BY <1>4, <1>5
  <2>4. \A u \in f.catalog : u \in g.catalog \/ u = t
    BY <1>4
  <2>5. \A u \in g.catalog : u \in f.catalog
    BY <1>4
  <2>6. g.pfs = f.pfs \ gone /\ gone = OwnPages(f, t)
    BY <1>4
  <2> HIDE DEF f, g, gone
  <2>7. QED
    BY <2>1, <2>2, <2>3, <2>4, <2>5, <2>6
<1>8. Sound(g)
  <2>1. \A u \in g.catalog : u \in f.catalog /\ TableSound(g, u) /\ OwnPages(g, u) = OwnPages(f, u)
    BY <1>4, <1>5
  <2> HIDE DEF gone, g
  <2>2. QED
    BY <1>4, <1>6, <1>7, <2>1 DEF Sound
<1>9. QED
  BY <1>4, <1>5, <1>8

-----------------------------------------------------------------------------
(* CREATE INDEX and DROP INDEX.                                            *)

LEMMA CreateIndexKeepsSound ==
  ASSUME TypeOK, Sound(file), NEW t \in file.catalog, NEW name \in IndexNames, NEW unique \in BOOLEAN,
         NEW kind \in UserKinds, CreateIndex(t, name, unique, kind)
  PROVE  file' \in Contents /\ Sound(file') /\ file'.catalog = file.catalog
<1> DEFINE f == file
           g == file'
           found == FindFreePages(f.pfs, MappablePages, 1)
           root == Nth(found, 1)
           id == f.lastID + 1
           last == f.lastID + IDsTakenByIndex(unique)
           record == [name |-> name, id |-> id, root |-> root,
                      constraint |-> IF unique THEN id + 1 ELSE NoID]
           points == {p \in DataPages(f, t) : f.records[p] > 0}
<1>1. f \in Contents
  BY DEF TypeOK
<1>2. root \in Pages /\ root \notin f.pfs
  <2>1. found \subseteq Pages /\ found \cap f.pfs = {} /\ IsFiniteSet(found)
    BY FreePagesAreFree
  <2>2. found # {}
    BY DEF CreateIndex
  <2>3. found \subseteq Nat
    BY <2>1, PageMapAssumption DEF Pages
  <2> HIDE DEF found
  <2>4. Cardinality(found) \in Nat /\ Cardinality(found) # 0
    BY <2>1, <2>2, FS_CardinalityType, FS_EmptySet
  <2>5. 1 \in 1 .. Cardinality(found)
    BY <2>4
  <2>6. root \in found
    BY <2>1, <2>3, <2>5, NthLists
  <2>7. QED
    BY <2>1, <2>6
<1> HIDE DEF root, found
<1>3. /\ f.lastID \in Nat /\ MaxObjectID \in Nat /\ last \in 0 .. MaxObjectID /\ last \in Nat
      /\ last >= f.lastID
      /\ id \in 1 .. MaxObjectID
      /\ (IF unique THEN id + 1 ELSE NoID) \in 0 .. MaxObjectID
  <2>1. f.lastID \in Nat /\ MaxObjectID \in Nat
    BY <1>1, FieldTypes, SchemaOpsAssumption
  <2>2. last <= MaxObjectID
    BY DEF CreateIndex
  <2>3. last = f.lastID + (IF unique THEN 2 ELSE 1)
    BY DEF IDsTakenByIndex
  <2> HIDE DEF f, last
  <2>4. QED
    BY <2>1, <2>2, <2>3 DEF NoID
<1>4. record \in IndexRecords
  BY <1>2, <1>3 DEF IndexRecords
<1>5. t.schema \in Pages /\ Definitions(f, t) \subseteq IndexRecords /\ ListRoot(f, t) \in Pages
  BY <1>1, TableTypes
<1> DEFINE stream == [list |-> ListRoot(f, t), indexes |-> Definitions(f, t) \cup {record}]
<1>6. stream \in SchemaStreams
  BY <1>4, <1>5 DEF SchemaStreams
<1>7. points \subseteq Pages
  BY DEF DataPages
<1>8. /\ g \in Contents
      /\ g.catalog = f.catalog /\ g.pfs = f.pfs \cup {root} /\ g.lastID = last
      /\ g.kind = [f.kind EXCEPT ![root] = kind]
      /\ g.freed = [f.freed EXCEPT ![root] = FALSE]
      /\ g.owner = [f.owner EXCEPT ![root] = NoOwner]
      /\ g.refs = [f.refs EXCEPT ![root] = points]
      /\ g.schema = [f.schema EXCEPT ![t.schema] = stream]
      /\ g.list = f.list /\ g.records = f.records
  <2>1. g = [f EXCEPT
               !.pfs = @ \cup {root}, !.lastID = last, !.kind[root] = kind,
               !.freed[root] = FALSE, !.owner[root] = NoOwner, !.refs[root] = points,
               !.schema[t.schema].indexes = @ \cup {record}]
    BY DEF CreateIndex, root, found
  <2>2. f.schema[t.schema] \in SchemaStreams
    BY <1>1, <1>5, FieldTypes
  <2>3. [f.schema[t.schema] EXCEPT !.indexes = @ \cup {record}] = stream
    <3>1. f.schema[t.schema].list = ListRoot(f, t) /\ f.schema[t.schema].indexes = Definitions(f, t)
      BY DEF ListRoot, Definitions
    <3> HIDE DEF record, f
    <3>2. QED
      BY <2>2, <3>1 DEF SchemaStreams
  <2> DEFINE schema == [f.schema EXCEPT ![t.schema] = stream]
             pfs == f.pfs \cup {root}
             kinds == [f.kind EXCEPT ![root] = kind]
             freed == [f.freed EXCEPT ![root] = FALSE]
             owner == [f.owner EXCEPT ![root] = NoOwner]
             refs == [f.refs EXCEPT ![root] = points]
  <2>4. /\ schema \in [Pages -> SchemaStreams] /\ pfs \in SUBSET Pages
        /\ kinds \in [Pages -> Kinds] /\ freed \in [Pages -> BOOLEAN]
        /\ owner \in [Pages -> 0 .. MaxObjectID] /\ refs \in [Pages -> SUBSET Pages]
    <3> HIDE DEF f, stream, points
    <3>1. 0 \in 0 .. MaxObjectID
      BY <1>3
    <3>2. QED
      BY <1>1, <1>2, <1>6, <1>7, <3>1, FieldTypes DEF Kinds, UserKinds, NoOwner
  <2>5. g = [f EXCEPT !.pfs = pfs, !.lastID = last, !.kind = kinds, !.freed = freed,
                      !.owner = owner, !.refs = refs, !.schema = schema]
    <3> HIDE DEF f, g, record, points, last, stream
    <3>1. QED
      BY <1>1, <2>1, <2>3 DEF Contents
  <2> HIDE DEF f, g, pfs, last, kinds, freed, owner, refs, schema
  <2>6. /\ g \in Contents
        /\ g.catalog = f.catalog /\ g.pfs = pfs /\ g.lastID = last /\ g.kind = kinds
        /\ g.freed = freed /\ g.owner = owner /\ g.refs = refs /\ g.schema = schema
        /\ g.list = f.list /\ g.records = f.records
    BY <1>1, <1>3, <2>4, <2>5 DEF Contents
  <2>7. QED
    BY <2>6 DEF pfs, kinds, freed, owner, refs, schema
<1>9. root \notin InUse(f) /\ f.pfs = InUse(f)
  BY <1>2 DEF Sound
<1>10. /\ g.kind[root] = kind /\ ~g.freed[root] /\ g.refs[root] = points
       /\ \A p \in Pages \ {root} : /\ g.kind[p] = f.kind[p] /\ g.freed[p] = f.freed[p]
                                    /\ g.owner[p] = f.owner[p] /\ g.refs[p] = f.refs[p]
       /\ g.schema[t.schema] = stream
       /\ \A p \in Pages \ {t.schema} : g.schema[p] = f.schema[p]
  <2>1. /\ f.kind \in [Pages -> Kinds] /\ f.freed \in [Pages -> BOOLEAN]
        /\ f.owner \in [Pages -> 0 .. MaxObjectID] /\ f.refs \in [Pages -> SUBSET Pages]
        /\ f.schema \in [Pages -> SchemaStreams]
    BY <1>1, FieldTypes
  <2> HIDE DEF f, g, stream, points
  <2>2. /\ g.kind[root] = kind /\ ~g.freed[root] /\ g.refs[root] = points
        /\ g.schema[t.schema] = stream
    BY <1>2, <1>5, <1>8, <2>1
  <2>3. \A p \in Pages \ {root} : /\ g.kind[p] = f.kind[p] /\ g.freed[p] = f.freed[p]
                                   /\ g.owner[p] = f.owner[p] /\ g.refs[p] = f.refs[p]
    BY <1>8, <2>1
  <2>4. \A p \in Pages \ {t.schema} : g.schema[p] = f.schema[p]
    BY <1>8, <2>1
  <2>5. QED
    BY <2>2, <2>3, <2>4
<1>11. \A u \in f.catalog : DataPages(g, u) = DataPages(f, u)
  <2>1. SUFFICES ASSUME NEW u \in f.catalog, NEW p \in Pages
                 PROVE  f.kind[p] = "data" /\ ~f.freed[p] /\ f.owner[p] = u.id
                          <=> g.kind[p] = "data" /\ ~g.freed[p] /\ g.owner[p] = u.id
    <3> HIDE DEF f, g
    <3>1. QED
      BY SameData
  <2>2. QED
    BY <1>9, <1>10 DEF InUse, UserKinds
<1>12. g.lastID \in Nat /\ g.lastID >= f.lastID
  BY <1>3, <1>8
<1>13. ASSUME NEW u \in f.catalog, u # t
       PROVE  TableSound(g, u) /\ OwnPages(g, u) = OwnPages(f, u)
  <2>1. \A p \in OwnPages(f, u) : p \in Pages /\ p # root /\ p # t.schema
    <3>1. t.schema \in OwnPages(f, t) /\ OwnPages(f, u) \cap OwnPages(f, t) = {}
      BY <1>1, <1>13, OwnedPages
    <3>2. OwnPages(f, u) \subseteq f.pfs /\ OwnPages(f, u) \subseteq Pages
      BY <1>1, OwnedPages, TableTypes
    <3>3. QED
      BY <1>2, <3>1, <3>2
  <2>2. \A p \in OwnPages(f, u) : /\ g.kind[p] = f.kind[p] /\ g.schema[p] = f.schema[p]
                                  /\ g.list[p] = f.list[p] /\ g.refs[p] = f.refs[p]
    BY <1>8, <1>10, <2>1
  <2> HIDE DEF g
  <2>3. QED
    BY <1>1, <1>11, <1>12, <2>2, Untouched
<1>14. /\ ListRoot(g, t) = ListRoot(f, t)
       /\ Definitions(g, t) = Definitions(f, t) \cup {record}
       /\ NamedRoots(g, t) = NamedRoots(f, t) \cup {root}
       /\ ListedPages(g, ListRoot(g, t)) = ListedPages(f, ListRoot(f, t))
       /\ OwnPages(g, t) = OwnPages(f, t) \cup {root}
  <2>1. ListRoot(g, t) = ListRoot(f, t) /\ Definitions(g, t) = Definitions(f, t) \cup {record}
    BY <1>10 DEF ListRoot, Definitions
  <2>2. NamedRoots(g, t) = NamedRoots(f, t) \cup {root}
    <3>1. record.root = root
      OBVIOUS
    <3> HIDE DEF f, g, record
    <3>2. QED
      BY <2>1, <3>1 DEF NamedRoots
  <2>3. ListedPages(g, ListRoot(g, t)) = ListedPages(f, ListRoot(f, t))
    BY <1>8, <2>1, SameList
  <2>4. QED
    BY <2>1, <2>2, <2>3 DEF OwnPages
<1>15. \A p \in OwnPages(f, t) : p \in Pages \ {root}
  BY <1>1, <1>2, OwnedPages, TableTypes
<1>16. TableSound(g, t)
  <2>1. TableSound(f, t)
    BY DEF Sound
  <2>2. t.id <= g.lastID
    <3>1. t.id \in Nat /\ t.id <= f.lastID
      BY <1>1, <2>1, TableTypes DEF TableSound
    <3>2. QED
      BY <1>3, <1>12, <3>1
  <2>3. /\ t.system \subseteq OwnPages(f, t)
        /\ t.schema \in OwnPages(f, t) /\ t.info \in OwnPages(f, t)
        /\ ListRoot(f, t) \in OwnPages(f, t)
        /\ NamedRoots(f, t) \subseteq OwnPages(f, t)
    BY <1>1, OwnedPages
  <2>4. \A p \in OwnPages(f, t) : g.kind[p] = f.kind[p] /\ g.refs[p] = f.refs[p]
    BY <1>10, <1>15
  <2>5. \A r \in NamedRoots(g, t) : g.kind[r] \in UserKinds /\ g.refs[r] \subseteq DataPages(g, t)
    <3>1. points \subseteq DataPages(g, t)
      BY <1>11
    <3> HIDE DEF f, g, points
    <3>2. QED
      BY <1>10, <1>11, <1>14, <2>1, <2>3, <2>4, <3>1 DEF TableSound, f
  <2>6. \A i, j \in Definitions(g, t) : i.root = j.root => i = j
    <3>1. \A i \in Definitions(f, t) : i.root # root
      BY <1>15, <2>3 DEF NamedRoots
    <3>2. record.root = root
      OBVIOUS
    <3> HIDE DEF f, g, record
    <3>3. QED
      BY <1>14, <2>1, <3>1, <3>2 DEF TableSound
  <2>7. ListedPages(g, ListRoot(g, t)) = DataPages(g, t)
    BY <1>11, <1>14, <2>1 DEF TableSound
  <2> HIDE DEF f, g
  <2>8. QED
    BY <1>14, <2>1, <2>2, <2>3, <2>4, <2>5, <2>6, <2>7 DEF TableSound
<1>17. \A p \in Pages : g.kind[p] = "database" <=> p \in Own
  <2>1. root \notin Own
    BY <1>2 DEF Sound
  <2>2. \A p \in Pages : f.kind[p] = "database" <=> p \in Own
    BY DEF Sound
  <2> HIDE DEF f, g
  <2>3. QED
    BY <1>10, <2>1, <2>2 DEF UserKinds
<1>18. InUse(g) = g.pfs
  <2>1. \A p \in Pages : p # root => (p \in InUse(g) <=> p \in InUse(f))
    BY <1>10 DEF InUse
  <2>2. root \in InUse(g)
    BY <1>2, <1>10 DEF InUse, UserKinds
  <2>3. InUse(g) \subseteq Pages /\ f.pfs \subseteq Pages
    BY <1>1, FieldTypes DEF InUse
  <2>4. QED
    BY <1>2, <1>8, <1>9, <2>1, <2>2, <2>3
<1>19. g.pfs = Own \cup UNION {OwnPages(g, u) : u \in g.catalog}
  <2>1. f.pfs = Own \cup UNION {OwnPages(f, u) : u \in f.catalog}
    BY DEF Sound
  <2>2. g.catalog = f.catalog /\ g.pfs = f.pfs \cup {root}
    BY <1>8
  <2> HIDE DEF f, g
  <2>3. QED
    BY <1>13, <1>14, <2>1, <2>2 DEF f
<1>20. ASSUME NEW u \in g.catalog, NEW v \in g.catalog,
              u.id = v.id \/ OwnPages(g, u) \cap OwnPages(g, v) # {}
       PROVE  u = v
  <2>1. g.catalog = f.catalog
    BY <1>8
  <2>2. \A w \in f.catalog : root \notin OwnPages(f, w)
    BY <1>1, <1>2, OwnedPages
  <2>3. u.id = v.id \/ OwnPages(f, u) \cap OwnPages(f, v) # {}
    BY <1>13, <1>14, <1>20, <2>1, <2>2
  <2>4. QED
    BY <2>1, <2>3 DEF Sound
<1>21. \A u \in g.catalog : TableSound(g, u)
  BY <1>8, <1>13, <1>16
<1>22. QED
  <2>1. Sound(g)
    <3> HIDE DEF f, g
    <3>1. QED
      BY <1>8, <1>17, <1>18, <1>19, <1>20, <1>21 DEF Sound
  <2>2. QED
    BY <1>8, <2>1

LEMMA DropIndexKeepsSound ==
  ASSUME TypeOK, Sound(file), NEW t \in file.catalog, NEW i \in Definitions(file, t), DropIndex(t, i)
  PROVE  file' \in Contents /\ Sound(file') /\ file'.catalog = file.catalog
<1> DEFINE f == file
           g == file'
           root == i.root
           stream == [list |-> ListRoot(f, t), indexes |-> Definitions(f, t) \ {i}]
<1>1. f \in Contents
  BY DEF TypeOK
<1>2. root \in Pages /\ root \in NamedRoots(f, t) /\ root \in OwnPages(f, t)
  BY <1>1, OwnedPages, TableTypes DEF NamedRoots
<1>3. t.schema \in Pages /\ Definitions(f, t) \subseteq IndexRecords /\ ListRoot(f, t) \in Pages
  BY <1>1, TableTypes
<1>4. stream \in SchemaStreams
  BY <1>3 DEF SchemaStreams
<1>5. f.kind[root] \in UserKinds /\ TableSound(f, t)
  BY <1>2 DEF Sound, TableSound
<1>6. /\ g \in Contents
      /\ g.catalog = f.catalog /\ g.pfs = f.pfs \ {root} /\ g.lastID = f.lastID
      /\ g.kind = f.kind /\ g.owner = f.owner /\ g.refs = f.refs /\ g.records = f.records
      /\ g.list = f.list
      /\ g.freed = [p \in Pages |-> f.freed[p] \/ p \in {root}]
      /\ g.schema = [f.schema EXCEPT ![t.schema] = stream]
  <2> DEFINE h == Released(f, {root})
             freed == [p \in Pages |-> f.freed[p] \/ p \in {root}]
             pfs == f.pfs \ {root}
             schema == [f.schema EXCEPT ![t.schema] = stream]
  <2>1. g = [h EXCEPT !.schema[t.schema].indexes = @ \ {i}]
    BY DEF DropIndex, IndexDropped
  <2>2. /\ h \in Contents /\ h.pfs = pfs /\ h.freed = freed
        /\ h.catalog = f.catalog /\ h.lastID = f.lastID /\ h.kind = f.kind
        /\ h.owner = f.owner /\ h.schema = f.schema /\ h.list = f.list
        /\ h.refs = f.refs /\ h.records = f.records
    BY <1>1, ReleasedFields
  <2>3. f.schema[t.schema] \in SchemaStreams
    BY <1>1, <1>3, FieldTypes
  <2>4. [f.schema[t.schema] EXCEPT !.indexes = @ \ {i}] = stream
    <3>1. f.schema[t.schema].list = ListRoot(f, t) /\ f.schema[t.schema].indexes = Definitions(f, t)
      BY DEF ListRoot, Definitions
    <3> HIDE DEF f
    <3>2. QED
      BY <2>3, <3>1 DEF SchemaStreams
  <2>5. schema \in [Pages -> SchemaStreams]
    BY <1>1, <1>4, FieldTypes
  <2>6. g = [h EXCEPT !.schema = schema]
    <3> HIDE DEF f, g, h, stream, freed, pfs
    <3>1. QED
      BY <2>1, <2>2, <2>4 DEF Contents
  <2> HIDE DEF f, g, h, freed, pfs, schema
  <2>7. /\ g \in Contents
        /\ g.catalog = f.catalog /\ g.pfs = pfs /\ g.lastID = f.lastID
        /\ g.kind = f.kind /\ g.owner = f.owner /\ g.refs = f.refs /\ g.records = f.records
        /\ g.list = f.list /\ g.freed = freed /\ g.schema = schema
    BY <2>2, <2>5, <2>6 DEF Contents
  <2>8. QED
    BY <2>7 DEF freed, pfs, schema
<1>7. /\ g.freed[root]
      /\ \A p \in Pages \ {root} : g.freed[p] = f.freed[p]
      /\ g.schema[t.schema] = stream
      /\ \A p \in Pages \ {t.schema} : g.schema[p] = f.schema[p]
  <2> HIDE DEF f, g, stream, root
  <2>1. QED
    BY <1>1, <1>2, <1>3, <1>6, FieldTypes
<1>8. \A u \in f.catalog : DataPages(g, u) = DataPages(f, u)
  <2>1. SUFFICES ASSUME NEW u \in f.catalog, NEW p \in Pages
                 PROVE  f.kind[p] = "data" /\ ~f.freed[p] /\ f.owner[p] = u.id
                          <=> g.kind[p] = "data" /\ ~g.freed[p] /\ g.owner[p] = u.id
    <3> HIDE DEF f, g
    <3>1. QED
      BY SameData
  <2>2. QED
    BY <1>5, <1>6, <1>7 DEF UserKinds
<1>9. g.lastID \in Nat /\ g.lastID >= f.lastID
  BY <1>1, <1>6, FieldTypes, SchemaOpsAssumption
<1>10. ASSUME NEW u \in f.catalog, u # t
       PROVE  TableSound(g, u) /\ OwnPages(g, u) = OwnPages(f, u) /\ root \notin OwnPages(f, u)
  <2>1. OwnPages(f, u) \cap OwnPages(f, t) = {} /\ t.schema \in OwnPages(f, t)
    BY <1>1, <1>10, OwnedPages
  <2>2. OwnPages(f, u) \subseteq Pages
    BY <1>1, TableTypes
  <2>3. \A p \in OwnPages(f, u) : /\ g.kind[p] = f.kind[p] /\ g.schema[p] = f.schema[p]
                                  /\ g.list[p] = f.list[p] /\ g.refs[p] = f.refs[p]
    BY <1>6, <1>7, <2>1, <2>2
  <2> HIDE DEF g, root
  <2>4. QED
    BY <1>1, <1>2, <1>8, <1>9, <2>1, <2>3, Untouched
<1>11. /\ ListRoot(g, t) = ListRoot(f, t)
       /\ Definitions(g, t) = Definitions(f, t) \ {i}
       /\ NamedRoots(g, t) = NamedRoots(f, t) \ {root}
       /\ ListedPages(g, ListRoot(g, t)) = ListedPages(f, ListRoot(f, t))
       /\ OwnPages(g, t) = OwnPages(f, t) \ {root}
  <2>1. ListRoot(g, t) = ListRoot(f, t) /\ Definitions(g, t) = Definitions(f, t) \ {i}
    BY <1>7 DEF ListRoot, Definitions
  <2>2. \A j \in Definitions(f, t) : j.root = root => j = i
    BY <1>5 DEF TableSound
  <2>3. NamedRoots(g, t) = NamedRoots(f, t) \ {root}
    <3> HIDE DEF f, g
    <3>1. QED
      BY <2>1, <2>2 DEF NamedRoots
  <2>4. ListedPages(g, ListRoot(g, t)) = ListedPages(f, ListRoot(f, t))
    BY <1>6, <2>1, SameList
  <2>5. /\ root \notin InternalFiles(t) /\ root # ListRoot(f, t)
        /\ root \notin ListedPages(f, ListRoot(f, t))
    BY <1>5 DEF TableSound, InternalFiles, DataPages, UserKinds
  <2> HIDE DEF f, g, root
  <2>6. QED
    BY <2>1, <2>3, <2>4, <2>5 DEF OwnPages
<1>12. TableSound(g, t)
  <2>1. t.id <= g.lastID
    BY <1>5, <1>6 DEF TableSound
  <2>2. \A r \in NamedRoots(g, t) : g.kind[r] \in UserKinds /\ g.refs[r] \subseteq DataPages(g, t)
    BY <1>5, <1>6, <1>8, <1>11 DEF TableSound
  <2>3. \A j, k \in Definitions(g, t) : j.root = k.root => j = k
    BY <1>5, <1>11 DEF TableSound
  <2>4. ListedPages(g, ListRoot(g, t)) = DataPages(g, t)
    BY <1>5, <1>8, <1>11 DEF TableSound
  <2> HIDE DEF f, g
  <2>5. QED
    BY <1>5, <1>6, <1>11, <2>1, <2>2, <2>3, <2>4 DEF TableSound
<1>13. \A p \in Pages : g.kind[p] = "database" <=> p \in Own
  BY <1>6 DEF Sound
<1>14. InUse(g) = g.pfs
  <2>1. InUse(f) = f.pfs /\ f.pfs \subseteq Pages
    BY <1>1, FieldTypes DEF Sound
  <2> HIDE DEF f, g, root
  <2>2. QED
    BY <1>6, <1>7, <2>1 DEF InUse
<1>15. g.pfs = Own \cup UNION {OwnPages(g, u) : u \in g.catalog}
  <2>1. f.pfs = Own \cup UNION {OwnPages(f, u) : u \in f.catalog} /\ root \notin Own
    BY <1>1, <1>2, OwnedPages DEF Sound
  <2>2. g.catalog = f.catalog /\ g.pfs = f.pfs \ {root}
    BY <1>6
  <2>3. \A u \in f.catalog : OwnPages(g, u) = OwnPages(f, u) \ {root}
    BY <1>10, <1>11
  <2> HIDE DEF f, g, root
  <2>4. QED
    BY <2>1, <2>2, <2>3
<1>16. ASSUME NEW u \in g.catalog, NEW v \in g.catalog,
              u.id = v.id \/ OwnPages(g, u) \cap OwnPages(g, v) # {}
       PROVE  u = v
  <2>1. g.catalog = f.catalog
    BY <1>6
  <2>2. u.id = v.id \/ OwnPages(f, u) \cap OwnPages(f, v) # {}
    BY <1>10, <1>11, <1>16, <2>1
  <2>3. QED
    BY <2>1, <2>2 DEF Sound
<1>17. \A u \in g.catalog : TableSound(g, u)
  BY <1>6, <1>10, <1>12
<1>18. QED
  <2>1. Sound(g)
    <3> HIDE DEF f, g
    <3>1. QED
      BY <1>13, <1>14, <1>15, <1>16, <1>17 DEF Sound
  <2>2. QED
    BY <1>6, <2>1

-----------------------------------------------------------------------------
(* A record writer.                                                        *)

\* A commit changes counts, never which pages a list has.
LEMMA CommittedFields ==
  ASSUME NEW f \in Contents, NEW t \in f.catalog, NEW p \in Pages, NEW n \in 0 .. SlotsPerPage,
         MatchingLists(f, t) # {}
  PROVE  LET g == Committed(f, t, p, n)
             l == Min(MatchingLists(f, t))
         IN  /\ l \in Pages
             /\ g \in Contents
             /\ g.catalog = f.catalog /\ g.pfs = f.pfs /\ g.lastID = f.lastID
             /\ g.kind = f.kind /\ g.owner = f.owner /\ g.schema = f.schema
             /\ g.freed = [f.freed EXCEPT ![l] = FALSE]
             /\ \A r \in Pages : ListedPages(g, r) = ListedPages(f, r)
             /\ \A r \in Pages : \/ g.refs[r] \subseteq f.refs[r]
                                 \/ r \in NamedRoots(f, t) /\ g.refs[r] \subseteq f.refs[r] \cup {p}
<1> DEFINE g == Committed(f, t, p, n)
           l == Min(MatchingLists(f, t))
           before == f.list[l]
           after == [i \in DOMAIN before |-> IF before[i].page = p THEN [before[i] EXCEPT !.count = n]
                                             ELSE before[i]]
           records == [f.records EXCEPT ![p] = n]
           lists == [f.list EXCEPT ![l] = after]
           freed == [f.freed EXCEPT ![l] = FALSE]
           refs == [r \in Pages |-> IF r \notin NamedRoots(f, t) THEN f.refs[r]
                                    ELSE IF n > 0 THEN f.refs[r] \cup {p} ELSE f.refs[r] \ {p}]
<1>1. l \in Pages
  <2>1. MatchingLists(f, t) \in SUBSET Pages
    BY DEF MatchingLists, Visible, Roots
  <2>2. QED
    BY <2>1, FirstOfPages
<1>2. before \in Seq(ListEntries)
  BY <1>1, FieldTypes
<1> HIDE DEF l
<1>3. /\ after \in Seq(ListEntries) /\ DOMAIN after = DOMAIN before
      /\ \A i \in DOMAIN before : after[i].page = before[i].page
  <2> DEFINE len == Len(before)
  <2>1. len \in Nat /\ DOMAIN before = 1 .. len /\ \A i \in 1 .. len : before[i] \in ListEntries
    BY <1>2
  <2> HIDE DEF before, len
  <2>2. \A i \in 1 .. len : after[i] \in ListEntries /\ after[i].page = before[i].page
    BY <2>1 DEF ListEntries
  <2>3. DOMAIN after = 1 .. len
    BY <2>1
  <2>4. after = [i \in 1 .. len |-> after[i]]
    BY <2>1
  <2> HIDE DEF after
  <2>5. after \in [1 .. len -> ListEntries]
    BY <2>2, <2>4
  <2>6. after \in Seq(ListEntries)
    BY <2>1, <2>5
  <2>7. QED
    BY <2>1, <2>2, <2>3, <2>6
<1> HIDE DEF after
<1>4. lists \in [Pages -> Seq(ListEntries)]
  BY <1>3, FieldTypes
<1>5. /\ records \in [Pages -> 0 .. SlotsPerPage] /\ freed \in [Pages -> BOOLEAN]
      /\ refs \in [Pages -> SUBSET Pages]
  BY FieldTypes
<1>6. g = [f EXCEPT !.records = records, !.list = lists, !.freed = freed, !.refs = refs]
  BY DEF Committed, Contents, l, after
<1>7. /\ g \in Contents
      /\ g.catalog = f.catalog /\ g.pfs = f.pfs /\ g.lastID = f.lastID
      /\ g.kind = f.kind /\ g.owner = f.owner /\ g.schema = f.schema
      /\ g.freed = freed /\ g.list = lists /\ g.refs = refs
  <2> HIDE DEF g, records, lists, freed, refs
  <2>1. QED
    BY <1>4, <1>5, <1>6 DEF Contents
<1>8. ASSUME NEW r \in Pages
      PROVE  ListedPages(g, r) = ListedPages(f, r)
  <2>1. CASE r = l
    <3>1. g.list[r] = after /\ f.list[r] = before
      BY <1>1, <1>7, <2>1, FieldTypes
    <3> HIDE DEF g, before
    <3>2. QED
      BY <1>3, <3>1 DEF ListedPages
  <2>2. CASE r # l
    <3>1. g.list[r] = f.list[r]
      BY <1>7, <2>2, FieldTypes
    <3>2. QED
      BY <3>1, SameList
  <2>3. QED
    BY <2>1, <2>2
<1>9. \A r \in Pages : \/ g.refs[r] \subseteq f.refs[r]
                       \/ r \in NamedRoots(f, t) /\ g.refs[r] \subseteq f.refs[r] \cup {p}
  <2> HIDE DEF g
  <2>1. QED
    BY <1>7
<1>10. QED
  BY <1>1, <1>7, <1>8, <1>9 DEF l

\* A commit that recounts the table's own list keeps a file sound.
LEMMA RecountKeepsSound ==
  ASSUME NEW f \in Contents, Sound(f), NEW t \in f.catalog, NEW p \in DataPages(f, t),
         NEW g \in Contents,
         g.catalog = f.catalog, g.pfs = f.pfs, g.lastID = f.lastID,
         g.kind = f.kind, g.owner = f.owner, g.schema = f.schema,
         g.freed = [f.freed EXCEPT ![ListRoot(f, t)] = FALSE],
         \A r \in Pages : ListedPages(g, r) = ListedPages(f, r),
         \A r \in Pages : \/ g.refs[r] \subseteq f.refs[r]
                          \/ r \in NamedRoots(f, t) /\ g.refs[r] \subseteq f.refs[r] \cup {p}
  PROVE  Sound(g)
<1>1. g.freed = f.freed
  <2>1. ~f.freed[ListRoot(f, t)] /\ ListRoot(f, t) \in Pages
    BY OwnedPages, TableTypes
  <2> DEFINE freed == f.freed
             l == ListRoot(f, t)
  <2>2. freed \in [Pages -> BOOLEAN] /\ l \in Pages /\ ~freed[l] /\ g.freed = [freed EXCEPT ![l] = FALSE]
    BY <2>1, FieldTypes
  <2> HIDE DEF freed, l
  <2>3. freed[l] = FALSE
    BY <2>2
  <2>4. g.freed = freed
    BY <2>2, <2>3
  <2>5. QED
    BY <2>4 DEF freed
<1>2. ASSUME NEW u \in f.catalog
      PROVE  TableSound(g, u) /\ OwnPages(g, u) = OwnPages(f, u)
  <2>1. /\ ListRoot(g, u) = ListRoot(f, u)
        /\ Definitions(g, u) = Definitions(f, u)
        /\ NamedRoots(g, u) = NamedRoots(f, u)
        /\ ListedPages(g, ListRoot(g, u)) = ListedPages(f, ListRoot(f, u))
        /\ OwnPages(g, u) = OwnPages(f, u)
    BY TableTypes, SameTable
  <2>2. DataPages(g, u) = DataPages(f, u)
    BY <1>1 DEF DataPages
  <2>3. TableSound(f, u)
    BY DEF Sound
  <2>4. ASSUME NEW r \in NamedRoots(f, u)
        PROVE  g.refs[r] \subseteq DataPages(f, u)
    <3>1. f.refs[r] \subseteq DataPages(f, u) /\ r \in Pages
      BY <2>3, TableTypes DEF TableSound
    <3>2. r \in NamedRoots(f, t) => u = t
      BY <2>4, OwnedPages
    <3>3. QED
      BY <3>1, <3>2
  <2>5. TableSound(g, u)
    BY <2>1, <2>2, <2>3, <2>4 DEF TableSound
  <2>6. QED
    BY <2>1, <2>5
<1>3. InUse(g) = g.pfs
  BY <1>1 DEF InUse, Sound
<1>4. QED
  BY <1>2, <1>3 DEF Sound

\* So do records added to or removed from a page the table has.
LEMMA CommitKeepsSound ==
  ASSUME TypeOK, Sound(file), NEW t \in file.catalog, NEW p \in DataPages(file, t),
         NEW n \in 0 .. SlotsPerPage, CommitAccepted(file, t, p),
         file' = Committed(file, t, p, n), intact' = FindsOwnList(file, t)
  PROVE  file' \in Contents /\ (intact' => Sound(file')) /\ file'.catalog = file.catalog
<1> DEFINE l == Min(MatchingLists(file, t))
           g == Committed(file, t, p, n)
<1>1. file \in Contents /\ p \in Pages /\ MatchingLists(file, t) # {}
  BY DEF TypeOK, DataPages, CommitAccepted
<1>2. /\ l \in Pages
      /\ g \in Contents
      /\ g.catalog = file.catalog /\ g.pfs = file.pfs /\ g.lastID = file.lastID
      /\ g.kind = file.kind /\ g.owner = file.owner /\ g.schema = file.schema
      /\ g.freed = [file.freed EXCEPT ![l] = FALSE]
      /\ \A r \in Pages : ListedPages(g, r) = ListedPages(file, r)
      /\ \A r \in Pages : \/ g.refs[r] \subseteq file.refs[r]
                          \/ r \in NamedRoots(file, t) /\ g.refs[r] \subseteq file.refs[r] \cup {p}
  BY <1>1, CommittedFields
<1>3. intact' => l = ListRoot(file, t)
  BY DEF FindsOwnList
<1> HIDE DEF l, g
<1>4. l = ListRoot(file, t) => Sound(g)
  BY <1>1, <1>2, RecountKeepsSound
<1>5. QED
  BY <1>2, <1>3, <1>4 DEF g

LEMMA GrownFields ==
  ASSUME NEW f \in Contents, NEW t \in f.catalog, NEW p \in Pages
  PROVE  LET g == Grown(f, t, p)
             entries == Append(f.list[ListRoot(f, t)], [page |-> p, count |-> 0])
         IN  /\ g \in Contents
             /\ g.catalog = f.catalog /\ g.pfs = f.pfs /\ g.lastID = f.lastID
             /\ g.kind = [f.kind EXCEPT ![p] = "data"]
             /\ g.freed = [f.freed EXCEPT ![p] = FALSE]
             /\ g.owner = [f.owner EXCEPT ![p] = t.id]
             /\ g.list = [f.list EXCEPT ![ListRoot(f, t)] = entries]
             /\ g.schema = f.schema /\ g.refs = f.refs /\ g.records = f.records
<1> DEFINE g == Grown(f, t, p)
           entries == Append(f.list[ListRoot(f, t)], [page |-> p, count |-> 0])
           kind == [f.kind EXCEPT ![p] = "data"]
           freed == [f.freed EXCEPT ![p] = FALSE]
           owner == [f.owner EXCEPT ![p] = t.id]
           list == [f.list EXCEPT ![ListRoot(f, t)] = entries]
<1>1. ListRoot(f, t) \in Pages /\ t.id \in 0 .. MaxObjectID
  BY TableTypes, SchemaOpsAssumption
<1>2. entries \in Seq(ListEntries)
  <2>1. f.list[ListRoot(f, t)] \in Seq(ListEntries)
    BY <1>1, FieldTypes
  <2>2. [page |-> p, count |-> 0] \in ListEntries
    BY SchemaOpsAssumption DEF ListEntries
  <2>3. QED
    BY <2>1, <2>2
<1>3. /\ kind \in [Pages -> Kinds] /\ freed \in [Pages -> BOOLEAN]
      /\ owner \in [Pages -> 0 .. MaxObjectID] /\ list \in [Pages -> Seq(ListEntries)]
  BY <1>1, <1>2, FieldTypes DEF Kinds
<1>4. g = [f EXCEPT !.kind = kind, !.freed = freed, !.owner = owner, !.list = list]
  BY DEF Grown, Contents
<1>5. /\ g \in Contents
      /\ g.catalog = f.catalog /\ g.pfs = f.pfs /\ g.lastID = f.lastID
      /\ g.kind = kind /\ g.freed = freed /\ g.owner = owner /\ g.list = list
      /\ g.schema = f.schema /\ g.refs = f.refs /\ g.records = f.records
  <2> HIDE DEF g, kind, freed, owner, list
  <2>1. QED
    BY <1>3, <1>4 DEF Contents
<1>6. QED
  BY <1>5

LEMMA WithPfs ==
  ASSUME NEW f \in Contents, NEW p \in Pages
  PROVE  LET g == [f EXCEPT !.pfs = @ \cup {p}]
         IN  /\ g \in Contents
             /\ g.pfs = f.pfs \cup {p}
             /\ g.catalog = f.catalog /\ g.lastID = f.lastID /\ g.kind = f.kind /\ g.freed = f.freed
             /\ g.owner = f.owner /\ g.schema = f.schema /\ g.list = f.list
             /\ g.refs = f.refs /\ g.records = f.records
<1> DEFINE pfs == f.pfs \cup {p}
           g == [f EXCEPT !.pfs = @ \cup {p}]
<1>1. pfs \in SUBSET Pages
  BY FieldTypes
<1>2. g = [f EXCEPT !.pfs = pfs]
  OBVIOUS
<1> HIDE DEF g, pfs
<1>3. /\ g \in Contents /\ g.pfs = pfs
      /\ g.catalog = f.catalog /\ g.lastID = f.lastID /\ g.kind = f.kind /\ g.freed = f.freed
      /\ g.owner = f.owner /\ g.schema = f.schema /\ g.list = f.list
      /\ g.refs = f.refs /\ g.records = f.records
  BY <1>1, <1>2 DEF Contents
<1>4. QED
  BY <1>3 DEF g, pfs

\* A page more in a table, reserved, listed and with a header that names it.
LEMMA GrowthKeepsSound ==
  ASSUME NEW f \in Contents, Sound(f), NEW t \in f.catalog, NEW p \in Pages, p \notin f.pfs,
         NEW g \in Contents,
         g.catalog = f.catalog, g.pfs = f.pfs \cup {p}, g.lastID = f.lastID,
         g.kind = [f.kind EXCEPT ![p] = "data"],
         g.freed = [f.freed EXCEPT ![p] = FALSE],
         g.owner = [f.owner EXCEPT ![p] = t.id],
         g.list = [f.list EXCEPT ![ListRoot(f, t)] =
                     Append(f.list[ListRoot(f, t)], [page |-> p, count |-> 0])],
         g.schema = f.schema, g.refs = f.refs
  PROVE  Sound(g) /\ p \in DataPages(g, t)
<1>1. /\ g.kind[p] = "data" /\ ~g.freed[p] /\ g.owner[p] = t.id
      /\ \A q \in Pages \ {p} : /\ g.kind[q] = f.kind[q] /\ g.freed[q] = f.freed[q]
                                /\ g.owner[q] = f.owner[q]
      /\ \A r \in Pages \ {ListRoot(f, t)} : g.list[r] = f.list[r]
  BY FieldTypes
<1>2. p \notin InUse(f) /\ InUse(f) = f.pfs
  BY DEF Sound
<1>3. ASSUME NEW u \in f.catalog, u # t
      PROVE  TableSound(g, u) /\ OwnPages(g, u) = OwnPages(f, u)
  <2>1. u.id # t.id
    BY <1>3 DEF Sound
  <2>2. \A q \in Pages : f.kind[q] = "data" /\ ~f.freed[q] /\ f.owner[q] = u.id
                           <=> g.kind[q] = "data" /\ ~g.freed[q] /\ g.owner[q] = u.id
    BY <1>1, <1>2, <2>1 DEF InUse
  <2>3. DataPages(g, u) = DataPages(f, u)
    BY ONLY <2>2, SameData
  <2>4. ListRoot(f, t) \notin OwnPages(f, u)
    BY <1>3, OwnedPages
  <2>5. p \notin OwnPages(f, u) /\ OwnPages(f, u) \subseteq Pages
    BY OwnedPages, TableTypes
  <2>6. \A q \in OwnPages(f, u) : /\ g.kind[q] = f.kind[q] /\ g.schema[q] = f.schema[q]
                                  /\ g.list[q] = f.list[q] /\ g.refs[q] = f.refs[q]
    BY <1>1, <2>4, <2>5
  <2>7. g.lastID \in Nat /\ g.lastID >= f.lastID
    BY FieldTypes, SchemaOpsAssumption
  <2>8. QED
    BY <2>3, <2>6, <2>7, Untouched
<1>4. DataPages(g, t) = DataPages(f, t) \cup {p}
  BY <1>1 DEF DataPages
<1>5. /\ ListRoot(g, t) = ListRoot(f, t)
      /\ Definitions(g, t) = Definitions(f, t)
      /\ NamedRoots(g, t) = NamedRoots(f, t)
  BY DEF ListRoot, Definitions, NamedRoots
<1>6. ListedPages(g, ListRoot(f, t)) = ListedPages(f, ListRoot(f, t)) \cup {p}
  <2> DEFINE before == f.list[ListRoot(f, t)]
             after == g.list[ListRoot(f, t)]
             n == Len(before)
  <2>1. ListRoot(f, t) \in Pages
    BY TableTypes
  <2>2. before \in Seq(ListEntries) /\ after = Append(before, [page |-> p, count |-> 0])
    BY <2>1, FieldTypes
  <2> HIDE DEF before, after
  <2>3. /\ n \in Nat /\ DOMAIN before = 1 .. n /\ DOMAIN after = 1 .. n + 1
        /\ \A i \in 1 .. n : after[i] = before[i]
        /\ after[n + 1] = [page |-> p, count |-> 0]
    BY <2>2
  <2>4. after[n + 1].page = p
    BY <2>3
  <2> HIDE DEF n
  <2>5. \A i \in 1 .. n + 1 : i \in 1 .. n \/ i = n + 1
    BY <2>3
  <2>6. n + 1 \in 1 .. n + 1 /\ \A i \in 1 .. n : i \in 1 .. n + 1
    BY <2>3
  <2>7. {after[i].page : i \in DOMAIN after} = {before[i].page : i \in DOMAIN before} \cup {p}
    BY <2>3, <2>4, <2>5, <2>6
  <2>8. QED
    BY <2>7 DEF ListedPages, before, after
<1>7. OwnPages(g, t) = OwnPages(f, t) \cup {p}
  BY <1>5, <1>6 DEF OwnPages
<1>8. \A q \in OwnPages(f, t) : g.kind[q] = f.kind[q]
  BY <1>1, OwnedPages, TableTypes
<1>9. TableSound(g, t)
  <2>1. TableSound(f, t)
    BY DEF Sound
  <2>2. /\ t.system \subseteq OwnPages(f, t)
        /\ t.schema \in OwnPages(f, t) /\ t.info \in OwnPages(f, t)
        /\ ListRoot(f, t) \in OwnPages(f, t)
        /\ NamedRoots(f, t) \subseteq OwnPages(f, t)
    BY OwnedPages
  <2>3. QED
    BY <1>4, <1>5, <1>6, <1>8, <2>1, <2>2 DEF TableSound
<1>10. \A q \in Pages : g.kind[q] = "database" <=> q \in Own
  <2>1. p \notin Own /\ \A q \in Pages : f.kind[q] = "database" <=> q \in Own
    BY DEF Sound
  <2>2. QED
    BY <1>1, <2>1
<1>11. InUse(g) = g.pfs
  <2>1. f.pfs \subseteq Pages
    BY FieldTypes
  <2>2. QED
    BY <1>1, <1>2, <2>1 DEF InUse
<1>12. \A u \in g.catalog : OwnPages(g, u) = IF u = t THEN OwnPages(f, t) \cup {p} ELSE OwnPages(f, u)
  BY <1>3, <1>7
<1>13. g.pfs = Own \cup UNION {OwnPages(g, u) : u \in g.catalog}
  <2>1. f.pfs = Own \cup UNION {OwnPages(f, u) : u \in f.catalog}
    BY DEF Sound
  <2>2. QED
    BY <1>12, <2>1
<1>14. ASSUME NEW u \in g.catalog, NEW v \in g.catalog,
              u.id = v.id \/ OwnPages(g, u) \cap OwnPages(g, v) # {}
       PROVE  u = v
  <2>1. \A w \in f.catalog : p \notin OwnPages(f, w)
    BY OwnedPages
  <2>2. u.id = v.id \/ OwnPages(f, u) \cap OwnPages(f, v) # {} \/ u = v
    BY <1>12, <1>14, <2>1
  <2>3. QED
    BY <2>2 DEF Sound
<1>15. \A u \in g.catalog : TableSound(g, u)
  BY <1>3, <1>9
<1>16. QED
  BY <1>4, <1>10, <1>11, <1>13, <1>14, <1>15 DEF Sound

LEMMA InsertGrowingKeepsSound ==
  ASSUME TypeOK, Sound(file), NEW t \in file.catalog, NEW k \in Batches, NEW p \in NextFreePage,
         InsertGrowing(t, p, k)
  PROVE  file' \in Contents /\ (intact' => Sound(file')) /\ file'.catalog = file.catalog
<1> DEFINE h == Grown(file, t, p)
           c == Committed(h, t, p, k)
           f == [h EXCEPT !.pfs = @ \cup {p}]
           g == [c EXCEPT !.pfs = @ \cup {p}]
           l == Min(MatchingLists(h, t))
<1>1. file \in Contents /\ p \in Pages /\ p \notin file.pfs
  BY FreePagesAreFree DEF TypeOK, NextFreePage
<1>2. k \in 0 .. SlotsPerPage
  BY SchemaOpsAssumption
<1>3. MatchingLists(h, t) # {} /\ file' = g /\ intact' = FindsOwnList(h, t)
  BY DEF InsertGrowing, GrowthCommits, CommitAccepted
<1>4. /\ h \in Contents
      /\ h.catalog = file.catalog /\ h.pfs = file.pfs /\ h.lastID = file.lastID
      /\ h.kind = [file.kind EXCEPT ![p] = "data"]
      /\ h.freed = [file.freed EXCEPT ![p] = FALSE]
      /\ h.owner = [file.owner EXCEPT ![p] = t.id]
      /\ h.list = [file.list EXCEPT ![ListRoot(file, t)] =
                     Append(file.list[ListRoot(file, t)], [page |-> p, count |-> 0])]
      /\ h.schema = file.schema /\ h.refs = file.refs /\ h.records = file.records
  BY <1>1, GrownFields
<1>5. /\ l \in Pages
      /\ c \in Contents
      /\ c.catalog = h.catalog /\ c.pfs = h.pfs /\ c.lastID = h.lastID
      /\ c.kind = h.kind /\ c.owner = h.owner /\ c.schema = h.schema
      /\ c.freed = [h.freed EXCEPT ![l] = FALSE]
      /\ \A r \in Pages : ListedPages(c, r) = ListedPages(h, r)
      /\ \A r \in Pages : \/ c.refs[r] \subseteq h.refs[r]
                          \/ r \in NamedRoots(h, t) /\ c.refs[r] \subseteq h.refs[r] \cup {p}
  <2>1. t \in h.catalog
    BY <1>4
  <2> HIDE DEF h
  <2>2. QED
    BY <1>1, <1>2, <1>3, <1>4, <2>1, CommittedFields
<1>6. intact' => l = ListRoot(h, t)
  BY <1>3 DEF FindsOwnList
<1> HIDE DEF h, c, l
<1>7. /\ f \in Contents
      /\ f.pfs = h.pfs \cup {p}
      /\ f.catalog = h.catalog /\ f.lastID = h.lastID /\ f.kind = h.kind /\ f.freed = h.freed
      /\ f.owner = h.owner /\ f.schema = h.schema /\ f.list = h.list
      /\ f.refs = h.refs /\ f.records = h.records
  BY <1>1, <1>4, WithPfs
<1>8. /\ g \in Contents
      /\ g.pfs = c.pfs \cup {p}
      /\ g.catalog = c.catalog /\ g.lastID = c.lastID /\ g.kind = c.kind /\ g.freed = c.freed
      /\ g.owner = c.owner /\ g.schema = c.schema /\ g.list = c.list
      /\ g.refs = c.refs /\ g.records = c.records
  BY <1>1, <1>5, WithPfs
<1> HIDE DEF f, g
<1>9. Sound(f) /\ p \in DataPages(f, t)
  BY <1>1, <1>4, <1>7, GrowthKeepsSound
<1>10. ListRoot(f, t) = ListRoot(h, t) /\ NamedRoots(f, t) = NamedRoots(h, t)
  BY <1>7 DEF ListRoot, NamedRoots, Definitions
<1>11. \A r \in Pages : ListedPages(g, r) = ListedPages(f, r)
  <2>1. SUFFICES ASSUME NEW r \in Pages PROVE ListedPages(g, r) = ListedPages(f, r)
    OBVIOUS
  <2>2. ListedPages(g, r) = ListedPages(c, r)
    BY <1>8, SameList
  <2>3. ListedPages(f, r) = ListedPages(h, r)
    BY <1>7, SameList
  <2>4. QED
    BY <1>5, <2>2, <2>3
<1>12. l = ListRoot(h, t) => Sound(g)
  <2>1. SUFFICES ASSUME l = ListRoot(h, t) PROVE Sound(g)
    OBVIOUS
  <2>2. g.freed = [f.freed EXCEPT ![ListRoot(f, t)] = FALSE]
    BY <1>5, <1>7, <1>8, <1>10, <2>1
  <2>3. \A r \in Pages : \/ g.refs[r] \subseteq f.refs[r]
                         \/ r \in NamedRoots(f, t) /\ g.refs[r] \subseteq f.refs[r] \cup {p}
    BY <1>5, <1>7, <1>8, <1>10
  <2>4. t \in f.catalog
    BY <1>4, <1>7
  <2>5. /\ g.catalog = f.catalog /\ g.pfs = f.pfs /\ g.lastID = f.lastID
        /\ g.kind = f.kind /\ g.owner = f.owner /\ g.schema = f.schema
    BY <1>5, <1>7, <1>8
  <2>6. QED
    BY <1>7, <1>8, <1>9, <1>11, <2>2, <2>3, <2>4, <2>5, RecountKeepsSound
<1>13. QED
  BY <1>3, <1>4, <1>5, <1>6, <1>8, <1>12

-----------------------------------------------------------------------------
(* All steps together.                                                     *)

LEMMA InitIsSound == Init => SoundInv
<1> SUFFICES ASSUME Init PROVE SoundInv
  OBVIOUS
<1>1. DatabasePages \in Nat /\ MappablePages \in Nat /\ DatabasePages <= MappablePages
      /\ MaxObjectID \in Nat /\ SlotsPerPage \in Nat
  BY SchemaOpsAssumption, PageMapAssumption
<1>2. Own \subseteq Pages /\ \A p \in Pages : p < DatabasePages <=> p \in Own
  BY <1>1 DEF Own, Pages
<1>3. /\ file.catalog = {} /\ file.pfs = Own /\ file.lastID = 0
      /\ file.kind = [p \in Pages |-> IF p < DatabasePages THEN "database" ELSE "none"]
      /\ file.freed = [p \in Pages |-> FALSE]
      /\ intact = TRUE
  BY DEF Init, Own
<1>4. file \in Contents
  <2>1. /\ [p \in Pages |-> IF p < DatabasePages THEN "database" ELSE "none"] \in [Pages -> Kinds]
        /\ [p \in Pages |-> FALSE] \in [Pages -> BOOLEAN]
        /\ [p \in Pages |-> NoOwner] \in [Pages -> 0 .. MaxObjectID]
        /\ [p \in Pages |-> {}] \in [Pages -> SUBSET Pages]
        /\ [p \in Pages |-> 0] \in [Pages -> 0 .. SlotsPerPage]
    BY <1>1 DEF Kinds, NoOwner
  <2>2. [p \in Pages |-> NoSchema] \in [Pages -> SchemaStreams]
    <3>1. 0 \in Pages
      BY SchemaOpsAssumption, PageMapAssumption DEF Pages
    <3>2. NoSchema \in SchemaStreams
      BY <3>1 DEF NoSchema, SchemaStreams, NoPage
    <3>3. QED
      BY <3>2
  <2>3. [p \in Pages |-> <<>>] \in [Pages -> Seq(ListEntries)]
    <3>1. <<>> \in Seq(ListEntries)
      OBVIOUS
    <3>2. QED
      BY <3>1
  <2>4. {} \in SUBSET TableInfos /\ Own \in SUBSET Pages /\ 0 \in 0 .. MaxObjectID
    BY <1>1, <1>2
  <2>5. QED
    BY <2>1, <2>2, <2>3, <2>4 DEF Init, Contents, Own
<1>5. Sound(file)
  <2>1. InUse(file) = Own
    BY <1>2, <1>3 DEF InUse
  <2>2. \A p \in Pages : file.kind[p] = "database" <=> p \in Own
    BY <1>2, <1>3
  <2>3. QED
    BY <1>3, <2>1, <2>2 DEF Sound
<1>6. QED
  BY <1>3, <1>4, <1>5 DEF SoundInv, TypeOK

\* What becomes of the file in a step: a drop aside, no table leaves the catalog.
LEMMA StepsKeepSound ==
  ASSUME SoundInv, [Next]_vars
  PROVE  /\ SoundInv'
         /\ \/ file.catalog \subseteq file'.catalog
            \/ \E t \in file.catalog : intact /\ DropTable(t)
<1>1. TypeOK /\ (intact => Sound(file)) /\ file \in Contents
  BY DEF SoundInv, TypeOK
<1>2. ASSUME NEW name \in Names, CreateTable(name)
      PROVE  /\ file' \in Contents /\ Sound(file') /\ intact' \in BOOLEAN
             /\ file.catalog \subseteq file'.catalog
  <2>1. intact /\ intact' = intact
    BY <1>2 DEF CreateTable
  <2>2. file' \in Contents /\ Sound(file')
    BY <1>1, <1>2, <2>1, CreateTableKeepsSound
  <2>3. file.catalog \subseteq file'.catalog
    BY <1>1, <1>2 DEF CreateTable, Contents
  <2>4. QED
    BY <1>1, <2>1, <2>2, <2>3 DEF TypeOK
<1>3. ASSUME NEW t \in file.catalog, DropTable(t)
      PROVE  file' \in Contents /\ Sound(file') /\ intact' \in BOOLEAN /\ intact
  BY <1>1, <1>3, DropTableKeepsSound DEF DropTable, TypeOK
<1>4. ASSUME NEW t \in file.catalog, NEW name \in IndexNames, NEW unique \in BOOLEAN,
             NEW kind \in UserKinds, CreateIndex(t, name, unique, kind)
      PROVE  /\ file' \in Contents /\ Sound(file') /\ intact' \in BOOLEAN
             /\ file'.catalog = file.catalog
  BY <1>1, <1>4, CreateIndexKeepsSound DEF CreateIndex, TypeOK
<1>5. ASSUME NEW t \in file.catalog, NEW i \in Definitions(file, t), DropIndex(t, i)
      PROVE  /\ file' \in Contents /\ Sound(file') /\ intact' \in BOOLEAN
             /\ file'.catalog = file.catalog
  BY <1>1, <1>5, DropIndexKeepsSound DEF DropIndex, TypeOK
<1>6. ASSUME NEW t \in file.catalog, NEW k \in Batches, InsertRows(t, k)
      PROVE  /\ file' \in Contents /\ (intact' => Sound(file')) /\ intact' \in BOOLEAN
             /\ file'.catalog = file.catalog
  <2> DEFINE p == Min(RoomyPages(file, t))
             n == file.records[p] + k
  <2>1. /\ intact /\ RoomyPages(file, t) # {}
        /\ n <= SlotsPerPage
        /\ CommitAccepted(file, t, p)
        /\ file' = Committed(file, t, p, n)
        /\ intact' = FindsOwnList(file, t)
    BY <1>6 DEF InsertRows
  <2>2. p \in DataPages(file, t)
    <3>1. RoomyPages(file, t) \in SUBSET Pages
      BY DEF RoomyPages, DataPages
    <3>2. p \in RoomyPages(file, t)
      BY <2>1, <3>1, FirstOfPages
    <3>3. QED
      BY <3>2 DEF RoomyPages
  <2> HIDE DEF p
  <2>3. n \in 0 .. SlotsPerPage
    <3>1. p \in Pages
      BY <2>2 DEF DataPages
    <3>2. file.records[p] \in 0 .. SlotsPerPage
      BY <1>1, <3>1, FieldTypes
    <3>3. SlotsPerPage \in Nat /\ k \in 1 .. SlotsPerPage
      BY SchemaOpsAssumption
    <3>4. QED
      BY <2>1, <3>2, <3>3
  <2> HIDE DEF n
  <2>4. QED
    BY <1>1, <2>1, <2>2, <2>3, CommitKeepsSound DEF FindsOwnList
<1>7. ASSUME NEW t \in file.catalog, NEW k \in Batches, NEW p \in DataPages(file, t), DeleteRows(t, p, k)
      PROVE  /\ file' \in Contents /\ (intact' => Sound(file')) /\ intact' \in BOOLEAN
             /\ file'.catalog = file.catalog
  <2> DEFINE n == file.records[p] - k
  <2>1. /\ intact /\ k <= file.records[p]
        /\ CommitAccepted(file, t, p)
        /\ file' = Committed(file, t, p, n)
        /\ intact' = FindsOwnList(file, t)
    BY <1>7 DEF DeleteRows
  <2>2. n \in 0 .. SlotsPerPage
    <3>1. p \in Pages
      BY DEF DataPages
    <3>2. file.records[p] \in 0 .. SlotsPerPage
      BY <1>1, <3>1, FieldTypes
    <3>3. SlotsPerPage \in Nat /\ k \in 1 .. SlotsPerPage
      BY SchemaOpsAssumption
    <3>4. QED
      BY <2>1, <3>2, <3>3
  <2> HIDE DEF n
  <2>3. QED
    BY <1>1, <2>1, <2>2, CommitKeepsSound DEF FindsOwnList
<1>8. ASSUME NEW t \in file.catalog, NEW k \in Batches, NEW p \in NextFreePage, InsertGrowing(t, p, k)
      PROVE  /\ file' \in Contents /\ (intact' => Sound(file')) /\ intact' \in BOOLEAN
             /\ file'.catalog = file.catalog
  BY <1>1, <1>8, InsertGrowingKeepsSound DEF InsertGrowing, FindsOwnList
<1>9. ASSUME NEW t \in file.catalog, NEW p \in NextFreePage, InsertUncommitted(t, p)
      PROVE  /\ file' \in Contents /\ ~intact' /\ intact' \in BOOLEAN
             /\ file'.catalog = file.catalog
  <2>1. p \in Pages
    BY FreePagesAreFree DEF NextFreePage
  <2>2. file' = Grown(file, t, p) /\ intact' = FALSE
    BY <1>9 DEF InsertUncommitted
  <2>3. QED
    BY <1>1, <2>1, <2>2, GrownFields
<1>10. CASE UNCHANGED vars
  BY <1>1, <1>10 DEF vars, SoundInv, TypeOK
<1>11. CASE Next
  BY <1>2, <1>3, <1>4, <1>5, <1>6, <1>7, <1>8, <1>9, <1>11 DEF Next, SoundInv, TypeOK
<1>12. QED
  BY <1>10, <1>11

LEMMA SoundInvAlways == Spec => []SoundInv
<1>1. Init => SoundInv
  BY InitIsSound
<1>2. SoundInv /\ [Next]_vars => SoundInv'
  BY StepsKeepSound
<1>3. QED
  BY <1>1, <1>2, PTL DEF Spec

\* The file and the flag are of their types in every reachable state: whatever is
\* created, indexed, filled and dropped, the catalog's entries, the streams and the
\* lists name pages and ids there are.
THEOREM SchemaTypes == Spec => []TypeOK
<1>1. SoundInv => TypeOK
  BY DEF SoundInv
<1>2. QED
  BY <1>1, SoundInvAlways, PTL

\* Page ownership: the pages in use are the pages reserved, each has exactly one
\* owner by catalog, schema streams and record-page indexes, and the headers of
\* data pages agree (createTable, DropTable, CreateIndex, DropIndex and growTable).
THEOREM OwnersAreUnique == Spec => []PagesHaveOneOwner
<1>1. SoundInv => PagesHaveOneOwner
  <2>1. SUFFICES ASSUME SoundInv, intact PROVE PagesHaveOneOwner
    BY DEF PagesHaveOneOwner
  <2>2. file \in Contents /\ Sound(file)
    BY <2>1 DEF SoundInv, TypeOK
  <2>3. \A t \in file.catalog : OwnPages(file, t) \cap (0 .. DatabasePages - 1) = {}
    BY <2>2, OwnedPages DEF Own
  <2>4. \A t, u \in file.catalog : t # u => OwnPages(file, t) \cap OwnPages(file, u) = {}
    BY <2>2 DEF Sound
  <2>5. \A t \in file.catalog : ListedPages(file, ListRoot(file, t)) = DataPages(file, t)
    BY <2>2 DEF Sound, TableSound
  <2>6. /\ InUse(file) = file.pfs
        /\ file.pfs = (0 .. DatabasePages - 1) \cup UNION {OwnPages(file, t) : t \in file.catalog}
    BY <2>2 DEF Sound, Own
  <2>7. QED
    BY <2>3, <2>4, <2>5, <2>6 DEF PagesHaveOneOwner
<1>2. QED
  BY <1>1, SoundInvAlways, PTL

\* DROP TABLE releases exactly what the table owns: the pages the search for
\* evidence attributes to it (ownedPages), once a drop passed its checks, are its
\* own ones, and no other table loses any.
THEOREM DropsReleaseOwnPages == Spec => DropsAreExact
<1> DEFINE Exact ==
             \A t \in file.catalog \ file'.catalog :
               /\ file.pfs \ file'.pfs = OwnPages(file, t)
               /\ \A u \in file'.catalog : OwnPages(file', u) = OwnPages(file, u)
<1>1. SoundInv /\ [Next]_vars => [Exact]_vars
  <2>1. SUFFICES ASSUME SoundInv, [Next]_vars PROVE Exact
    OBVIOUS
  <2>2. CASE file.catalog \subseteq file'.catalog
    BY <2>2
  <2>3. ASSUME NEW t \in file.catalog, intact, DropTable(t)
        PROVE  Exact
    <3>1. TypeOK /\ file \in Contents /\ Sound(file)
      BY <2>1, <2>3 DEF SoundInv, TypeOK
    <3>2. /\ file'.catalog = file.catalog \ {t}
          /\ file'.pfs = file.pfs \ OwnPages(file, t)
          /\ \A u \in file'.catalog : OwnPages(file', u) = OwnPages(file, u)
      BY <2>3, <3>1, DropTableKeepsSound
    <3>3. OwnPages(file, t) \subseteq file.pfs
      BY <3>1, OwnedPages
    <3>4. \A u \in file.catalog \ file'.catalog : u = t
      BY <3>2
    <3>5. file.pfs \ file'.pfs = OwnPages(file, t)
      BY <3>2, <3>3
    <3>6. QED
      BY <3>2, <3>4, <3>5
  <2>4. QED
    BY <2>1, <2>2, <2>3, StepsKeepSound
<1>2. QED
  BY <1>1, SoundInvAlways, PTL DEF Spec, DropsAreExact

-----------------------------------------------------------------------------
(* Evidence.                                                               *)

\* On a sound file without index or schema tombstones an index root found by its
\* header is the list or a named root of one table, and a list is internal.
LEMMA RootsHaveTables ==
  ASSUME NEW f \in Contents, Sound(f),
         \A p \in Pages : f.freed[p] => f.kind[p] \notin UserKinds \cup {"list", "schema"},
         NEW r \in Roots(f)
  PROVE  /\ \E u \in f.catalog : r = ListRoot(f, u) \/ r \in NamedRoots(f, u)
         /\ IsSystem(f, r) <=> f.kind[r] = "list"
<1>1. ASSUME NEW p \in Pages, f.kind[p] \in UserKinds \cup {"list", "schema"}
      PROVE  \E u \in f.catalog :
               /\ f.kind[p] = "schema" => p = u.schema
               /\ f.kind[p] = "list" => p = ListRoot(f, u)
               /\ f.kind[p] \in UserKinds => p \in NamedRoots(f, u)
  <2>1. p \in f.pfs /\ p \notin Own
    BY <1>1 DEF Sound, InUse, UserKinds
  <2>2. PICK u \in f.catalog : p \in OwnPages(f, u)
    BY <2>1 DEF Sound
  <2>3. TableSound(f, u)
    BY DEF Sound
  <2>4. QED
    BY <1>1, <2>2, <2>3 DEF TableSound, OwnPages, InternalFiles, DataPages, UserKinds
<1>2. r \in Pages /\ f.kind[r] \in UserKinds \cup {"list"}
  BY DEF Roots
<1>3. f.kind[r] = "list" => r \notin NamedAnywhere(f)
  <2>1. SUFFICES ASSUME f.kind[r] = "list", NEW p \in Pages, f.kind[p] = "schema",
                        NEW i \in f.schema[p].indexes, i.root = r
                 PROVE  FALSE
    BY DEF NamedAnywhere
  <2>2. PICK u \in f.catalog : p = u.schema
    BY <1>1, <2>1
  <2>3. r \in NamedRoots(f, u)
    BY <2>1, <2>2 DEF NamedRoots, Definitions
  <2>4. f.kind[r] \in UserKinds
    BY <2>3 DEF Sound, TableSound
  <2>5. QED
    BY <2>1, <2>4 DEF UserKinds
<1>4. ASSUME f.kind[r] \in UserKinds
      PROVE  r \in NamedAnywhere(f)
  <2>1. PICK u \in f.catalog : r \in NamedRoots(f, u)
    BY <1>1, <1>2, <1>4
  <2>2. u.schema \in Pages /\ f.kind[u.schema] = "schema"
    BY <2>1, TableTypes DEF Sound, TableSound
  <2>3. QED
    BY <2>1, <2>2 DEF NamedAnywhere, NamedRoots, Definitions
<1>5. QED
  BY <1>1, <1>2, <1>3, <1>4 DEF IsSystem, UserKinds

LEMMA EvidenceOfSound ==
  ASSUME NEW f \in Contents, Sound(f),
         \A p \in Pages : f.freed[p] => f.kind[p] \notin UserKinds \cup {"list", "schema"},
         NEW t \in f.catalog
  PROVE  /\ UserIndexes(f, t) = NamedRoots(f, t)
         /\ IsSystem(f, ListRoot(f, t))
         /\ DataPages(f, t) # {} => MatchingLists(f, t) = {ListRoot(f, t)}
<1>1. TableSound(f, t) /\ Visible(f, t) \subseteq Roots(f)
  BY DEF Sound, Visible
<1>2. /\ ListRoot(f, t) \in Roots(f) /\ f.kind[ListRoot(f, t)] = "list"
      /\ NamedRoots(f, t) \subseteq Roots(f)
  BY <1>1, TableTypes DEF TableSound, Roots
<1>3. IsSystem(f, ListRoot(f, t))
  BY <1>2, RootsHaveTables
<1>4. ASSUME NEW u \in f.catalog, u # t
      PROVE  DataPages(f, u) \cap DataPages(f, t) = {}
  <2>1. DataPages(f, u) \subseteq OwnPages(f, u) /\ DataPages(f, t) \subseteq OwnPages(f, t)
    BY OwnedPages
  <2>2. OwnPages(f, t) \cap OwnPages(f, u) = {}
    BY <1>4, OwnedPages
  <2>3. QED
    BY ONLY <2>1, <2>2
<1>5. Cardinality(f.catalog) = 1 => f.catalog = {t}
  <2>1. SUFFICES ASSUME Cardinality(f.catalog) = 1 PROVE f.catalog = {t}
    OBVIOUS
  <2>2. ASSUME NEW u \in f.catalog PROVE u = t
    BY <2>1, CatalogIsFinite, OneMember
  <2>3. QED
    BY <2>2
<1>6. NamedRoots(f, t) \subseteq UserIndexes(f, t)
  <2>1. NamedRoots(f, t) \subseteq Visible(f, t)
    BY <1>2 DEF Visible
  <2>2. \A r \in NamedRoots(f, t) : f.kind[r] # "list" /\ r \in Roots(f)
    BY <1>1, <1>2 DEF TableSound, UserKinds
  <2>3. QED
    BY <2>1, <2>2, RootsHaveTables DEF UserIndexes
<1>7. ASSUME NEW r \in UserIndexes(f, t)
      PROVE  r \in NamedRoots(f, t)
  <2>1. r \in Visible(f, t) /\ r \in Roots(f) /\ ~IsSystem(f, r)
    BY <1>1, <1>7 DEF UserIndexes
  <2>2. f.kind[r] # "list"
    BY <2>1, RootsHaveTables
  <2>3. PICK u \in f.catalog : r = ListRoot(f, u) \/ r \in NamedRoots(f, u)
    BY <2>1, RootsHaveTables
  <2>4. r \in NamedRoots(f, u) /\ f.refs[r] \subseteq DataPages(f, u)
    BY <2>2, <2>3 DEF Sound, TableSound
  <2>5. CASE Cardinality(f.catalog) = 1
    BY <1>5, <2>4, <2>5
  <2>6. CASE Cardinality(f.catalog) # 1 /\ RootReferences(f, r, DataPages(f, t))
    <3>1. f.refs[r] \cap DataPages(f, t) # {}
      BY <2>1, <2>2, <2>6 DEF RootReferences
    <3>2. u = t
      BY <1>4, <2>4, <3>1
    <3>3. QED
      BY <2>4, <3>2
  <2>7. QED
    BY <2>1, <2>5, <2>6 DEF Visible
<1>8. ASSUME DataPages(f, t) # {}
      PROVE  MatchingLists(f, t) = {ListRoot(f, t)}
  <2>1. ListedPages(f, ListRoot(f, t)) = DataPages(f, t)
    BY <1>1 DEF TableSound
  <2>2. ListRoot(f, t) \in Visible(f, t)
    <3> DEFINE l == f.list[ListRoot(f, t)]
    <3>1. l \in Seq(ListEntries)
      BY TableTypes, FieldTypes
    <3>2. DOMAIN l # {}
      BY <1>8, <2>1 DEF ListedPages
    <3>3. 1 \in DOMAIN l
      <4> HIDE DEF l
      <4>1. QED
        BY <3>1, <3>2
    <3>4. l[1].page \in DataPages(f, t)
      BY <2>1, <3>3 DEF ListedPages
    <3>5. l[1].page \in KeysRead(l)
      <4> HIDE DEF l
      <4>1. 1 % 5 = 1
        OBVIOUS
      <4>2. QED
        BY <3>3, <4>1 DEF KeysRead
    <3>6. f.kind[ListRoot(f, t)] = "list"
      BY <1>2
    <3>7. RootReferences(f, ListRoot(f, t), DataPages(f, t))
      BY <1>3, <3>4, <3>5, <3>6 DEF RootReferences
    <3>8. QED
      BY <1>2, <3>7 DEF Visible
  <2>3. ListRoot(f, t) \in MatchingLists(f, t)
    BY <1>2, <1>3, <2>1, <2>2 DEF MatchingLists
  <2>4. ASSUME NEW r \in MatchingLists(f, t)
        PROVE  r = ListRoot(f, t)
    <3>1. r \in Roots(f) /\ f.kind[r] = "list" /\ ListedPages(f, r) = DataPages(f, t)
      BY <1>1, <2>4 DEF MatchingLists, IsSystem
    <3>2. PICK u \in f.catalog : r = ListRoot(f, u) \/ r \in NamedRoots(f, u)
      BY <3>1, RootsHaveTables
    <3>3. r = ListRoot(f, u) /\ ListedPages(f, r) = DataPages(f, u)
      BY <3>1, <3>2 DEF Sound, TableSound, UserKinds
    <3>4. u = t
      BY <1>4, <1>8, <3>1, <3>3
    <3>5. QED
      BY <3>3, <3>4
  <2>5. QED
    BY <2>3, <2>4
<1>9. QED
  BY <1>3, <1>6, <1>7, <1>8

\* Attribution by evidence (OpenIndex, discoverIndexes, recordPageIndex) is right
\* on every file whose released index and schema pages have been used again.
THEOREM EvidenceIsSufficient == Spec => []EvidenceIsRight
<1>1. SoundInv => EvidenceIsRight
  <2>1. SUFFICES ASSUME SoundInv, intact, NoTombstones PROVE EvidenceIsRight
    BY DEF EvidenceIsRight
  <2>2. file \in Contents /\ Sound(file)
    BY <2>1 DEF SoundInv, TypeOK
  <2>3. QED
    BY <2>1, <2>2, EvidenceOfSound DEF EvidenceIsRight, NoTombstones
<1>2. QED
  BY <1>1, SoundInvAlways, PTL
=============================================================================
