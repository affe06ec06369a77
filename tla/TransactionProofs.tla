------------------------- MODULE TransactionProofs -------------------------
(***************************************************************************)
(* Proofs about what TableWriter makes of the rows of a file, for any      *)
(* tables, pages, keys and capacities and any number of changes: keys stay *)
(* unique, the indexes name the rows, the rows change by whole commits,    *)
(* the counts say how many rows a page and a table have, and a commit they *)
(* are right for is accepted.                                              *)
(***************************************************************************)
EXTENDS TableWriter, Extrema

USE TableWriterAssumption

-----------------------------------------------------------------------------
(* Keys in index leaves.                                                   *)

\* c has a leaf for every table, and none of them holds a key twice.
KeysUniqueIn(c) ==
  /\ "leaf" \in DOMAIN c
  /\ DOMAIN c.leaf = Tables
  /\ \A t \in Tables : \A e, f \in c.leaf[t] : e.key = f.key => e = f

\* What keeps the keys on disk apart is that they are apart in the buffer every
\* page of the disk is overwritten from.
KeysInv ==
  /\ KeysUniqueIn(disk)
  /\ KeysUniqueIn(buf)
  /\ phase # "none" => table \in Tables

\* A page write takes one page of the buffer over to the disk.
LEMMA WrittenKeepsKeys ==
  ASSUME NEW c, NEW from, NEW u \in Units, KeysUniqueIn(c), KeysUniqueIn(from)
  PROVE  KeysUniqueIn(Written(c, from, u))
<1> DEFINE d == Written(c, from, u)
<1>1. CASE u = Pfs
  <2>1. u[1] = "pfs"
    BY <1>1 DEF Pfs
  <2>2. d = [c EXCEPT !.pfs = from.pfs]
    BY <1>1, <2>1 DEF Written
  <2>3. QED
    BY <2>2 DEF KeysUniqueIn
<1>2. ASSUME NEW p \in Pages, u = DataPage(p)
      PROVE  KeysUniqueIn(d)
  <2>1. u # Pfs /\ u[1] = "data" /\ u[2] = p
    BY <1>2 DEF DataPage, Pfs
  <2>2. d = [c EXCEPT !.owner[u[2]] = from.owner[u[2]], !.rows[u[2]] = from.rows[u[2]]]
    BY <2>1 DEF Written
  <2>3. QED
    BY <2>2 DEF KeysUniqueIn
<1>3. ASSUME NEW t \in Tables, u = Leaf(t)
      PROVE  KeysUniqueIn(d)
  <2>1. u # Pfs /\ u[1] = "leaf" /\ u[2] = t
    BY <1>3 DEF Leaf, Pfs
  <2>2. d = [c EXCEPT !.leaf[t] = from.leaf[t]]
    BY <2>1 DEF Written
  <2>3. QED
    BY <2>2 DEF KeysUniqueIn
<1>4. ASSUME NEW t \in Tables, u = List(t)
      PROVE  KeysUniqueIn(d)
  <2>1. u # Pfs /\ u[1] = "list" /\ u[2] = t
    BY <1>4 DEF List, Pfs
  <2>2. d = [c EXCEPT !.list[t] = from.list[t]]
    BY <2>1 DEF Written
  <2>3. QED
    BY <2>2 DEF KeysUniqueIn
<1>5. ASSUME NEW t \in Tables, u = Info(t)
      PROVE  KeysUniqueIn(d)
  <2>1. u # Pfs /\ u[1] = "info" /\ u[2] = t
    BY <1>5 DEF Info, Pfs
  <2>2. d = [c EXCEPT !.count[t] = from.count[t]]
    BY <2>1 DEF Written
  <2>3. QED
    BY <2>2 DEF KeysUniqueIn
<1>6. QED
  BY <1>1, <1>2, <1>3, <1>4, <1>5 DEF Units

\* A key the duplicate check found free may be added.
LEMMA StoredKeepsKeys ==
  ASSUME NEW c, NEW k, NEW p, NEW s, NEW d, table \in Tables, KeysUniqueIn(c),
         d = Stored(c, k, p, s), \A e \in c.leaf[table] : e.key # k
  PROVE  KeysUniqueIn(d)
<1>1. "leaf" \in DOMAIN d /\ DOMAIN d.leaf = Tables
  BY DEF Stored, KeysUniqueIn
<1>2. d.leaf[table] = c.leaf[table] \cup {Entry(k, p, s)}
  BY DEF Stored, KeysUniqueIn
<1>3. \A u \in Tables \ {table} : d.leaf[u] = c.leaf[u]
  BY DEF Stored, KeysUniqueIn
<1>4. \A e, f \in d.leaf[table] : e.key = f.key => e = f
  <2>1. Entry(k, p, s).key = k
    BY DEF Entry
  <2>2. \A e, f \in c.leaf[table] : e.key = f.key => e = f
    BY DEF KeysUniqueIn
  <2>3. QED
    BY <1>2, <2>1, <2>2
<1>5. QED
  BY <1>1, <1>3, <1>4 DEF KeysUniqueIn

\* What growth adds to the disk and to the buffer leaves every leaf alone.
LEMMA GrowthKeepsKeys ==
  ASSUME NEW c, NEW p, KeysUniqueIn(c)
  PROVE  /\ KeysUniqueIn(WithNewPage(c, p))
         /\ WithNewPage(c, p).leaf = c.leaf
         /\ KeysUniqueIn(Reserved(c, p))
         /\ Reserved(c, p).leaf = c.leaf
         /\ KeysUniqueIn(Listed(c, p))
         /\ Listed(c, p).leaf = c.leaf
BY DEF WithNewPage, Reserved, Listed, KeysUniqueIn

LEMMA KeysInitially == Init => KeysInv
BY DEF Init, KeysInv, KeysUniqueIn

\* Whoever takes a new handle finds the leaves of the file.
LEMMA HandleKeepsKeys ==
  ASSUME KeysUniqueIn(disk'), NEW t, NEW ph, Handle(t, ph), ph # "none" => t \in Tables
  PROVE  KeysInv'
<1>1. buf' = disk' /\ phase' = ph /\ table' = t
  BY DEF Handle
<1>2. KeysUniqueIn(buf')
  BY <1>1
<1>3. KeysUniqueIn(disk)' /\ KeysUniqueIn(buf)'
  BY <1>2 DEF KeysUniqueIn
<1>4. QED
  BY <1>1, <1>3 DEF KeysInv

\* It is enough to look at what a step makes of the two contents.
LEMMA KeysFollow ==
  ASSUME KeysInv, KeysUniqueIn(disk'), KeysUniqueIn(buf'), phase # "none", table' = table
  PROVE  KeysInv'
BY DEF KeysInv, KeysUniqueIn

LEMMA DropKeepsKeys ==
  ASSUME KeysInv, NEW t \in Tables, DropAndCreate(t)
  PROVE  KeysInv'
<1>1. KeysUniqueIn(disk')
  <2>1. "leaf" \in DOMAIN disk /\ DOMAIN disk.leaf = Tables
    BY DEF KeysInv, KeysUniqueIn
  <2>2. /\ "leaf" \in DOMAIN disk' /\ DOMAIN disk'.leaf = Tables
        /\ disk'.leaf[t] = {}
        /\ \A u \in Tables \ {t} : disk'.leaf[u] = disk.leaf[u]
    BY <2>1 DEF DropAndCreate
  <2>3. QED
    BY <2>2 DEF KeysInv, KeysUniqueIn
<1>2. Handle(NoTable, "none")
  BY DEF DropAndCreate
<1>3. QED
  BY <1>1, <1>2, HandleKeepsKeys

LEMMA InsertKeepsKeys ==
  ASSUME KeysInv, NEW k, Insert(k)
  PROVE  KeysInv'
<1>1. phase = "open" /\ table \in Tables /\ table' = table /\ disk' = disk /\ KeyIsFree(k)
  BY DEF Insert, KeysInv
<1>2. PICK p, s : buf' = Stored(buf, k, p, s)
  BY DEF Insert
<1>3. KeysUniqueIn(buf')
  BY <1>1, <1>2, StoredKeepsKeys DEF KeysInv, KeyIsFree
<1>4. KeysUniqueIn(disk')
  BY <1>1 DEF KeysInv
<1>5. QED
  BY <1>1, <1>3, <1>4, KeysFollow

LEMMA DeleteKeepsKeys ==
  ASSUME KeysInv, NEW p, NEW s, Delete(p, s)
  PROVE  KeysInv'
<1>1. phase = "open" /\ table \in Tables /\ table' = table /\ disk' = disk
  BY DEF Delete, KeysInv
<1>2. PICK gone : buf' = [buf EXCEPT !.rows[p][s] = NoKey, !.leaf[table] = @ \ {gone}]
  BY DEF Delete
<1>3. KeysUniqueIn(buf')
  BY <1>1, <1>2 DEF KeysInv, KeysUniqueIn
<1>4. KeysUniqueIn(disk')
  BY <1>1 DEF KeysInv
<1>5. QED
  BY <1>1, <1>3, <1>4, KeysFollow

LEMMA UpdateKeepsKeys ==
  ASSUME KeysInv, NEW p, NEW s, NEW k, Update(p, s, k)
  PROVE  KeysInv'
<1>1. phase = "open" /\ table \in Tables /\ table' = table /\ disk' = disk
  BY DEF Update, KeysInv
<1>2. KeysUniqueIn(buf')
  <2>1. CASE buf' = [buf EXCEPT !.rows[p][s] = k]
    BY <2>1 DEF KeysInv, KeysUniqueIn
  <2>2. CASE \E gone : /\ buf' = [Stored(buf, k, p, s) EXCEPT !.leaf[table] = @ \ {gone}]
                       /\ KeyIsFree(k)
    <3>1. PICK gone : buf' = [Stored(buf, k, p, s) EXCEPT !.leaf[table] = @ \ {gone}]
      BY <2>2
    <3>2. KeysUniqueIn(Stored(buf, k, p, s))
      BY <1>1, <2>2, StoredKeepsKeys DEF KeysInv, KeyIsFree
    <3>3. QED
      <4> DEFINE d == Stored(buf, k, p, s)
      <4>1. KeysUniqueIn(d) /\ buf' = [d EXCEPT !.leaf[table] = @ \ {gone}]
        BY <3>1, <3>2
      <4> HIDE DEF d
      <4>2. QED
        BY <1>1, <4>1 DEF KeysUniqueIn
  <2>3. QED
    BY <2>1, <2>2 DEF Update
<1>3. KeysUniqueIn(disk')
  BY <1>1 DEF KeysInv
<1>4. QED
  BY <1>1, <1>2, <1>3, KeysFollow

LEMMA InsertGrowingKeepsKeys ==
  ASSUME KeysInv, NEW k, InsertGrowing(k)
  PROVE  KeysInv'
<1> DEFINE after == Listed(WithNewPage(Reserved(buf, NewPage), NewPage), NewPage)
<1>1. phase # "none" /\ table \in Tables /\ table' = table /\ KeyIsFree(k)
  BY DEF InsertGrowing, MustGrow, KeysInv
<1>2. disk' = Listed(WithNewPage(disk, NewPage), NewPage)
  BY DEF InsertGrowing, GrownOnDisk
<1>3. KeysUniqueIn(disk')
  BY <1>2, GrowthKeepsKeys DEF KeysInv
<1>4. KeysUniqueIn(after) /\ after.leaf = buf.leaf
  <2>1. KeysUniqueIn(Reserved(buf, NewPage)) /\ Reserved(buf, NewPage).leaf = buf.leaf
    BY GrowthKeepsKeys DEF KeysInv
  <2>2. /\ KeysUniqueIn(WithNewPage(Reserved(buf, NewPage), NewPage))
        /\ WithNewPage(Reserved(buf, NewPage), NewPage).leaf = buf.leaf
    BY <2>1, GrowthKeepsKeys
  <2>3. QED
    BY <2>2, GrowthKeepsKeys
<1>5. buf' = Stored(after, k, NewPage, 1) \/ buf' = after
  BY DEF InsertGrowing
<1>6. KeysUniqueIn(buf')
  <2> HIDE DEF after
  <2>1. \A e \in after.leaf[table] : e.key # k
    BY <1>1, <1>4 DEF KeyIsFree
  <2>2. QED
    BY <1>1, <1>4, <1>5, <2>1, StoredKeepsKeys
<1>7. QED
  BY <1>1, <1>3, <1>6, KeysFollow

LEMMA InsertUnlistedKeepsKeys ==
  ASSUME KeysInv, NEW k, InsertUnlisted(k)
  PROVE  KeysInv'
<1>1. phase # "none" /\ table' = table
  BY DEF InsertUnlisted, MustGrow
<1>2. KeysUniqueIn(disk')
  BY GrowthKeepsKeys DEF InsertUnlisted, KeysInv
<1>3. KeysUniqueIn(buf')
  <2>1. KeysUniqueIn(Reserved(buf, NewPage))
    BY GrowthKeepsKeys DEF KeysInv
  <2>2. QED
    BY <2>1, GrowthKeepsKeys DEF InsertUnlisted
<1>4. QED
  BY <1>1, <1>2, <1>3, KeysFollow

LEMMA GrowthCutKeepsKeys ==
  ASSUME KeysInv, NEW k, GrowthCut(k)
  PROVE  KeysInv'
<1>1. KeysUniqueIn(disk')
  BY GrowthKeepsKeys DEF GrowthCut, KeysInv
<1>2. QED
  BY <1>1, HandleKeepsKeys DEF GrowthCut

LEMMA BeginCommitKeepsKeys ==
  ASSUME KeysInv, BeginCommit \/ CommitRefused
  PROVE  KeysInv'
<1>1. phase = "open" /\ table' = table /\ disk' = disk
  BY DEF BeginCommit, CommitRefused, MayCommit
<1>2. "leaf" \in DOMAIN buf' /\ buf'.leaf = buf.leaf
  BY DEF BeginCommit, CommitRefused, KeysInv, KeysUniqueIn
<1>3. KeysUniqueIn(buf') /\ KeysUniqueIn(disk')
  BY <1>1, <1>2 DEF KeysInv, KeysUniqueIn
<1>4. QED
  BY <1>1, <1>3, KeysFollow

LEMMA FlushPageKeepsKeys ==
  ASSUME KeysInv, NEW u \in Units, FlushPage(u)
  PROVE  KeysInv'
<1>1. KeysUniqueIn(disk')
  BY WrittenKeepsKeys DEF FlushPage, KeysInv
<1>2. phase # "none" /\ table' = table /\ KeysUniqueIn(buf')
  BY DEF FlushPage, KeysInv
<1>3. QED
  BY <1>1, <1>2, KeysFollow

LEMMA StepsKeepKeys == KeysInv /\ [Next]_vars => KeysInv'
<1> SUFFICES ASSUME KeysInv, [Next]_vars PROVE KeysInv'
  OBVIOUS
<1>1. ASSUME NEW t \in Tables, OpenWriter(t) PROVE KeysInv'
  BY <1>1, HandleKeepsKeys DEF OpenWriter, KeysInv
<1>2. ASSUME NEW t \in Tables, DropAndCreate(t) PROVE KeysInv'
  BY <1>2, DropKeepsKeys
<1>3. ASSUME NEW k \in Keys, Insert(k) \/ InsertGrowing(k) \/ InsertUnlisted(k) \/ GrowthCut(k)
      PROVE  KeysInv'
  BY <1>3, InsertKeepsKeys, InsertGrowingKeepsKeys, InsertUnlistedKeepsKeys, GrowthCutKeepsKeys
<1>4. ASSUME NEW p \in Pages, NEW s \in Slots, Delete(p, s) \/ \E k \in Keys : Update(p, s, k)
      PROVE  KeysInv'
  BY <1>4, DeleteKeepsKeys, UpdateKeepsKeys
<1>5. CASE BeginCommit \/ CommitRefused
  BY <1>5, BeginCommitKeepsKeys
<1>6. CASE CommitNothing \/ FlushFails
  <2>1. phase # "none" /\ table' = table /\ disk' = disk /\ buf' = buf
    BY <1>6 DEF CommitNothing, FlushFails
  <2>2. KeysUniqueIn(disk') /\ KeysUniqueIn(buf')
    BY <2>1 DEF KeysInv
  <2>3. QED
    BY <2>1, <2>2, KeysFollow
<1>7. ASSUME NEW u \in Units, FlushPage(u) PROVE KeysInv'
  BY <1>7, FlushPageKeepsKeys
<1>8. CASE CutShort \/ Rollback \/ Forget
  <2>1. disk' = disk /\ Handle(NoTable, "none")
    BY <1>8 DEF CutShort, Rollback, Forget
  <2>2. KeysUniqueIn(disk')
    BY <2>1 DEF KeysInv
  <2>3. QED
    BY <2>1, <2>2, HandleKeepsKeys
<1>9. CASE UNCHANGED vars
  BY <1>9 DEF vars, writer, KeysInv, KeysUniqueIn
<1>10. QED
  BY <1>1, <1>2, <1>3, <1>4, <1>5, <1>6, <1>7, <1>8, <1>9 DEF Next

\* UNIQUE and PRIMARY KEY hold of every index on disk, whatever goes wrong: no
\* leaf holds a key twice, after any sequence of writers, commits cut short,
\* failed writes and dropped tables (checkKeyIndexes, flushPages).
THEOREM KeysStayUnique == Spec => []LeafKeysUnique
<1>1. KeysInv => LeafKeysUnique
  BY DEF KeysInv, KeysUniqueIn, LeafKeysUnique
<1>2. QED
  BY <1>1, KeysInitially, StepsKeepKeys, PTL DEF Spec

-----------------------------------------------------------------------------
(* Rows: the inductive invariant.                                          *)

\* The fields of the contents the rows depend on.
Shaped(c) ==
  /\ {"pfs", "owner", "rows", "leaf"} \subseteq DOMAIN c
  /\ c.pfs \subseteq Pages
  /\ c.owner \in [Pages -> Tables \cup {NoTable}]
  /\ c.rows \in [Pages -> [Slots -> Keys \cup {NoKey}]]
  /\ c.leaf \in [Tables -> SUBSET IndexEntries]

Types ==
  /\ Shaped(disk)
  /\ Shaped(buf)
  /\ phase \in {"none", "open", "commit", "closed"}
  /\ phase # "none" => table \in Tables
  /\ dataPages \in Seq(Pages)

\* A page that is not to be written is the same on disk, and what is to be
\* written belongs to the writer's table.
BufferTracksDisk ==
  Writing =>
    /\ buf.owner = disk.owner
    /\ \A i \in DOMAIN dataPages : disk.owner[dataPages[i]] = table
    /\ \A p \in Pages : IF DataPage(p) \in dirty THEN disk.owner[p] = table
                                                ELSE buf.rows[p] = disk.rows[p]
    /\ \A t \in Tables : IF Leaf(t) \in dirty THEN t = table
                                             ELSE buf.leaf[t] = disk.leaf[t]
    /\ Pfs \notin dirty => buf.pfs = disk.pfs

\* The leaf of a table that is being written out may be ahead of its rows or
\* behind them; in the buffer they agree.
RowsAreIndexed ==
  intact =>
    /\ \A t \in Tables : disk.leaf[t] = RowsOf(disk, t) \/ (phase = "commit" /\ t = table)
    /\ Writing => buf.leaf[table] = RowsOf(buf, table)

\* So growth never takes a page another table owns.
OwnedPagesAreTaken ==
  intact =>
    /\ \A p \in Pages : disk.owner[p] # NoTable => p \in (IF phase = "none" THEN disk ELSE buf).pfs
    /\ phase = "closed" => buf.pfs = disk.pfs

\* Until the commit the rows on disk are those the writer found, and during it
\* each is one of the old or one of the new.
CommitsGoPageByPage ==
  intact =>
    LET old == RowsOf(atOpen, table)
        new == RowsOf(buf, table)
        now == RowsOf(disk, table)
    IN  /\ phase = "open" => now = old
        /\ phase = "commit" => old \cap new \subseteq now /\ now \subseteq old \cup new

RowsInv ==
  /\ KeysInv
  /\ Types
  /\ BufferTracksDisk
  /\ RowsAreIndexed
  /\ OwnedPagesAreTaken
  /\ CommitsGoPageByPage

-----------------------------------------------------------------------------
(* Contents and their rows.                                                *)

LEMMA RowsOfType ==
  ASSUME NEW c, NEW t
  PROVE  RowsOf(c, t) \subseteq IndexEntries
BY DEF RowsOf

\* Rows depend on owners and records alone.
LEMMA SameRows ==
  ASSUME NEW c, NEW d, NEW t, d.owner = c.owner, d.rows = c.rows
  PROVE  RowsOf(d, t) = RowsOf(c, t)
BY DEF RowsOf

LEMMA KeysAreNotNoKey == NoKey \notin Keys /\ NoTable \notin Tables
BY DEF NoKey, NoTable

\* What a record is in the rows of its table.
LEMMA EntryInRows ==
  ASSUME NEW c, NEW t, NEW p \in Pages, NEW s \in Slots, NEW k \in Keys
  PROVE  /\ Entry(k, p, s) \in IndexEntries
         /\ Entry(k, p, s) \in RowsOf(c, t) <=> c.owner[p] = t /\ c.rows[p][s] = k
BY DEF Entry, RowsOf, IndexEntries

LEMMA EntriesAreEntries ==
  ASSUME NEW e \in IndexEntries
  PROVE  /\ e = Entry(e.key, e.page, e.slot)
         /\ e.key \in Keys /\ e.page \in Pages /\ e.slot \in Slots
BY DEF Entry, IndexEntries

\* One slot of one page is filled, replaced or emptied.
SlotSet(c, d, p, s, k) ==
  /\ d.owner = c.owner
  /\ d.rows = [c.rows EXCEPT ![p] = [@ EXCEPT ![s] = k]]

\* The rows that makes.
RowsAfter(c, t, p, s, k) ==
  {e \in RowsOf(c, t) : ~(e.page = p /\ e.slot = s)}
  \cup (IF k # NoKey /\ c.owner[p] = t THEN {Entry(k, p, s)} ELSE {})

LEMMA RowsWithSlotSet ==
  ASSUME NEW c, NEW d, NEW t \in Tables, NEW p \in Pages, NEW s \in Slots,
         NEW k \in Keys \cup {NoKey},
         Shaped(c), SlotSet(c, d, p, s, k)
  PROVE  RowsOf(d, t) = RowsAfter(c, t, p, s, k)
<1> DEFINE kept == {e \in RowsOf(c, t) : ~(e.page = p /\ e.slot = s)}
           added == IF k # NoKey /\ c.owner[p] = t THEN {Entry(k, p, s)} ELSE {}
<1>1. ASSUME NEW q \in Pages, NEW r \in Slots
      PROVE  d.rows[q][r] = IF q = p /\ r = s THEN k ELSE c.rows[q][r]
  <2>1. DOMAIN c.rows = Pages /\ DOMAIN c.rows[p] = Slots
    BY DEF Shaped
  <2>2. QED
    BY <2>1 DEF SlotSet
<1>2. ASSUME NEW e \in IndexEntries
      PROVE  e \in RowsOf(d, t) <=> e \in kept \cup added
  <2>1. e = Entry(e.key, e.page, e.slot) /\ e.key \in Keys /\ e.page \in Pages /\ e.slot \in Slots
    BY EntriesAreEntries
  <2>2. /\ e \in RowsOf(d, t) <=> d.owner[e.page] = t /\ d.rows[e.page][e.slot] = e.key
        /\ e \in RowsOf(c, t) <=> c.owner[e.page] = t /\ c.rows[e.page][e.slot] = e.key
    BY DEF RowsOf
  <2>3. d.owner = c.owner
    BY DEF SlotSet
  <2>4. CASE e.page = p /\ e.slot = s
    <3>1. d.rows[e.page][e.slot] = k
      BY <1>1, <2>1, <2>4
    <3>2. e \in added <=> k # NoKey /\ c.owner[p] = t /\ e.key = k
      <4>1. Entry(k, p, s).key = k
        BY DEF Entry
      <4>2. e.key = k => e = Entry(k, p, s)
        BY <2>1, <2>4
      <4>3. QED
        BY <4>1, <4>2
    <3>3. QED
      BY <2>1, <2>2, <2>3, <2>4, <3>1, <3>2, KeysAreNotNoKey
  <2>5. CASE ~(e.page = p /\ e.slot = s)
    <3>1. d.rows[e.page][e.slot] = c.rows[e.page][e.slot]
      BY <1>1, <2>1, <2>5
    <3>2. e \notin added
      BY <2>5 DEF Entry
    <3>3. QED
      BY <2>2, <2>3, <2>5, <3>1, <3>2
  <2>6. QED
    BY <2>4, <2>5
<1>3. kept \cup added \subseteq IndexEntries
  <2>1. kept \subseteq IndexEntries
    BY RowsOfType
  <2>2. added \subseteq IndexEntries
    BY EntryInRows
  <2>3. QED
    BY <2>1, <2>2
<1>4. RowsOf(d, t) \subseteq IndexEntries
  BY RowsOfType
<1> HIDE DEF kept, added
<1>5. RowsOf(d, t) = kept \cup added
  BY <1>2, <1>3, <1>4
<1>6. QED
  BY <1>5 DEF kept, added, RowsAfter

\* The page growth takes is a free one.
LEMMA NewPageIsFree ==
  ASSUME Types, Pages \ buf.pfs # {}
  PROVE  NewPage \in Pages /\ NewPage \notin buf.pfs
<1>1. Pages \ buf.pfs \subseteq Nat
  OBVIOUS
<1>2. Min(Pages \ buf.pfs) \in Pages \ buf.pfs
  BY <1>1, MinOfBounded
<1>3. QED
  BY <1>2 DEF NewPage

\* A scan of the page headers lists the pages of the table.
LEMMA InFileOrderLists ==
  ASSUME NEW S, S \subseteq Pages
  PROVE  InFileOrder(S) \in Seq(Pages) /\ \A i \in DOMAIN InFileOrder(S) : InFileOrder(S)[i] \in S
<1>1. S \subseteq Nat /\ IsFiniteSet(S)
  BY FS_Subset
<1>2. PICK s \in [1 .. Cardinality(S) -> S] : Increasing(s, Cardinality(S))
  BY <1>1, IncreasingListing
<1>3. \A i, j \in DOMAIN s : i < j => s[i] < s[j]
  BY <1>2 DEF Increasing
<1>4. InFileOrder(S) \in [1 .. Cardinality(S) -> S]
  BY <1>2, <1>3 DEF InFileOrder
<1>5. Cardinality(S) \in Nat
  BY <1>1, FS_CardinalityType
<1>6. InFileOrder(S) \in Seq(Pages)
  <2> DEFINE f == InFileOrder(S)
             n == Cardinality(S)
  <2>1. n \in Nat /\ f \in [1 .. n -> Pages]
    BY <1>4, <1>5
  <2> HIDE DEF f, n
  <2>2. f \in Seq(Pages)
    BY <2>1
  <2>3. QED
    BY <2>2 DEF f
<1>7. QED
  BY <1>4, <1>6

-----------------------------------------------------------------------------
(* Steps that take a new handle on the file.                               *)

LEMMA InitEstablishesRowsInv == Init => RowsInv
<1> SUFFICES ASSUME Init PROVE RowsInv
  OBVIOUS
<1>1. KeysInv
  BY KeysInitially
<1>2. Shaped(disk) /\ buf = disk /\ phase = "none" /\ dataPages = <<>> /\ atOpen = disk
  BY DEF Init, Shaped, EmptyPage
<1>3. Types
  BY <1>2 DEF Types
<1>4. \A t \in Tables : disk.leaf[t] = {} /\ RowsOf(disk, t) = {}
  BY KeysAreNotNoKey DEF Init, RowsOf, EmptyPage, IndexEntries
<1>5. \A p \in Pages : disk.owner[p] = NoTable
  BY DEF Init
<1>6. QED
  BY <1>1, <1>2, <1>3, <1>4, <1>5
  DEF RowsInv, BufferTracksDisk, Writing, RowsAreIndexed, OwnedPagesAreTaken, CommitsGoPageByPage

LEMMA HandleKeepsRowsInv ==
  ASSUME NEW t, NEW ph, Handle(t, ph),
         (t \in Tables /\ ph = "open") \/ (t = NoTable /\ ph = "none"),
         KeysUniqueIn(disk'), Shaped(disk'),
         intact' => /\ \A u \in Tables : disk'.leaf[u] = RowsOf(disk', u)
                    /\ \A p \in Pages : disk'.owner[p] # NoTable => p \in disk'.pfs
  PROVE  RowsInv'
<1>1. /\ table' = t /\ phase' = ph /\ buf' = disk' /\ atOpen' = disk' /\ dirty' = {}
      /\ dataPages' = IF t = NoTable THEN <<>> ELSE InFileOrder(OwnedPages(disk', t))
  BY DEF Handle
<1>2. KeysInv'
  BY HandleKeepsKeys
<1>3. OwnedPages(disk', t) \subseteq Pages
  BY DEF OwnedPages
<1>4. dataPages' \in Seq(Pages) /\ \A i \in DOMAIN dataPages' : dataPages'[i] \in OwnedPages(disk', t)
  <2>1. CASE t = NoTable
    BY <1>1, <2>1
  <2>2. CASE t # NoTable
    BY <1>1, <1>3, <2>2, InFileOrderLists
  <2>3. QED
    BY <2>1, <2>2
<1>5. Types'
  BY <1>1, <1>4 DEF Types, Shaped
<1>6. BufferTracksDisk'
  BY <1>1, <1>4 DEF BufferTracksDisk, Writing, OwnedPages
<1>7. \A u \in Tables : /\ RowsOf(disk, u)' = RowsOf(disk', u)
                         /\ RowsOf(buf, u)' = RowsOf(disk', u)
                         /\ RowsOf(atOpen, u)' = RowsOf(disk', u)
  BY <1>1 DEF RowsOf
<1>8. RowsAreIndexed' /\ OwnedPagesAreTaken'
  BY <1>1, <1>7, KeysAreNotNoKey DEF RowsAreIndexed, OwnedPagesAreTaken, Writing
<1>9. CommitsGoPageByPage'
  BY <1>1, <1>7 DEF CommitsGoPageByPage
<1>10. QED
  BY <1>2, <1>5, <1>6, <1>8, <1>9 DEF RowsInv

\* Opening, giving up, forgetting: the file stays as it is.
LEMMA UnchangedDiskKeepsRowsInv ==
  ASSUME RowsInv, NEW t, NEW ph, Handle(t, ph), disk' = disk,
         (t \in Tables /\ ph = "open") \/ (t = NoTable /\ ph = "none"),
         intact' => /\ intact
                    /\ phase # "commit"
                    /\ Writing => Pfs \notin dirty
  PROVE  RowsInv'
<1>1. KeysUniqueIn(disk') /\ Shaped(disk')
  BY DEF RowsInv, KeysInv, Types
<1>2. ASSUME intact'
      PROVE  /\ \A u \in Tables : disk'.leaf[u] = RowsOf(disk', u)
             /\ \A p \in Pages : disk'.owner[p] # NoTable => p \in disk'.pfs
  <2>1. \A u \in Tables : disk.leaf[u] = RowsOf(disk, u)
    BY <1>2 DEF RowsInv, RowsAreIndexed
  <2>2. \A p \in Pages : disk.owner[p] # NoTable => p \in disk.pfs
    <3>1. CASE phase = "none"
      BY <1>2, <3>1 DEF RowsInv, OwnedPagesAreTaken
    <3>2. CASE phase # "none"
      <4>1. buf.pfs = disk.pfs
        BY <1>2, <3>2 DEF RowsInv, OwnedPagesAreTaken, BufferTracksDisk, Writing, Types
      <4>2. QED
        BY <1>2, <3>2, <4>1 DEF RowsInv, OwnedPagesAreTaken
    <3>3. QED
      BY <3>1, <3>2
  <2>3. QED
    BY <2>1, <2>2
<1>3. QED
  BY <1>1, <1>2, HandleKeepsRowsInv

LEMMA DropKeepsRowsInv ==
  ASSUME RowsInv, NEW t \in Tables, DropAndCreate(t)
  PROVE  /\ RowsInv'
         /\ \A u \in Tables : RowsOf(disk', u) = IF u = t THEN {} ELSE RowsOf(disk, u)
<1>1. /\ phase = "none" /\ intact /\ Handle(NoTable, "none")
      /\ disk' = [disk EXCEPT
                   !.pfs = @ \ OwnedPages(disk, t),
                   !.owner = [p \in Pages |-> IF @[p] = t THEN NoTable ELSE @[p]],
                   !.leaf[t] = {},
                   !.list[t] = <<>>,
                   !.count[t] = 0]
  BY DEF DropAndCreate
<1>2. Shaped(disk)
  BY DEF RowsInv, Types
<1>3. /\ {"pfs", "owner", "rows", "leaf"} \subseteq DOMAIN disk'
      /\ disk'.pfs = disk.pfs \ OwnedPages(disk, t)
      /\ disk'.owner = [p \in Pages |-> IF disk.owner[p] = t THEN NoTable ELSE disk.owner[p]]
      /\ disk'.leaf = [disk.leaf EXCEPT ![t] = {}]
      /\ disk'.rows = disk.rows
  BY <1>1, <1>2 DEF Shaped
<1>4. Shaped(disk')
  BY <1>2, <1>3 DEF Shaped
<1>5. KeysUniqueIn(disk')
  <2>1. KeysInv'
    BY DropKeepsKeys DEF RowsInv
  <2>2. QED
    BY <2>1 DEF KeysInv, KeysUniqueIn
<1>6. ASSUME NEW u \in Tables
      PROVE  RowsOf(disk', u) = IF u = t THEN {} ELSE RowsOf(disk, u)
  <2>1. \A p \in Pages : disk'.owner[p] = u <=> disk.owner[p] = u /\ u # t
    BY <1>3, KeysAreNotNoKey
  <2>2. \A e \in IndexEntries : e.page \in Pages
    BY EntriesAreEntries
  <2>3. QED
    BY <1>3, <2>1, <2>2 DEF RowsOf
<1>7. \A u \in Tables : disk'.leaf[u] = RowsOf(disk', u)
  <2>1. \A u \in Tables : disk.leaf[u] = RowsOf(disk, u)
    BY <1>1 DEF RowsInv, RowsAreIndexed
  <2>2. QED
    BY <1>2, <1>3, <1>6, <2>1 DEF Shaped
<1>8. \A p \in Pages : disk'.owner[p] # NoTable => p \in disk'.pfs
  <2>1. \A p \in Pages : disk.owner[p] # NoTable => p \in disk.pfs
    BY <1>1 DEF RowsInv, OwnedPagesAreTaken
  <2>2. QED
    BY <1>3, <2>1 DEF OwnedPages
<1>9. QED
  BY <1>1, <1>4, <1>5, <1>6, <1>7, <1>8, HandleKeepsRowsInv

-----------------------------------------------------------------------------
(* Insert, Delete and Update.                                              *)

LEMMA UnitsDiffer ==
  /\ \A p, t : /\ DataPage(p) # Leaf(t) /\ DataPage(p) # Pfs /\ Leaf(t) # Pfs
               /\ List(t) # Pfs /\ List(t) # DataPage(p) /\ Info(t) # Pfs /\ Info(t) # DataPage(p)
  /\ \A t, u : List(t) # Leaf(u) /\ Info(t) # Leaf(u)
  /\ \A p, q : DataPage(p) = DataPage(q) => p = q
  /\ \A t, u : Leaf(t) = Leaf(u) => t = u
BY DEF DataPage, Leaf, Pfs, List, Info

\* At most one row leaves and at most one comes.
OneRowChanges(old, new) == \E x, y : old \ new \subseteq {x} /\ new \ old \subseteq {y}

LEMMA SlotSetChangesOneRow ==
  ASSUME NEW c, NEW d, NEW t \in Tables, NEW p \in Pages, NEW s \in Slots,
         NEW k \in Keys \cup {NoKey},
         Shaped(c), SlotSet(c, d, p, s, k)
  PROVE  OneRowChanges(RowsOf(c, t), RowsOf(d, t))
<1> DEFINE added == IF k # NoKey /\ c.owner[p] = t THEN {Entry(k, p, s)} ELSE {}
<1>1. RowsOf(d, t) = {e \in RowsOf(c, t) : ~(e.page = p /\ e.slot = s)} \cup added
  BY RowsWithSlotSet DEF RowsAfter
<1>2. RowsOf(d, t) \ RowsOf(c, t) \subseteq {Entry(k, p, s)}
  BY <1>1
<1>3. RowsOf(c, t) \ RowsOf(d, t) \subseteq {Entry(c.rows[p][s], p, s)}
  <2>1. ASSUME NEW e \in RowsOf(c, t), e.page = p, e.slot = s
        PROVE  e = Entry(c.rows[p][s], p, s)
    <3>1. e \in IndexEntries /\ c.rows[p][s] = e.key
      BY <2>1 DEF RowsOf
    <3>2. QED
      BY <2>1, <3>1, EntriesAreEntries
  <2>2. QED
    BY <1>1, <2>1
<1>4. QED
  BY <1>2, <1>3 DEF OneRowChanges

LEMMA SlotStepKeepsRowsInv ==
  ASSUME RowsInv, KeysInv', phase = "open",
         UNCHANGED <<disk, phase, table, dataPages, atOpen, intact>>,
         NEW p \in Pages, NEW s \in Slots, NEW k \in Keys \cup {NoKey},
         disk.owner[p] = table,
         SlotSet(buf, buf', p, s, k),
         {"pfs", "owner", "rows", "leaf"} \subseteq DOMAIN buf', buf'.pfs = buf.pfs,
         buf'.leaf \in [Tables -> SUBSET IndexEntries],
         \A u \in Tables \ {table} : buf'.leaf[u] = buf.leaf[u],
         dirty \cup {DataPage(p)} \subseteq dirty',
         dirty' \subseteq dirty \cup {DataPage(p), Leaf(table)},
         Leaf(table) \in dirty' \/ buf'.leaf[table] = buf.leaf[table],
         intact => buf'.leaf[table] = RowsOf(buf', table)
  PROVE  RowsInv'
<1>1. Shaped(buf) /\ table \in Tables
  BY DEF RowsInv, Types
<1>2. Shaped(buf')
  <2>1. buf'.owner = buf.owner /\ buf'.rows = [buf.rows EXCEPT ![p] = [@ EXCEPT ![s] = k]]
    BY DEF SlotSet
  <2>2. buf'.rows \in [Pages -> [Slots -> Keys \cup {NoKey}]]
    BY <1>1, <2>1 DEF Shaped
  <2>3. QED
    BY <1>1, <2>1, <2>2 DEF Shaped
<1>3. Types'
  BY <1>2 DEF RowsInv, Types, Shaped
<1>4. BufferTracksDisk'
  <2>1. \A q \in Pages : IF DataPage(q) \in dirty' THEN disk.owner[q] = table
                                                  ELSE buf'.rows[q] = disk.rows[q]
    <3>1. ASSUME NEW q \in Pages, DataPage(q) \in dirty' PROVE disk.owner[q] = table
      BY <3>1, UnitsDiffer DEF RowsInv, BufferTracksDisk, Writing
    <3>2. ASSUME NEW q \in Pages, DataPage(q) \notin dirty' PROVE buf'.rows[q] = disk.rows[q]
      <4>1. q # p /\ DataPage(q) \notin dirty
        BY <3>2
      <4>2. buf'.rows[q] = buf.rows[q]
        BY <1>1, <4>1 DEF SlotSet, Shaped
      <4>3. QED
        BY <4>1, <4>2 DEF RowsInv, BufferTracksDisk, Writing
    <3>3. QED
      BY <3>1, <3>2
  <2>2. \A t \in Tables : IF Leaf(t) \in dirty' THEN t = table ELSE buf'.leaf[t] = disk.leaf[t]
    <3>1. ASSUME NEW t \in Tables, Leaf(t) \in dirty' PROVE t = table
      BY <3>1, UnitsDiffer DEF RowsInv, BufferTracksDisk, Writing
    <3>2. ASSUME NEW t \in Tables, Leaf(t) \notin dirty' PROVE buf'.leaf[t] = disk.leaf[t]
      BY <3>2 DEF RowsInv, BufferTracksDisk, Writing
    <3>3. QED
      BY <3>1, <3>2
  <2>3. Pfs \notin dirty' => buf'.pfs = disk.pfs
    BY DEF RowsInv, BufferTracksDisk, Writing
  <2>4. buf'.owner = disk'.owner /\ \A i \in DOMAIN dataPages : disk.owner[dataPages[i]] = table
    BY DEF RowsInv, BufferTracksDisk, Writing, SlotSet
  <2>5. QED
    BY <2>1, <2>2, <2>3, <2>4 DEF BufferTracksDisk
<1>5. \A u : RowsOf(disk, u)' = RowsOf(disk, u) /\ RowsOf(atOpen, u)' = RowsOf(atOpen, u)
  BY DEF RowsOf
<1>6. RowsAreIndexed'
  <2>1. RowsOf(buf, table)' = RowsOf(buf', table)
    BY DEF RowsOf
  <2>2. QED
    BY <1>5, <2>1 DEF RowsInv, RowsAreIndexed, Writing
<1>7. OwnedPagesAreTaken'
  BY DEF RowsInv, OwnedPagesAreTaken
<1>8. CommitsGoPageByPage'
  BY <1>5 DEF RowsInv, CommitsGoPageByPage
<1>9. QED
  BY <1>3, <1>4, <1>6, <1>7, <1>8 DEF RowsInv

\* Storing a record sets its slot and indexes it.
LEMMA StoredSetsSlot ==
  ASSUME NEW c, NEW k \in Keys, NEW p \in Pages, NEW s \in Slots, Shaped(c), table \in Tables
  PROVE  LET d == Stored(c, k, p, s)
         IN  /\ SlotSet(c, d, p, s, k)
             /\ {"pfs", "owner", "rows", "leaf"} \subseteq DOMAIN d
             /\ d.pfs = c.pfs
             /\ d.leaf = [c.leaf EXCEPT ![table] = @ \cup {Entry(k, p, s)}]
             /\ d.leaf \in [Tables -> SUBSET IndexEntries]
<1> DEFINE d == Stored(c, k, p, s)
<1>1. d = [c EXCEPT !.rows[p][s] = k, !.leaf[table] = @ \cup {Entry(k, p, s)}]
  BY DEF Stored
<1>2. /\ d.owner = c.owner /\ d.pfs = c.pfs
      /\ d.rows = [c.rows EXCEPT ![p] = [@ EXCEPT ![s] = k]]
      /\ d.leaf = [c.leaf EXCEPT ![table] = @ \cup {Entry(k, p, s)}]
      /\ {"pfs", "owner", "rows", "leaf"} \subseteq DOMAIN d
  BY <1>1 DEF Shaped
<1>3. d.leaf \in [Tables -> SUBSET IndexEntries]
  <2>1. Entry(k, p, s) \in IndexEntries
    BY EntryInRows
  <2>2. c.leaf[table] \cup {Entry(k, p, s)} \in SUBSET IndexEntries
    BY <2>1 DEF Shaped
  <2>3. c.leaf \in [Tables -> SUBSET IndexEntries]
    BY DEF Shaped
  <2>4. QED
    BY <1>2, <2>2, <2>3
<1>4. QED
  BY <1>2, <1>3 DEF SlotSet

LEMMA InsertKeepsRowsInv ==
  ASSUME RowsInv, NEW k \in Keys, Insert(k)
  PROVE  RowsInv' /\ OneRowChanges(RowsOf(buf, table), RowsOf(buf', table))
<1> DEFINE p == dataPages[Min(RoomyPages)]
           s == FirstFreeSlot(p)
<1>1. /\ phase = "open" /\ RoomyPages # {} /\ buf' = Stored(buf, k, p, s)
      /\ dirty' = dirty \cup {DataPage(p), Leaf(table)}
      /\ UNCHANGED <<disk, phase, table, dataPages, atOpen, intact>>
  BY DEF Insert
<1>2. KeysInv'
  BY InsertKeepsKeys DEF RowsInv
<1>3. Shaped(buf) /\ table \in Tables /\ dataPages \in Seq(Pages)
  BY <1>1 DEF RowsInv, Types
<1>4. p \in Pages /\ disk.owner[p] = table /\ \E r \in Slots : buf.rows[p][r] = NoKey
  <2>1. RoomyPages \subseteq Nat /\ RoomyPages \subseteq DOMAIN dataPages
    BY <1>3 DEF RoomyPages
  <2>2. Min(RoomyPages) \in RoomyPages
    BY <1>1, <2>1, MinOfBounded
  <2>3. Min(RoomyPages) \in DOMAIN dataPages /\ \E r \in Slots : buf.rows[p][r] = NoKey
    BY <2>2 DEF RoomyPages
  <2>4. p \in Pages
    BY <1>3, <2>3
  <2>5. disk.owner[p] = table
    BY <1>1, <2>3 DEF RowsInv, BufferTracksDisk, Writing
  <2>6. QED
    BY <2>3, <2>4, <2>5
<1>5. s \in Slots /\ buf.rows[p][s] = NoKey
  <2> HIDE DEF p
  <2> DEFINE free == {r \in Slots : buf.rows[p][r] = NoKey}
  <2>1. free \subseteq Nat /\ free # {}
    BY <1>4 DEF Slots
  <2>2. Min(free) \in free
    <3> HIDE DEF free
    <3>1. QED
      BY <2>1, MinOfBounded
  <2>3. QED
    BY <2>2 DEF FirstFreeSlot
<1> HIDE DEF p, s
<1>6. /\ SlotSet(buf, buf', p, s, k)
      /\ {"pfs", "owner", "rows", "leaf"} \subseteq DOMAIN buf'
      /\ buf'.pfs = buf.pfs
      /\ buf'.leaf = [buf.leaf EXCEPT ![table] = @ \cup {Entry(k, p, s)}]
      /\ buf'.leaf \in [Tables -> SUBSET IndexEntries]
  <2> DEFINE d == Stored(buf, k, p, s)
  <2>1. /\ SlotSet(buf, d, p, s, k)
        /\ {"pfs", "owner", "rows", "leaf"} \subseteq DOMAIN d
        /\ d.pfs = buf.pfs
        /\ d.leaf = [buf.leaf EXCEPT ![table] = @ \cup {Entry(k, p, s)}]
        /\ d.leaf \in [Tables -> SUBSET IndexEntries]
    BY <1>3, <1>4, <1>5, StoredSetsSlot
  <2>2. buf' = d
    BY <1>1
  <2> HIDE DEF d
  <2>3. QED
    BY <2>1, <2>2
<1>7. ASSUME intact
      PROVE  buf'.leaf[table] = RowsOf(buf', table)
  <2>1. buf.owner[p] = table
    BY <1>1, <1>4 DEF RowsInv, BufferTracksDisk, Writing
  <2>2. RowsOf(buf', table) = {e \in RowsOf(buf, table) : ~(e.page = p /\ e.slot = s)} \cup {Entry(k, p, s)}
    <3>1. RowsOf(buf', table) = RowsAfter(buf, table, p, s, k)
      BY <1>3, <1>4, <1>5, <1>6, RowsWithSlotSet
    <3>2. k # NoKey
      BY KeysAreNotNoKey
    <3>3. QED
      BY <2>1, <3>1, <3>2 DEF RowsAfter
  <2>3. \A e \in RowsOf(buf, table) : ~(e.page = p /\ e.slot = s)
    BY <1>5, KeysAreNotNoKey DEF RowsOf, IndexEntries
  <2>4. buf.leaf[table] = RowsOf(buf, table)
    BY <1>1, <1>7 DEF RowsInv, RowsAreIndexed, Writing
  <2>5. buf'.leaf[table] = buf.leaf[table] \cup {Entry(k, p, s)}
    BY <1>3, <1>6 DEF Shaped
  <2>6. QED
    BY <2>2, <2>3, <2>4, <2>5
<1>8. \A u \in Tables \ {table} : buf'.leaf[u] = buf.leaf[u]
  BY <1>3, <1>6 DEF Shaped
<1>9. RowsInv'
  BY <1>1, <1>2, <1>4, <1>5, <1>6, <1>7, <1>8, SlotStepKeepsRowsInv
<1>10. QED
  BY <1>3, <1>4, <1>5, <1>6, <1>9, SlotSetChangesOneRow

\* What Delete and Update look at is a record of the writer's table; while its
\* rows are indexed, the entry they find is the one of that record.
LEMMA FoundEntry ==
  ASSUME RowsInv, phase = "open", NEW p \in Pages, NEW s \in Slots,
         p \in Range(dataPages), buf.rows[p][s] # NoKey
  PROVE  /\ disk.owner[p] = table /\ buf.owner[p] = table
         /\ buf.rows[p][s] \in Keys
         /\ intact => EntriesAt(table, p, s) = {Entry(buf.rows[p][s], p, s)}
<1>1. disk.owner[p] = table /\ buf.owner[p] = table
  BY DEF RowsInv, BufferTracksDisk, Writing, Range
<1>2. buf.rows[p][s] \in Keys
  BY DEF RowsInv, Types, Shaped
<1>3. ASSUME intact
      PROVE  EntriesAt(table, p, s) = {Entry(buf.rows[p][s], p, s)}
  <2>1. buf.leaf[table] = RowsOf(buf, table)
    BY <1>3 DEF RowsInv, RowsAreIndexed, Writing
  <2>2. Entry(buf.rows[p][s], p, s) \in RowsOf(buf, table)
    <3> DEFINE k == buf.rows[p][s]
    <3>1. k \in Keys /\ buf.owner[p] = table /\ buf.rows[p][s] = k
      BY <1>1, <1>2
    <3> HIDE DEF k
    <3>2. Entry(k, p, s) \in RowsOf(buf, table)
      BY <3>1, EntryInRows
    <3>3. QED
      BY <3>2 DEF k
  <2>3. ASSUME NEW e \in RowsOf(buf, table), e.page = p, e.slot = s
        PROVE  e = Entry(buf.rows[p][s], p, s)
    <3>1. e \in IndexEntries /\ buf.rows[p][s] = e.key
      BY <2>3 DEF RowsOf
    <3>2. QED
      BY <2>3, <3>1, EntriesAreEntries
  <2>4. Entry(buf.rows[p][s], p, s).page = p /\ Entry(buf.rows[p][s], p, s).slot = s
    BY DEF Entry
  <2>5. QED
    BY <2>1, <2>2, <2>3, <2>4 DEF EntriesAt
<1>4. QED
  BY <1>1, <1>2, <1>3

\* So the first of the entries found is that one.
LEMMA FirstOfOne ==
  ASSUME NEW S, NEW x, S = {x}, x.key \in Keys
  PROVE  (CHOOSE e \in S : \A f \in S : e.key <= f.key) = x
<1>1. \A f \in S : x.key <= f.key
  <2>1. x.key \in Nat
    OBVIOUS
  <2>2. x.key <= x.key
    BY <2>1
  <2>3. QED
    BY <2>2
<1>2. QED
  BY <1>1

LEMMA DeleteKeepsRowsInv ==
  ASSUME RowsInv, NEW p \in Pages, NEW s \in Slots, Delete(p, s)
  PROVE  RowsInv' /\ OneRowChanges(RowsOf(buf, table), RowsOf(buf', table))
<1> DEFINE gone == CHOOSE e \in EntriesAt(table, p, s) : \A f \in EntriesAt(table, p, s) : e.key <= f.key
           old == Entry(buf.rows[p][s], p, s)
<1>1. /\ phase = "open" /\ p \in Range(dataPages) /\ buf.rows[p][s] # NoKey
      /\ buf' = [buf EXCEPT !.rows[p][s] = NoKey, !.leaf[table] = @ \ {gone}]
      /\ dirty' = dirty \cup {DataPage(p), Leaf(table)}
      /\ UNCHANGED <<disk, phase, table, dataPages, atOpen, intact>>
  BY DEF Delete
<1>2. KeysInv'
  BY DeleteKeepsKeys DEF RowsInv
<1>3. Shaped(buf) /\ table \in Tables
  BY <1>1 DEF RowsInv, Types
<1>4. /\ disk.owner[p] = table /\ buf.owner[p] = table
      /\ intact => EntriesAt(table, p, s) = {old}
      /\ old.key \in Keys
  <2>1. old.key = buf.rows[p][s]
    BY DEF Entry
  <2>2. QED
    BY <1>1, <2>1, FoundEntry
<1>5. intact => gone = old
  <2> HIDE DEF old
  <2>1. QED
    BY <1>4, FirstOfOne
<1> HIDE DEF gone
<1>6. /\ SlotSet(buf, buf', p, s, NoKey)
      /\ {"pfs", "owner", "rows", "leaf"} \subseteq DOMAIN buf'
      /\ buf'.pfs = buf.pfs
      /\ buf'.leaf = [buf.leaf EXCEPT ![table] = @ \ {gone}]
  BY <1>1, <1>3 DEF Shaped, SlotSet
<1>7. /\ buf'.leaf \in [Tables -> SUBSET IndexEntries]
      /\ buf'.leaf[table] = buf.leaf[table] \ {gone}
      /\ \A u \in Tables \ {table} : buf'.leaf[u] = buf.leaf[u]
  BY <1>3, <1>6 DEF Shaped
<1>8. ASSUME intact
      PROVE  buf'.leaf[table] = RowsOf(buf', table)
  <2>1. RowsOf(buf', table) = {e \in RowsOf(buf, table) : ~(e.page = p /\ e.slot = s)}
    <3>1. RowsOf(buf', table) = RowsAfter(buf, table, p, s, NoKey)
      <4> DEFINE none == NoKey
      <4>1. none \in Keys \cup {NoKey} /\ SlotSet(buf, buf', p, s, none)
        BY <1>6
      <4> HIDE DEF none
      <4>2. RowsOf(buf', table) = RowsAfter(buf, table, p, s, none)
        BY <1>3, <4>1, RowsWithSlotSet
      <4>3. QED
        BY <4>2 DEF none
    <3>2. QED
      BY <3>1 DEF RowsAfter
  <2>2. buf.leaf[table] = RowsOf(buf, table)
    BY <1>1, <1>8 DEF RowsInv, RowsAreIndexed, Writing
  <2>3. \A e \in buf.leaf[table] : e \in EntriesAt(table, p, s) <=> e.page = p /\ e.slot = s
    BY DEF EntriesAt
  <2>4. \A e \in buf.leaf[table] : e = gone <=> e.page = p /\ e.slot = s
    BY <1>4, <1>5, <1>8, <2>3
  <2>5. QED
    BY <1>7, <2>1, <2>2, <2>4
<1>9. RowsInv'
  BY <1>1, <1>2, <1>4, <1>6, <1>7, <1>8, SlotStepKeepsRowsInv
<1>10. QED
  BY <1>3, <1>6, <1>9, SlotSetChangesOneRow

LEMMA UpdateKeepsRowsInv ==
  ASSUME RowsInv, NEW p \in Pages, NEW s \in Slots, NEW k \in Keys, Update(p, s, k)
  PROVE  RowsInv' /\ OneRowChanges(RowsOf(buf, table), RowsOf(buf', table))
<1> DEFINE found == EntriesAt(table, p, s)
           moved == k # buf.rows[p][s]
           gone == CHOOSE e \in found : \A f \in found : e.key <= f.key
           old == Entry(buf.rows[p][s], p, s)
<1>1. /\ phase = "open" /\ p \in Range(dataPages) /\ buf.rows[p][s] # NoKey
      /\ UNCHANGED <<disk, phase, table, dataPages, atOpen, intact>>
  BY DEF Update
<1>2. KeysInv'
  BY UpdateKeepsKeys DEF RowsInv
<1>3. Shaped(buf) /\ table \in Tables
  BY <1>1 DEF RowsInv, Types
<1>4. /\ disk.owner[p] = table /\ buf.owner[p] = table
      /\ intact => found = {old}
      /\ old.key = buf.rows[p][s] /\ old.key \in Keys
  <2>1. old.key = buf.rows[p][s]
    BY DEF Entry
  <2>2. QED
    BY <1>1, <2>1, FoundEntry
<1>5. intact => gone = old
  <2> HIDE DEF old, found
  <2>1. QED
    BY <1>4, FirstOfOne
<1>6. CASE moved /\ found # {}
  <2>1. /\ buf' = [Stored(buf, k, p, s) EXCEPT !.leaf[table] = @ \ {gone}]
        /\ dirty' = dirty \cup {DataPage(p), Leaf(table)}
    BY <1>6 DEF Update
  <2> HIDE DEF gone, found, old
  <2> DEFINE d == Stored(buf, k, p, s)
  <2>2. /\ SlotSet(buf, d, p, s, k)
        /\ {"pfs", "owner", "rows", "leaf"} \subseteq DOMAIN d
        /\ d.pfs = buf.pfs
        /\ d.leaf = [buf.leaf EXCEPT ![table] = @ \cup {Entry(k, p, s)}]
        /\ d.leaf \in [Tables -> SUBSET IndexEntries]
    BY <1>3, StoredSetsSlot
  <2>3. buf' = [d EXCEPT !.leaf[table] = @ \ {gone}]
    BY <2>1
  <2> HIDE DEF d
  <2>4. /\ SlotSet(buf, buf', p, s, k)
        /\ {"pfs", "owner", "rows", "leaf"} \subseteq DOMAIN buf'
        /\ buf'.pfs = buf.pfs
        /\ buf'.leaf = [d.leaf EXCEPT ![table] = @ \ {gone}]
    BY <2>2, <2>3 DEF SlotSet
  <2>5. /\ buf'.leaf \in [Tables -> SUBSET IndexEntries]
        /\ buf'.leaf[table] = (buf.leaf[table] \cup {Entry(k, p, s)}) \ {gone}
        /\ \A u \in Tables \ {table} : buf'.leaf[u] = buf.leaf[u]
    BY <1>3, <2>2, <2>4 DEF Shaped
  <2>6. ASSUME intact
        PROVE  buf'.leaf[table] = RowsOf(buf', table)
    <3>1. RowsOf(buf', table) = {e \in RowsOf(buf, table) : ~(e.page = p /\ e.slot = s)} \cup {Entry(k, p, s)}
      <4>1. RowsOf(buf', table) = RowsAfter(buf, table, p, s, k)
        BY <1>3, <2>4, RowsWithSlotSet
      <4>2. k # NoKey
        BY KeysAreNotNoKey
      <4>3. QED
        BY <1>4, <4>1, <4>2 DEF RowsAfter
    <3>2. buf.leaf[table] = RowsOf(buf, table)
      BY <1>1, <2>6 DEF RowsInv, RowsAreIndexed, Writing
    <3>3. \A e \in buf.leaf[table] : e \in found <=> e.page = p /\ e.slot = s
      BY DEF EntriesAt, found
    <3>4. \A e \in buf.leaf[table] : e = gone <=> e.page = p /\ e.slot = s
      BY <1>4, <1>5, <2>6, <3>3
    <3>5. Entry(k, p, s) # gone
      <4>1. Entry(k, p, s).key = k
        BY DEF Entry
      <4>2. QED
        BY <1>4, <1>5, <1>6, <2>6, <4>1
    <3>6. QED
      BY <2>5, <3>1, <3>2, <3>4, <3>5
  <2>7. RowsInv'
    BY <1>1, <1>2, <1>4, <2>1, <2>4, <2>5, <2>6, SlotStepKeepsRowsInv
  <2>8. QED
    BY <1>3, <2>4, <2>7, SlotSetChangesOneRow
<1>7. CASE ~(moved /\ found # {})
  <2>1. buf' = [buf EXCEPT !.rows[p][s] = k] /\ dirty' = dirty \cup {DataPage(p)}
    BY <1>7 DEF Update
  <2>2. /\ SlotSet(buf, buf', p, s, k)
        /\ {"pfs", "owner", "rows", "leaf"} \subseteq DOMAIN buf'
        /\ buf'.pfs = buf.pfs
        /\ buf'.leaf = buf.leaf
    BY <1>3, <2>1 DEF SlotSet, Shaped
  <2>3. ASSUME intact
        PROVE  buf'.leaf[table] = RowsOf(buf', table)
    <3>1. found # {}
      <4> HIDE DEF found, old
      <4>1. QED
        BY <1>4, <2>3
    <3>2. k = buf.rows[p][s]
      BY <1>7, <3>1
    <3>3. buf'.rows = buf.rows /\ buf'.owner = buf.owner
      BY <1>3, <2>2, <3>2 DEF SlotSet, Shaped
    <3>4. RowsOf(buf', table) = RowsOf(buf, table)
      BY <3>3 DEF RowsOf
    <3>5. QED
      BY <1>1, <2>2, <2>3, <3>4 DEF RowsInv, RowsAreIndexed, Writing
  <2>4. buf'.leaf \in [Tables -> SUBSET IndexEntries]
    BY <1>3, <2>2 DEF Shaped
  <2>5. RowsInv'
    BY <1>1, <1>2, <1>4, <2>1, <2>2, <2>3, <2>4, SlotStepKeepsRowsInv
  <2>6. QED
    BY <1>3, <2>2, <2>5, SlotSetChangesOneRow
<1>8. QED
  BY <1>6, <1>7

-----------------------------------------------------------------------------
(* Growth.                                                                 *)

\* d is c with page p taken by the writer's table.
PageTaken(c, d, p) ==
  /\ {"pfs", "owner", "rows", "leaf"} \subseteq DOMAIN d
  /\ d.owner = [c.owner EXCEPT ![p] = table]
  /\ d.rows = [c.rows EXCEPT ![p] = buf.rows[p]]
  /\ d.leaf = c.leaf

LEMMA GrowthTakesPage ==
  ASSUME NEW p \in Pages, Shaped(disk), Shaped(buf)
  PROVE  /\ PageTaken(disk, WithNewPage(disk, p), p)
         /\ WithNewPage(disk, p).pfs = disk.pfs
         /\ PageTaken(disk, Listed(WithNewPage(disk, p), p), p)
         /\ Listed(WithNewPage(disk, p), p).pfs = disk.pfs
         /\ PageTaken(buf, WithNewPage(Reserved(buf, p), p), p)
         /\ WithNewPage(Reserved(buf, p), p).pfs = buf.pfs \cup {p}
         /\ PageTaken(buf, Listed(WithNewPage(Reserved(buf, p), p), p), p)
         /\ Listed(WithNewPage(Reserved(buf, p), p), p).pfs = buf.pfs \cup {p}
BY DEF PageTaken, WithNewPage, Listed, Reserved, Shaped

LEMMA PageTakenShaped ==
  ASSUME NEW c, NEW d, NEW p \in Pages, Shaped(c), Shaped(buf), table \in Tables,
         PageTaken(c, d, p), d.pfs \subseteq Pages
  PROVE  Shaped(d)
BY DEF Shaped, PageTaken

LEMMA PageTakenAt ==
  ASSUME NEW c, NEW d, NEW p \in Pages, Shaped(c), PageTaken(c, d, p)
  PROVE  /\ d.owner[p] = table
         /\ d.rows[p] = buf.rows[p]
         /\ \A q \in Pages \ {p} : d.owner[q] = c.owner[q] /\ d.rows[q] = c.rows[q]
<1>1. DOMAIN c.owner = Pages /\ DOMAIN c.rows = Pages
  BY DEF Shaped
<1>2. d.owner = [c.owner EXCEPT ![p] = table] /\ d.rows = [c.rows EXCEPT ![p] = buf.rows[p]]
  BY DEF PageTaken
<1>3. d.owner[p] = table /\ \A q \in Pages \ {p} : d.owner[q] = c.owner[q]
  BY <1>1, <1>2
<1>4. d.rows[p] = buf.rows[p] /\ \A q \in Pages \ {p} : d.rows[q] = c.rows[q]
  BY <1>1, <1>2
<1>5. QED
  BY <1>3, <1>4

\* If nobody owned the page, no table but the one that grows has other rows, and
\* that one has all it had, and no more if the page is empty.
LEMMA PageTakenRows ==
  ASSUME NEW c, NEW d, NEW p \in Pages, Shaped(c), table \in Tables,
         PageTaken(c, d, p), c.owner[p] = NoTable
  PROVE  /\ \A u \in Tables \ {table} : RowsOf(d, u) = RowsOf(c, u)
         /\ RowsOf(c, table) \subseteq RowsOf(d, table)
         /\ buf.rows[p] = EmptyPage => RowsOf(d, table) = RowsOf(c, table)
<1>1. /\ d.owner[p] = table /\ d.rows[p] = buf.rows[p]
      /\ \A q \in Pages \ {p} : d.owner[q] = c.owner[q] /\ d.rows[q] = c.rows[q]
  BY PageTakenAt
<1>2. \A u \in Tables : u # NoTable
  BY KeysAreNotNoKey
<1>3. \A x, u : \A e \in IndexEntries :
        e \in RowsOf(x, u) <=> x.owner[e.page] = u /\ x.rows[e.page][e.slot] = e.key
  BY DEF RowsOf
<1>4. \A e \in IndexEntries : e.page \in Pages
  BY EntriesAreEntries
<1>5. ASSUME NEW u \in Tables, NEW e \in IndexEntries, e.page # p
      PROVE  e \in RowsOf(d, u) <=> e \in RowsOf(c, u)
  <2>1. d.owner[e.page] = c.owner[e.page] /\ d.rows[e.page] = c.rows[e.page]
    BY <1>1, <1>4, <1>5
  <2>2. QED
    BY <1>3, <2>1
<1>6. ASSUME NEW u \in Tables, NEW e \in IndexEntries, e.page = p
      PROVE  e \notin RowsOf(c, u) /\ (e \in RowsOf(d, u) => u = table /\ buf.rows[p][e.slot] = e.key)
  BY <1>1, <1>2, <1>3, <1>6
<1>7. \A x, u : RowsOf(x, u) \subseteq IndexEntries
  BY RowsOfType
<1>8. ASSUME NEW u \in Tables \ {table}
      PROVE  RowsOf(d, u) = RowsOf(c, u)
  <2>1. \A e \in IndexEntries : e \in RowsOf(d, u) <=> e \in RowsOf(c, u)
    BY <1>5, <1>6, <1>8
  <2>2. QED
    BY <1>7, <2>1
<1>9. RowsOf(c, table) \subseteq RowsOf(d, table)
  BY <1>5, <1>6, <1>7
<1>10. ASSUME buf.rows[p] = EmptyPage
       PROVE  RowsOf(d, table) \subseteq RowsOf(c, table)
  <2>1. ASSUME NEW e \in IndexEntries, e.page = p, e \in RowsOf(d, table) PROVE FALSE
    <3>1. EmptyPage[e.slot] = e.key
      BY <1>6, <1>10, <2>1
    <3>2. e.key \in Keys /\ e.slot \in Slots
      BY EntriesAreEntries
    <3>3. QED
      BY <3>1, <3>2, KeysAreNotNoKey DEF EmptyPage
  <2>2. QED
    BY <1>5, <1>7, <2>1
<1>11. QED
  BY <1>8, <1>9, <1>10

\* The page a table grows by, on a file in good order.
LEMMA NewPageIsUnowned ==
  ASSUME RowsInv, intact, phase \in {"open", "closed"}, Pages \ buf.pfs # {}
  PROVE  disk.owner[NewPage] = NoTable /\ (phase = "open" => buf.owner[NewPage] = NoTable)
<1>1. NewPage \in Pages /\ NewPage \notin buf.pfs
  BY NewPageIsFree DEF RowsInv
<1>2. disk.owner[NewPage] = NoTable
  BY <1>1 DEF RowsInv, OwnedPagesAreTaken
<1>3. QED
  BY <1>2 DEF RowsInv, BufferTracksDisk, Writing

\* What growth writes at once, on a file in good order.
LEMMA GrowthOnDisk ==
  ASSUME RowsInv, phase \in {"open", "closed"}, Pages \ buf.pfs # {},
         PageTaken(disk, disk', NewPage)
  PROVE  intact => /\ \A u \in Tables \ {table} : RowsOf(disk', u) = RowsOf(disk, u)
                   /\ RowsOf(disk, table) \subseteq RowsOf(disk', table)
                   /\ buf.rows[NewPage] = EmptyPage => RowsOf(disk', table) = RowsOf(disk, table)
<1> SUFFICES ASSUME intact
             PROVE  /\ \A u \in Tables \ {table} : RowsOf(disk', u) = RowsOf(disk, u)
                    /\ RowsOf(disk, table) \subseteq RowsOf(disk', table)
                    /\ buf.rows[NewPage] = EmptyPage => RowsOf(disk', table) = RowsOf(disk, table)
  OBVIOUS
<1>1. NewPage \in Pages /\ disk.owner[NewPage] = NoTable
  BY NewPageIsFree, NewPageIsUnowned DEF RowsInv
<1>2. Shaped(disk) /\ table \in Tables
  BY DEF RowsInv, Types
<1>3. QED
  BY <1>1, <1>2, PageTakenRows

\* What growth changes in the buffers of an open writer.
LEMMA GrowthKeepsTrack ==
  ASSUME RowsInv, phase = "open", NEW p \in Pages,
         UNCHANGED <<phase, table>>,
         Shaped(disk'), Shaped(buf'), PageTaken(disk, disk', p),
         buf'.owner = disk'.owner,
         \A q \in Pages \ {p} : buf'.rows[q] = buf.rows[q],
         \A t \in Tables \ {table} : buf'.leaf[t] = buf.leaf[t],
         Leaf(table) \in dirty' \/ (buf'.leaf[table] = buf.leaf[table] /\ Leaf(table) \notin dirty),
         dataPages' = Append(dataPages, p) \/ dataPages' = dataPages,
         dirty \cup {Pfs, DataPage(p)} \subseteq dirty',
         dirty' \subseteq dirty \cup {Pfs, DataPage(p), Leaf(table), List(table)}
  PROVE  BufferTracksDisk'
<1>1. table \in Tables /\ dataPages \in Seq(Pages) /\ Shaped(disk)
  BY DEF RowsInv, Types
<1>2. /\ disk'.owner[p] = table
      /\ \A q \in Pages \ {p} : disk'.owner[q] = disk.owner[q] /\ disk'.rows[q] = disk.rows[q]
  BY <1>1, PageTakenAt
<1>3. ASSUME NEW i \in DOMAIN dataPages'
      PROVE  disk'.owner[dataPages'[i]] = table
  <2>1. \A j \in DOMAIN dataPages : dataPages[j] \in Pages /\ disk.owner[dataPages[j]] = table
    BY <1>1 DEF RowsInv, BufferTracksDisk, Writing
  <2>2. dataPages'[i] = p \/ (i \in DOMAIN dataPages /\ dataPages'[i] = dataPages[i])
    BY <1>1
  <2>3. QED
    BY <1>2, <2>1, <2>2
<1>4. ASSUME NEW q \in Pages, DataPage(q) \in dirty' PROVE disk'.owner[q] = table
  <2>1. q = p \/ DataPage(q) \in dirty
    BY <1>4, UnitsDiffer
  <2>2. DataPage(q) \in dirty => disk.owner[q] = table
    BY DEF RowsInv, BufferTracksDisk, Writing
  <2>3. QED
    BY <1>2, <2>1, <2>2
<1>5. ASSUME NEW q \in Pages, DataPage(q) \notin dirty' PROVE buf'.rows[q] = disk'.rows[q]
  <2>1. q # p /\ DataPage(q) \notin dirty
    BY <1>5
  <2>2. buf.rows[q] = disk.rows[q]
    BY <2>1 DEF RowsInv, BufferTracksDisk, Writing
  <2>3. QED
    BY <1>2, <2>1, <2>2
<1>6. ASSUME NEW t \in Tables, Leaf(t) \in dirty' PROVE t = table
  BY <1>6, UnitsDiffer DEF RowsInv, BufferTracksDisk, Writing
<1>7. ASSUME NEW t \in Tables, Leaf(t) \notin dirty' PROVE buf'.leaf[t] = disk'.leaf[t]
  <2>1. Leaf(t) \notin dirty /\ buf'.leaf[t] = buf.leaf[t]
    BY <1>7
  <2>2. disk'.leaf = disk.leaf
    BY DEF PageTaken
  <2>3. QED
    BY <2>1, <2>2 DEF RowsInv, BufferTracksDisk, Writing
<1>8. QED
  BY <1>3, <1>4, <1>5, <1>6, <1>7 DEF BufferTracksDisk

\* What the refinement needs to know of a step that grows the table.
GrowthSafe ==
  intact => /\ \A u \in Tables \ {table} : RowsOf(disk', u) = RowsOf(disk, u)
            /\ RowsOf(disk, table) \subseteq RowsOf(disk', table)
            /\ intact' => /\ phase = "open"
                          /\ RowsOf(disk', table) = RowsOf(disk, table)
                          /\ OneRowChanges(RowsOf(buf, table), RowsOf(buf', table))

\* A writer that is closed, or a step after which nothing is promised, leaves
\* little to show.
LEMMA DamagingStepKeepsRowsInv ==
  ASSUME KeysInv', Types', BufferTracksDisk', ~intact'
  PROVE  RowsInv'
BY DEF RowsInv, RowsAreIndexed, OwnedPagesAreTaken, CommitsGoPageByPage

LEMMA ClosedTracksNothing ==
  ASSUME phase' \in {"none", "closed"}
  PROVE  BufferTracksDisk'
BY DEF BufferTracksDisk, Writing

LEMMA InsertGrowingKeepsRowsInv ==
  ASSUME RowsInv, NEW k \in Keys, InsertGrowing(k)
  PROVE  RowsInv' /\ GrowthSafe
<1> DEFINE p == NewPage
           after == Listed(WithNewPage(Reserved(buf, p), p), p)
           fits == phase = "open" /\ buf.rows[p][1] = NoKey
<1>1. /\ phase \in {"open", "closed"} /\ Pages \ buf.pfs # {}
      /\ disk' = Listed(WithNewPage(disk, p), p)
      /\ buf' = IF fits THEN Stored(after, k, p, 1) ELSE after
      /\ dirty' = dirty \cup {Pfs, DataPage(p), List(table)} \cup (IF fits THEN {Leaf(table)} ELSE {})
      /\ dataPages' = Append(dataPages, p)
      /\ intact' = (intact /\ GrowsCleanly(p))
      /\ UNCHANGED <<phase, table, atOpen>>
  BY DEF InsertGrowing, MustGrow, GrownOnDisk
<1>2. KeysInv'
  BY InsertGrowingKeepsKeys DEF RowsInv
<1>3. p \in Pages /\ p \notin buf.pfs
  BY <1>1, NewPageIsFree DEF RowsInv
<1>4. Shaped(disk) /\ Shaped(buf) /\ table \in Tables /\ dataPages \in Seq(Pages)
  BY <1>1 DEF RowsInv, Types
<1> HIDE DEF p
<1>5. PageTaken(disk, disk', p) /\ disk'.pfs = disk.pfs
  BY <1>1, <1>3, <1>4, GrowthTakesPage
<1>6. PageTaken(buf, after, p) /\ after.pfs = buf.pfs \cup {p}
  BY <1>3, <1>4, GrowthTakesPage
<1> HIDE DEF after
<1>7. Shaped(disk')
  BY <1>3, <1>4, <1>5, PageTakenShaped DEF Shaped
<1>8. Shaped(after)
  <2>1. after.pfs \subseteq Pages
    BY <1>3, <1>4, <1>6 DEF Shaped
  <2>2. QED
    BY <1>3, <1>4, <1>6, <2>1, PageTakenShaped
<1>9. 1 \in Slots
  BY DEF Slots
<1> DEFINE stored == Stored(after, k, p, 1)
<1>10. /\ SlotSet(after, stored, p, 1, k)
       /\ {"pfs", "owner", "rows", "leaf"} \subseteq DOMAIN stored
       /\ stored.pfs = after.pfs
       /\ stored.leaf = [after.leaf EXCEPT ![table] = @ \cup {Entry(k, p, 1)}]
       /\ stored.leaf \in [Tables -> SUBSET IndexEntries]
  BY <1>3, <1>4, <1>8, <1>9, StoredSetsSlot
<1> HIDE DEF stored
<1>11. Shaped(stored)
  <2>1. stored.owner = after.owner /\ stored.rows = [after.rows EXCEPT ![p] = [@ EXCEPT ![1] = k]]
    BY <1>10 DEF SlotSet
  <2>2. after.rows \in [Pages -> [Slots -> Keys \cup {NoKey}]]
    BY <1>8 DEF Shaped
  <2>3. [after.rows[p] EXCEPT ![1] = k] \in [Slots -> Keys \cup {NoKey}]
    BY <1>3, <1>9, <2>2
  <2>4. stored.rows \in [Pages -> [Slots -> Keys \cup {NoKey}]]
    BY <1>3, <2>1, <2>2, <2>3
  <2>5. QED
    BY <1>8, <1>10, <2>1, <2>4 DEF Shaped
<1>12. IF fits THEN buf' = stored ELSE buf' = after
  BY <1>1 DEF stored
<1>13. Types'
  <2>1. dataPages' \in Seq(Pages)
    BY <1>1, <1>3, <1>4
  <2>2. Shaped(buf)'
    <3>1. Shaped(buf')
      BY <1>8, <1>11, <1>12
    <3>2. QED
      BY <3>1 DEF Shaped
  <2>3. Shaped(disk)'
    BY <1>7 DEF Shaped
  <2>4. phase' \in {"none", "open", "commit", "closed"} /\ table' \in Tables
    BY <1>1, <1>4
  <2>5. QED
    BY <2>1, <2>2, <2>3, <2>4 DEF Types
<1>14. BufferTracksDisk'
  <2>1. CASE phase = "closed"
    BY <1>1, <2>1, ClosedTracksNothing
  <2>2. CASE phase = "open"
    <3>1. after.owner = disk'.owner
      BY <1>5, <1>6, <2>2 DEF PageTaken, RowsInv, BufferTracksDisk, Writing
    <3>2. buf'.owner = disk'.owner
      BY <1>10, <1>12, <3>1 DEF SlotSet
    <3>3. \A q \in Pages \ {p} : after.rows[q] = buf.rows[q]
      BY <1>3, <1>4, <1>6, PageTakenAt
    <3>4. \A q \in Pages \ {p} : stored.rows[q] = after.rows[q]
      BY <1>8, <1>10 DEF SlotSet, Shaped
    <3>5. \A q \in Pages \ {p} : buf'.rows[q] = buf.rows[q]
      BY <1>12, <3>3, <3>4
    <3>6. after.leaf = buf.leaf
      BY <1>6 DEF PageTaken
    <3>7. \A t \in Tables \ {table} : buf'.leaf[t] = buf.leaf[t]
      BY <1>4, <1>10, <1>12, <3>6 DEF Shaped
    <3>8. Leaf(table) \in dirty' \/ (buf'.leaf[table] = buf.leaf[table] /\ Leaf(table) \notin dirty)
      <4>1. CASE fits \/ Leaf(table) \in dirty
        BY <1>1, <4>1
      <4>2. CASE ~fits /\ Leaf(table) \notin dirty
        BY <1>12, <3>6, <4>2
      <4>3. QED
        BY <4>1, <4>2
    <3>9. /\ dirty \cup {Pfs, DataPage(p)} \subseteq dirty'
          /\ dirty' \subseteq dirty \cup {Pfs, DataPage(p), Leaf(table), List(table)}
      BY <1>1
    <3>10. Shaped(buf')
      BY <1>8, <1>11, <1>12
    <3>11. dataPages' = Append(dataPages, p) /\ UNCHANGED <<phase, table>>
      BY <1>1
    <3>12. QED
      BY <1>3, <1>5, <1>7, <2>2, <3>2, <3>5, <3>7, <3>8, <3>9, <3>10, <3>11, GrowthKeepsTrack
  <2>3. QED
    BY <1>1, <2>1, <2>2
<1>15. intact => /\ \A u \in Tables \ {table} : RowsOf(disk', u) = RowsOf(disk, u)
                 /\ RowsOf(disk, table) \subseteq RowsOf(disk', table)
                 /\ buf.rows[p] = EmptyPage => RowsOf(disk', table) = RowsOf(disk, table)
  BY <1>1, <1>5, GrowthOnDisk DEF p
<1>16. CASE ~intact'
  BY <1>2, <1>13, <1>14, <1>15, <1>16, DamagingStepKeepsRowsInv DEF GrowthSafe
<1>17. CASE intact'
  <2>1. intact /\ phase = "open" /\ buf.rows[p] = EmptyPage
    BY <1>1, <1>17 DEF GrowsCleanly
  <2>2. fits /\ buf' = stored
    BY <1>9, <1>12, <2>1 DEF EmptyPage
  <2>3. buf.owner[p] = NoTable
    BY <1>1, <2>1, NewPageIsUnowned DEF p
  <2>4. /\ \A u \in Tables : RowsOf(disk', u) = RowsOf(disk, u)
        /\ disk'.leaf = disk.leaf
    BY <1>5, <1>15, <2>1 DEF PageTaken
  <2>5. RowsOf(after, table) = RowsOf(buf, table)
    BY <1>3, <1>4, <1>6, <2>1, <2>3, PageTakenRows
  <2>6. after.owner[p] = table /\ after.rows[p] = EmptyPage
    BY <1>3, <1>4, <1>6, <2>1, PageTakenAt
  <2>7. RowsOf(stored, table) = RowsAfter(after, table, p, 1, k)
    BY <1>3, <1>4, <1>8, <1>9, <1>10, RowsWithSlotSet
  <2>8. RowsOf(stored, table) = RowsOf(buf, table) \cup {Entry(k, p, 1)}
    <3>1. \A e \in RowsOf(after, table) : ~(e.page = p /\ e.slot = 1)
      <4>1. ASSUME NEW e \in RowsOf(after, table), e.page = p PROVE FALSE
        <5>1. e \in IndexEntries /\ after.rows[p][e.slot] = e.key
          BY <4>1 DEF RowsOf
        <5>2. e.key \in Keys /\ e.slot \in Slots /\ EmptyPage[e.slot] = e.key
          BY <2>6, <5>1, EntriesAreEntries
        <5>3. QED
          BY <5>2, KeysAreNotNoKey DEF EmptyPage
      <4>2. QED
        BY <4>1
    <3>2. k # NoKey
      BY KeysAreNotNoKey
    <3>3. RowsAfter(after, table, p, 1, k) = RowsOf(after, table) \cup {Entry(k, p, 1)}
      BY <2>6, <3>1, <3>2 DEF RowsAfter
    <3>4. QED
      BY <2>5, <2>7, <3>3
  <2>9. stored.leaf[table] = buf.leaf[table] \cup {Entry(k, p, 1)}
    BY <1>4, <1>6, <1>10 DEF PageTaken, Shaped
  <2>10. stored.leaf[table] = RowsOf(stored, table)
    <3>1. buf.leaf[table] = RowsOf(buf, table)
      BY <2>1 DEF RowsInv, RowsAreIndexed, Writing
    <3>2. QED
      BY <2>8, <2>9, <3>1
  <2>11. /\ \A u : RowsOf(disk, u)' = RowsOf(disk', u)
         /\ RowsOf(disk, table)' = RowsOf(disk', table)
         /\ RowsOf(buf, table)' = RowsOf(stored, table)
         /\ RowsOf(atOpen, table)' = RowsOf(atOpen, table)
    BY <1>1, <2>2 DEF RowsOf
  <2>12. RowsAreIndexed'
    <3>1. \A t \in Tables : disk.leaf[t] = RowsOf(disk, t)
      BY <2>1 DEF RowsInv, RowsAreIndexed
    <3>2. \A t \in Tables : disk'.leaf[t] = RowsOf(disk, t)'
      BY <2>4, <2>11, <3>1
    <3>3. buf'.leaf[table] = RowsOf(buf, table)'
      BY <2>2, <2>10, <2>11
    <3>4. QED
      BY <3>2, <3>3, <1>1 DEF RowsAreIndexed
  <2>13. OwnedPagesAreTaken'
    <3>1. \A q \in Pages : disk'.owner[q] # NoTable => q = p \/ disk.owner[q] # NoTable
      BY <1>3, <1>4, <1>5, PageTakenAt
    <3>2. \A q \in Pages : disk.owner[q] # NoTable => q \in buf.pfs
      BY <2>1 DEF RowsInv, OwnedPagesAreTaken
    <3>3. buf'.pfs = buf.pfs \cup {p}
      BY <1>6, <1>10, <2>2
    <3>4. phase' = "open"
      BY <1>1, <2>1
    <3>5. QED
      BY <3>1, <3>2, <3>3, <3>4 DEF OwnedPagesAreTaken
  <2>14. CommitsGoPageByPage'
    <3>1. RowsOf(disk, table) = RowsOf(atOpen, table)
      BY <2>1 DEF RowsInv, CommitsGoPageByPage
    <3>2. RowsOf(disk, table)' = RowsOf(atOpen, table)'
      BY <1>4, <2>4, <2>11, <3>1
    <3>3. phase' = "open" /\ table' = table
      BY <1>1, <2>1
    <3>4. QED
      BY <1>1, <3>2, <3>3 DEF CommitsGoPageByPage
  <2>15. OneRowChanges(RowsOf(buf, table), RowsOf(buf', table))
    BY <2>2, <2>8 DEF OneRowChanges
  <2>16. GrowthSafe
    BY <1>4, <2>1, <2>4, <2>15 DEF GrowthSafe
  <2>17. QED
    BY <1>2, <1>13, <1>14, <2>12, <2>13, <2>14, <2>16 DEF RowsInv
<1>18. QED
  BY <1>16, <1>17

LEMMA InsertUnlistedKeepsRowsInv ==
  ASSUME RowsInv, NEW k \in Keys, InsertUnlisted(k)
  PROVE  RowsInv' /\ GrowthSafe
<1> DEFINE p == NewPage
<1>1. /\ phase \in {"open", "closed"} /\ Pages \ buf.pfs # {}
      /\ disk' = WithNewPage(disk, p)
      /\ buf' = WithNewPage(Reserved(buf, p), p)
      /\ dirty' = dirty \cup {Pfs, DataPage(p)}
      /\ ~intact'
      /\ UNCHANGED <<phase, table, dataPages, atOpen>>
  BY DEF InsertUnlisted, MustGrow
<1>2. KeysInv'
  BY InsertUnlistedKeepsKeys DEF RowsInv
<1>3. p \in Pages /\ p \notin buf.pfs
  BY <1>1, NewPageIsFree DEF RowsInv
<1>4. Shaped(disk) /\ Shaped(buf) /\ table \in Tables /\ dataPages \in Seq(Pages)
  BY <1>1 DEF RowsInv, Types
<1>5. GrowthSafe
  <2>1. PageTaken(disk, disk', p)
    BY <1>1, <1>3, <1>4, GrowthTakesPage
  <2>2. QED
    BY <1>1, <2>1, GrowthOnDisk DEF GrowthSafe
<1> HIDE DEF p
<1>6. /\ PageTaken(disk, disk', p) /\ disk'.pfs = disk.pfs
      /\ PageTaken(buf, buf', p) /\ buf'.pfs = buf.pfs \cup {p}
  BY <1>1, <1>3, <1>4, GrowthTakesPage
<1>7. Shaped(disk') /\ Shaped(buf')
  <2>1. disk'.pfs \subseteq Pages /\ buf'.pfs \subseteq Pages
    BY <1>3, <1>4, <1>6 DEF Shaped
  <2>2. QED
    BY <1>3, <1>4, <1>6, <2>1, PageTakenShaped
<1>8. Types'
  <2>1. Shaped(disk)' /\ Shaped(buf)'
    BY <1>7 DEF Shaped
  <2>2. QED
    BY <1>1, <1>4, <2>1 DEF Types
<1>9. BufferTracksDisk'
  <2>1. CASE phase = "closed"
    BY <1>1, <2>1, ClosedTracksNothing
  <2>2. CASE phase = "open"
    <3>1. buf'.owner = disk'.owner
      BY <1>6, <2>2 DEF PageTaken, RowsInv, BufferTracksDisk, Writing
    <3>2. \A q \in Pages \ {p} : buf'.rows[q] = buf.rows[q]
      <4>1. PageTaken(buf, buf', p)
        BY <1>6
      <4>2. QED
        BY <1>3, <1>4, <4>1, PageTakenAt
    <3>3. buf'.leaf = buf.leaf
      BY <1>6 DEF PageTaken
    <3>4. /\ dirty \cup {Pfs, DataPage(p)} \subseteq dirty'
          /\ dirty' \subseteq dirty \cup {Pfs, DataPage(p), Leaf(table), List(table)}
          /\ Leaf(table) \in dirty' \/ Leaf(table) \notin dirty
      BY <1>1
    <3>5. QED
      BY <1>1, <1>3, <1>6, <1>7, <2>2, <3>1, <3>2, <3>3, <3>4, GrowthKeepsTrack
  <2>3. QED
    BY <1>1, <2>1, <2>2
<1>10. QED
  BY <1>1, <1>2, <1>5, <1>8, <1>9, DamagingStepKeepsRowsInv

LEMMA GrowthCutKeepsRowsInv ==
  ASSUME RowsInv, NEW k \in Keys, GrowthCut(k)
  PROVE  RowsInv' /\ GrowthSafe
<1> DEFINE p == NewPage
<1>1. /\ phase \in {"open", "closed"} /\ Pages \ buf.pfs # {}
      /\ disk' = WithNewPage(disk, p)
      /\ ~intact'
      /\ Handle(NoTable, "none")
  BY DEF GrowthCut, MustGrow
<1>2. p \in Pages
  BY <1>1, NewPageIsFree DEF RowsInv
<1>3. Shaped(disk) /\ Shaped(buf) /\ table \in Tables
  BY <1>1 DEF RowsInv, Types
<1>4. PageTaken(disk, disk', p) /\ disk'.pfs = disk.pfs
  BY <1>1, <1>2, <1>3, GrowthTakesPage
<1>5. Shaped(disk')
  <2>1. disk'.pfs \subseteq Pages
    BY <1>3, <1>4 DEF Shaped
  <2>2. QED
    BY <1>2, <1>3, <1>4, <2>1, PageTakenShaped
<1>6. KeysUniqueIn(disk')
  <2>1. KeysInv'
    BY GrowthCutKeepsKeys DEF RowsInv
  <2>2. QED
    BY <2>1 DEF KeysInv, KeysUniqueIn
<1>7. RowsInv'
  BY <1>1, <1>5, <1>6, HandleKeepsRowsInv
<1>8. GrowthSafe
  BY <1>1, <1>4, GrowthOnDisk DEF GrowthSafe
<1>9. QED
  BY <1>7, <1>8

-----------------------------------------------------------------------------
(* Commit.                                                                 *)

\* The counters a commit brings in step are not of the contents the rows depend on.
LEMMA CountersLeaveRows ==
  ASSUME RowsInv, BeginCommit \/ CommitRefused
  PROVE  /\ Shaped(buf')
         /\ buf'.owner = buf.owner /\ buf'.rows = buf.rows /\ buf'.leaf = buf.leaf /\ buf'.pfs = buf.pfs
<1>1. Shaped(buf)
  BY DEF RowsInv, Types
<1>2. PICK u, l, n : \/ buf' = [buf EXCEPT !.list[u] = l, !.count[table] = n]
                     \/ buf' = [buf EXCEPT !.list[u] = l]
                     \/ buf' = buf
  BY DEF BeginCommit, CommitRefused
<1>3. /\ {"pfs", "owner", "rows", "leaf"} \subseteq DOMAIN buf'
      /\ buf'.owner = buf.owner /\ buf'.rows = buf.rows /\ buf'.leaf = buf.leaf /\ buf'.pfs = buf.pfs
  BY <1>1, <1>2 DEF Shaped
<1>4. QED
  BY <1>1, <1>3 DEF Shaped

LEMMA BeginCommitKeepsRowsInv ==
  ASSUME RowsInv, BeginCommit
  PROVE  RowsInv' /\ RowsOf(buf', table) = RowsOf(buf, table)
<1>1. /\ phase = "open" /\ phase' = "commit"
      /\ UNCHANGED <<disk, table, dataPages, atOpen, intact>>
  BY DEF BeginCommit, MayCommit
<1>2. dirty \subseteq dirty' /\ dirty' \subseteq dirty \cup {List(u) : u \in Tables \cup {Min(MatchingLists)}} \cup {Info(table)}
  BY DEF BeginCommit
<1>3. /\ Shaped(buf')
      /\ buf'.owner = buf.owner /\ buf'.rows = buf.rows /\ buf'.leaf = buf.leaf /\ buf'.pfs = buf.pfs
  BY CountersLeaveRows
<1>4. KeysInv'
  BY BeginCommitKeepsKeys DEF RowsInv
<1>5. Types'
  <2>1. Shaped(buf)' /\ Shaped(disk)'
    BY <1>1, <1>3 DEF RowsInv, Types, Shaped
  <2>2. QED
    BY <1>1, <2>1 DEF RowsInv, Types
<1>6. /\ \A p : DataPage(p) \in dirty' <=> DataPage(p) \in dirty
      /\ \A t : Leaf(t) \in dirty' <=> Leaf(t) \in dirty
      /\ Pfs \in dirty' <=> Pfs \in dirty
  BY <1>2, UnitsDiffer
<1>7. BufferTracksDisk'
  BY <1>1, <1>3, <1>6 DEF RowsInv, BufferTracksDisk, Writing
<1>8. /\ \A u : RowsOf(disk, u)' = RowsOf(disk, u) /\ RowsOf(atOpen, u)' = RowsOf(atOpen, u)
      /\ RowsOf(buf, table)' = RowsOf(buf, table) /\ RowsOf(buf', table) = RowsOf(buf, table)
      /\ RowsOf(disk, table)' = RowsOf(disk, table) /\ RowsOf(atOpen, table)' = RowsOf(atOpen, table)
  BY <1>1, <1>3 DEF RowsOf
<1>9. RowsAreIndexed'
  BY <1>1, <1>3, <1>8 DEF RowsInv, RowsAreIndexed, Writing
<1>10. OwnedPagesAreTaken'
  BY <1>1, <1>3 DEF RowsInv, OwnedPagesAreTaken
<1>11. CommitsGoPageByPage'
  BY <1>1, <1>8 DEF RowsInv, CommitsGoPageByPage
<1>12. QED
  BY <1>4, <1>5, <1>7, <1>8, <1>9, <1>10, <1>11 DEF RowsInv

\* A writer that is closed without having written: refused, or with nothing to
\* write.
LEMMA ClosingKeepsRowsInv ==
  ASSUME RowsInv, KeysInv', phase = "open", phase' = "closed",
         UNCHANGED <<disk, table, dataPages>>,
         Shaped(buf'), buf'.pfs = buf.pfs,
         intact' => intact /\ Pfs \notin dirty
  PROVE  RowsInv'
<1>1. Types'
  <2>1. Shaped(buf)' /\ Shaped(disk)'
    BY DEF RowsInv, Types, Shaped
  <2>2. QED
    BY <2>1 DEF RowsInv, Types
<1>2. BufferTracksDisk'
  BY ClosedTracksNothing
<1>3. \A u : RowsOf(disk, u)' = RowsOf(disk, u)
  BY DEF RowsOf
<1>4. RowsAreIndexed'
  BY <1>3 DEF RowsInv, RowsAreIndexed, Writing
<1>5. OwnedPagesAreTaken'
  BY DEF RowsInv, OwnedPagesAreTaken, BufferTracksDisk, Writing
<1>6. CommitsGoPageByPage'
  BY DEF CommitsGoPageByPage
<1>7. QED
  BY <1>1, <1>2, <1>4, <1>5, <1>6 DEF RowsInv

\* A page written by the flush brings one unit of the file up to the buffers.
LEMMA FlushedFields ==
  ASSUME NEW u \in Units, Shaped(disk), Shaped(buf), buf.owner = disk.owner
  PROVE  LET d == Written(disk, buf, u)
         IN  /\ Shaped(d)
             /\ d.owner = disk.owner
             /\ d.pfs = IF u = Pfs THEN buf.pfs ELSE disk.pfs
             /\ \A p \in Pages : d.rows[p] = IF u = DataPage(p) THEN buf.rows[p] ELSE disk.rows[p]
             /\ \A t \in Tables : d.leaf[t] = IF u = Leaf(t) THEN buf.leaf[t] ELSE disk.leaf[t]
<1> DEFINE d == Written(disk, buf, u)
           Goal == /\ Shaped(d)
                   /\ d.owner = disk.owner
                   /\ d.pfs = IF u = Pfs THEN buf.pfs ELSE disk.pfs
                   /\ \A p \in Pages : d.rows[p] = IF u = DataPage(p) THEN buf.rows[p] ELSE disk.rows[p]
                   /\ \A t \in Tables : d.leaf[t] = IF u = Leaf(t) THEN buf.leaf[t] ELSE disk.leaf[t]
<1>1. CASE u = Pfs
  <2>1. u[1] = "pfs" /\ \A x : u # DataPage(x) /\ u # Leaf(x)
    BY <1>1, UnitsDiffer DEF Pfs
  <2>2. d = [disk EXCEPT !.pfs = buf.pfs]
    BY <1>1, <2>1 DEF Written
  <2>3. QED
    BY <1>1, <2>1, <2>2 DEF Shaped
<1>2. ASSUME NEW p \in Pages, u = DataPage(p)
      PROVE  Goal
  <2>1. u # Pfs /\ u[1] = "data" /\ u[2] = p /\ (\A t : u # Leaf(t)) /\ \A q : u = DataPage(q) <=> q = p
    BY <1>2, UnitsDiffer DEF DataPage
  <2>2. d = [disk EXCEPT !.owner[p] = buf.owner[p], !.rows[p] = buf.rows[p]]
    BY <2>1 DEF Written
  <2>3. /\ {"pfs", "owner", "rows", "leaf"} \subseteq DOMAIN d
        /\ d.owner = [disk.owner EXCEPT ![p] = disk.owner[p]]
        /\ d.rows = [disk.rows EXCEPT ![p] = buf.rows[p]]
        /\ d.leaf = disk.leaf /\ d.pfs = disk.pfs
    BY <2>2 DEF Shaped
  <2>4. d.owner = disk.owner
    BY <2>3 DEF Shaped
  <2>5. d.rows \in [Pages -> [Slots -> Keys \cup {NoKey}]]
    BY <2>3 DEF Shaped
  <2>6. Shaped(d)
    BY <2>3, <2>4, <2>5 DEF Shaped
  <2>7. \A q \in Pages : d.rows[q] = IF q = p THEN buf.rows[q] ELSE disk.rows[q]
    BY <2>3 DEF Shaped
  <2>8. QED
    BY <2>1, <2>3, <2>4, <2>6, <2>7
<1>3. ASSUME NEW t \in Tables, u = Leaf(t)
      PROVE  Goal
  <2>1. u # Pfs /\ u[1] = "leaf" /\ u[2] = t /\ (\A p : u # DataPage(p)) /\ \A v : u = Leaf(v) <=> v = t
    BY <1>3, UnitsDiffer DEF Leaf
  <2>2. d = [disk EXCEPT !.leaf[t] = buf.leaf[t]]
    BY <2>1 DEF Written
  <2>3. /\ {"pfs", "owner", "rows", "leaf"} \subseteq DOMAIN d
        /\ d.leaf = [disk.leaf EXCEPT ![t] = buf.leaf[t]]
        /\ d.owner = disk.owner /\ d.rows = disk.rows /\ d.pfs = disk.pfs
    BY <2>2 DEF Shaped
  <2>4. d.leaf \in [Tables -> SUBSET IndexEntries]
    BY <2>3 DEF Shaped
  <2>5. Shaped(d)
    BY <2>3, <2>4 DEF Shaped
  <2>6. \A v \in Tables : d.leaf[v] = IF v = t THEN buf.leaf[v] ELSE disk.leaf[v]
    BY <2>3 DEF Shaped
  <2>7. QED
    BY <2>1, <2>3, <2>5, <2>6
<1>4. ASSUME NEW t \in Tables, u = List(t) \/ u = Info(t)
      PROVE  Goal
  <2>1. u # Pfs /\ u[2] = t /\ (\A p : u # DataPage(p)) /\ (\A v : u # Leaf(v)) /\ u[1] \in {"list", "info"}
    BY <1>4, UnitsDiffer DEF List, Info
  <2>2. d = [disk EXCEPT !.list[t] = buf.list[t]] \/ d = [disk EXCEPT !.count[t] = buf.count[t]]
    BY <1>4, <2>1 DEF Written, List, Info
  <2>3. /\ {"pfs", "owner", "rows", "leaf"} \subseteq DOMAIN d
        /\ d.owner = disk.owner /\ d.rows = disk.rows /\ d.pfs = disk.pfs /\ d.leaf = disk.leaf
    BY <2>2 DEF Shaped
  <2>4. QED
    BY <2>1, <2>3 DEF Shaped
<1>5. u = Pfs \/ (\E p \in Pages : u = DataPage(p))
      \/ \E t \in Tables : u = Leaf(t) \/ u = List(t) \/ u = Info(t)
  BY DEF Units
<1>6. QED
  BY <1>1, <1>2, <1>3, <1>4, <1>5

\* After the last page the file is what the writer saw; until then each row of
\* its table is an old or a new one.
LEMMA FlushPageKeepsRowsInv ==
  ASSUME RowsInv, NEW u \in Units, FlushPage(u)
  PROVE  /\ RowsInv'
         /\ \A t \in Tables \ {table} : RowsOf(disk', t) = RowsOf(disk, t)
         /\ phase' = "closed" => RowsOf(disk', table) = RowsOf(buf, table)
<1>1. /\ phase = "commit" /\ u \in dirty /\ disk' = Written(disk, buf, u) /\ dirty' = dirty \ {u}
      /\ phase' = IF dirty = {u} THEN "closed" ELSE "commit"
      /\ UNCHANGED <<buf, table, dataPages, atOpen, intact>>
  BY DEF FlushPage
<1>2. Shaped(disk) /\ Shaped(buf) /\ table \in Tables
  BY <1>1 DEF RowsInv, Types
<1>3. /\ buf.owner = disk.owner
      /\ \A i \in DOMAIN dataPages : disk.owner[dataPages[i]] = table
      /\ \A p \in Pages : IF DataPage(p) \in dirty THEN disk.owner[p] = table
                                                  ELSE buf.rows[p] = disk.rows[p]
      /\ \A t \in Tables : IF Leaf(t) \in dirty THEN t = table
                                               ELSE buf.leaf[t] = disk.leaf[t]
      /\ Pfs \notin dirty => buf.pfs = disk.pfs
  BY <1>1 DEF RowsInv, BufferTracksDisk, Writing
<1>4. /\ Shaped(disk')
      /\ disk'.owner = disk.owner
      /\ disk'.pfs = IF u = Pfs THEN buf.pfs ELSE disk.pfs
      /\ \A p \in Pages : disk'.rows[p] = IF u = DataPage(p) THEN buf.rows[p] ELSE disk.rows[p]
      /\ \A t \in Tables : disk'.leaf[t] = IF u = Leaf(t) THEN buf.leaf[t] ELSE disk.leaf[t]
  BY <1>1, <1>2, <1>3, FlushedFields
<1>5. ASSUME NEW t \in Tables, NEW e \in IndexEntries
      PROVE  e \in RowsOf(disk', t) <=> IF u = DataPage(e.page) THEN e \in RowsOf(buf, t) ELSE e \in RowsOf(disk, t)
  <2>1. /\ disk'.owner = disk.owner /\ buf.owner = disk.owner
        /\ \A p \in Pages : disk'.rows[p] = IF u = DataPage(p) THEN buf.rows[p] ELSE disk.rows[p]
    BY <1>3, <1>4
  <2>2. /\ e \in RowsOf(disk, t) <=> disk.owner[e.page] = t /\ disk.rows[e.page][e.slot] = e.key
        /\ e \in RowsOf(disk', t) <=> disk'.owner[e.page] = t /\ disk'.rows[e.page][e.slot] = e.key
        /\ e \in RowsOf(buf, t) <=> buf.owner[e.page] = t /\ buf.rows[e.page][e.slot] = e.key
    BY ONLY e \in IndexEntries DEF RowsOf
  <2>3. disk'.rows[e.page] = IF u = DataPage(e.page) THEN buf.rows[e.page] ELSE disk.rows[e.page]
    BY <2>1, EntriesAreEntries
  <2>4. CASE u = DataPage(e.page)
    BY ONLY <2>1, <2>2, <2>3, <2>4
  <2>5. CASE u # DataPage(e.page)
    BY ONLY <2>1, <2>2, <2>3, <2>5
  <2>6. QED
    BY <2>4, <2>5
<1>6. \A c, t : RowsOf(c, t) \subseteq IndexEntries
  BY RowsOfType
<1>7. ASSUME NEW t \in Tables \ {table}
      PROVE  RowsOf(disk', t) = RowsOf(disk, t) /\ disk'.leaf[t] = disk.leaf[t]
  <2>1. ASSUME NEW e \in IndexEntries, u = DataPage(e.page)
        PROVE  e \notin RowsOf(buf, t) /\ e \notin RowsOf(disk, t)
    <3>1. e.page \in Pages
      BY EntriesAreEntries
    <3>2. disk.owner[e.page] = table
      BY <1>1, <1>3, <2>1, <3>1
    <3>3. QED
      BY <1>3, <1>7, <3>2 DEF RowsOf
  <2>2. \A e \in IndexEntries : e \in RowsOf(disk', t) <=> e \in RowsOf(disk, t)
    BY <1>5, <1>7, <2>1
  <2>3. RowsOf(disk', t) = RowsOf(disk, t)
    BY <1>6, <2>2
  <2>4. disk'.leaf[t] = disk.leaf[t]
    BY <1>1, <1>3, <1>4, <1>7
  <2>5. QED
    BY <2>3, <2>4
<1>8. ASSUME dirty = {u}
      PROVE  /\ RowsOf(disk', table) = RowsOf(buf, table)
             /\ disk'.leaf[table] = buf.leaf[table]
             /\ disk'.pfs = buf.pfs
  <2>1. \A p \in Pages : disk'.rows[p] = buf.rows[p]
    BY <1>3, <1>4, <1>8
  <2>2. \A e \in IndexEntries : e \in RowsOf(disk', table) <=> e \in RowsOf(buf, table)
    <3>1. TAKE e \in IndexEntries
    <3>2. e.page \in Pages
      BY EntriesAreEntries
    <3>3. disk'.rows[e.page] = buf.rows[e.page] /\ disk'.owner = buf.owner
      BY <1>3, <1>4, <2>1, <3>2
    <3>4. QED
      BY <3>3 DEF RowsOf
  <2>3. RowsOf(disk', table) = RowsOf(buf, table)
    BY <1>6, <2>2
  <2>4. disk'.leaf[table] = buf.leaf[table]
    BY <1>2, <1>3, <1>4, <1>8
  <2>5. disk'.pfs = buf.pfs
    BY <1>3, <1>4, <1>8
  <2>6. QED
    BY <2>3, <2>4, <2>5
<1>9. KeysInv'
  BY FlushPageKeepsKeys DEF RowsInv
<1>10. Types'
  <2>1. Shaped(disk)' /\ Shaped(buf)'
    BY <1>1, <1>2, <1>4 DEF Shaped
  <2>2. QED
    BY <1>1, <1>2, <2>1 DEF RowsInv, Types
<1>11. BufferTracksDisk'
  <2>1. ASSUME NEW p \in Pages, DataPage(p) \in dirty' PROVE disk'.owner[p] = table
    BY <1>1, <1>3, <1>4, <2>1
  <2>2. ASSUME NEW p \in Pages, DataPage(p) \notin dirty' PROVE buf.rows[p] = disk'.rows[p]
    BY <1>1, <1>3, <1>4, <2>2
  <2>3. ASSUME NEW t \in Tables, Leaf(t) \in dirty' PROVE t = table
    BY <1>1, <1>3, <2>3
  <2>4. ASSUME NEW t \in Tables, Leaf(t) \notin dirty' PROVE buf.leaf[t] = disk'.leaf[t]
    BY <1>1, <1>3, <1>4, <2>4
  <2>5. Pfs \notin dirty' => buf.pfs = disk'.pfs
    BY <1>1, <1>3, <1>4
  <2>6. buf'.owner = disk'.owner /\ \A i \in DOMAIN dataPages' : disk'.owner[dataPages'[i]] = table'
    BY <1>1, <1>3, <1>4
  <2>7. QED
    BY <1>1, <2>1, <2>2, <2>3, <2>4, <2>5, <2>6 DEF BufferTracksDisk
<1>12. \A t : /\ RowsOf(disk, t)' = RowsOf(disk', t)
              /\ RowsOf(buf, t)' = RowsOf(buf, t)
              /\ RowsOf(atOpen, t)' = RowsOf(atOpen, t)
  BY <1>1 DEF RowsOf
<1>13. /\ RowsOf(disk, table)' = RowsOf(disk', table)
       /\ RowsOf(buf, table)' = RowsOf(buf, table)
       /\ RowsOf(atOpen, table)' = RowsOf(atOpen, table)
  BY <1>1 DEF RowsOf
<1>14. RowsAreIndexed'
  <2>1. SUFFICES ASSUME intact
                 PROVE  /\ \A t \in Tables : disk'.leaf[t] = RowsOf(disk', t) \/ (phase' = "commit" /\ t = table)
                        /\ buf.leaf[table] = RowsOf(buf, table)
    BY <1>1, <1>12, <1>13 DEF RowsAreIndexed
  <2>2. /\ \A t \in Tables \ {table} : disk.leaf[t] = RowsOf(disk, t)
        /\ buf.leaf[table] = RowsOf(buf, table)
    BY <1>1, <2>1 DEF RowsInv, RowsAreIndexed, Writing
  <2>3. \A t \in Tables \ {table} : disk'.leaf[t] = RowsOf(disk', t)
    BY <1>7, <2>2
  <2>4. disk'.leaf[table] = RowsOf(disk', table) \/ phase' = "commit"
    BY <1>1, <1>8, <2>2
  <2>5. QED
    BY <2>2, <2>3, <2>4
<1>15. OwnedPagesAreTaken'
  <2>1. phase' = "closed" => buf'.pfs = disk'.pfs
    BY <1>1, <1>8
  <2>2. QED
    BY <1>1, <1>4, <2>1 DEF RowsInv, OwnedPagesAreTaken
<1>16. CommitsGoPageByPage'
  <2>1. SUFFICES ASSUME intact
                 PROVE  /\ RowsOf(atOpen, table) \cap RowsOf(buf, table) \subseteq RowsOf(disk', table)
                        /\ RowsOf(disk', table) \subseteq RowsOf(atOpen, table) \cup RowsOf(buf, table)
    BY <1>1, <1>13 DEF CommitsGoPageByPage
  <2>2. /\ RowsOf(atOpen, table) \cap RowsOf(buf, table) \subseteq RowsOf(disk, table)
        /\ RowsOf(disk, table) \subseteq RowsOf(atOpen, table) \cup RowsOf(buf, table)
    BY <1>1, <2>1 DEF RowsInv, CommitsGoPageByPage
  <2>3. QED
    BY <1>2, <1>5, <1>6, <2>2
<1>17. phase' = "closed" => RowsOf(disk', table) = RowsOf(buf, table)
  BY <1>1, <1>8
<1>18. QED
  BY <1>7, <1>9, <1>10, <1>11, <1>14, <1>15, <1>16, <1>17 DEF RowsInv

\* A commit that is refused, or has nothing to write, closes the writer.
LEMMA CommitRefusedKeepsRowsInv ==
  ASSUME RowsInv, CommitRefused
  PROVE  RowsInv'
<1>1. /\ phase = "open" /\ phase' = "closed" /\ UNCHANGED <<disk, table, dataPages>>
      /\ intact' = (intact /\ ~AbandonedGrowth)
  BY DEF CommitRefused, MayCommit
<1>2. Shaped(buf') /\ buf'.pfs = buf.pfs
  BY CountersLeaveRows
<1>3. KeysInv'
  BY BeginCommitKeepsKeys DEF RowsInv
<1>4. QED
  BY <1>1, <1>2, <1>3, ClosingKeepsRowsInv DEF AbandonedGrowth

LEMMA CommitNothingKeepsRowsInv ==
  ASSUME RowsInv, CommitNothing
  PROVE  RowsInv'
<1>1. /\ phase = "open" /\ phase' = "closed" /\ dirty = {}
      /\ UNCHANGED <<disk, buf, table, dataPages, intact>>
  BY DEF CommitNothing
<1>2. Shaped(buf') /\ buf'.pfs = buf.pfs
  BY <1>1 DEF RowsInv, Types
<1>3. KeysInv'
  BY <1>1, KeysFollow DEF RowsInv, KeysInv
<1>4. QED
  BY <1>1, <1>2, <1>3, ClosingKeepsRowsInv

LEMMA FlushFailsKeepsRowsInv ==
  ASSUME RowsInv, FlushFails
  PROVE  RowsInv'
<1>1. /\ phase = "commit" /\ phase' = "closed" /\ ~intact'
      /\ UNCHANGED <<disk, buf, table, dataPages>>
  BY DEF FlushFails
<1>2. KeysInv'
  BY <1>1, KeysFollow DEF RowsInv, KeysInv
<1>3. Types'
  BY <1>1 DEF RowsInv, Types, Shaped
<1>4. QED
  BY <1>1, <1>2, <1>3, ClosedTracksNothing, DamagingStepKeepsRowsInv

\* A handle is taken or given up.
LEMMA HandlesKeepRowsInv ==
  ASSUME RowsInv, (\E t \in Tables : OpenWriter(t)) \/ Rollback \/ Forget \/ CutShort
  PROVE  RowsInv'
<1>1. ASSUME NEW t \in Tables, OpenWriter(t) PROVE RowsInv'
  BY <1>1, UnchangedDiskKeepsRowsInv DEF OpenWriter, Writing
<1>2. CASE Rollback
  BY <1>2, UnchangedDiskKeepsRowsInv DEF Rollback, AbandonedGrowth
<1>3. CASE Forget
  BY <1>3, UnchangedDiskKeepsRowsInv DEF Forget, Writing
<1>4. CASE CutShort
  BY <1>4, UnchangedDiskKeepsRowsInv DEF CutShort
<1>5. QED
  BY <1>1, <1>2, <1>3, <1>4

LEMMA StutteringKeepsRowsInv ==
  ASSUME RowsInv, UNCHANGED vars
  PROVE  RowsInv'
<1>1. /\ disk' = disk /\ buf' = buf /\ phase' = phase /\ table' = table /\ dataPages' = dataPages
      /\ dirty' = dirty /\ atOpen' = atOpen /\ intact' = intact
  BY DEF vars, writer
<1>2. /\ \A t : /\ RowsOf(disk, t)' = RowsOf(disk, t)
                /\ RowsOf(buf, t)' = RowsOf(buf, t)
                /\ RowsOf(atOpen, t)' = RowsOf(atOpen, t)
      /\ RowsOf(disk, table)' = RowsOf(disk, table)
      /\ RowsOf(buf, table)' = RowsOf(buf, table)
      /\ RowsOf(atOpen, table)' = RowsOf(atOpen, table)
  BY <1>1 DEF RowsOf
<1>3. KeysInv' /\ Types' /\ BufferTracksDisk'
  BY <1>1 DEF RowsInv, KeysInv, KeysUniqueIn, Types, Shaped, BufferTracksDisk, Writing
<1>4. RowsAreIndexed' /\ OwnedPagesAreTaken' /\ CommitsGoPageByPage'
  BY <1>1, <1>2 DEF RowsInv, RowsAreIndexed, OwnedPagesAreTaken, CommitsGoPageByPage, Writing
<1>5. QED
  BY <1>3, <1>4 DEF RowsInv

LEMMA StepsKeepRowsInv == RowsInv /\ [Next]_vars => RowsInv'
<1> SUFFICES ASSUME RowsInv, [Next]_vars PROVE RowsInv'
  OBVIOUS
<1>1. ASSUME NEW t \in Tables, OpenWriter(t) \/ DropAndCreate(t) PROVE RowsInv'
  BY <1>1, HandlesKeepRowsInv, DropKeepsRowsInv
<1>2. ASSUME NEW k \in Keys, Insert(k) \/ InsertGrowing(k) \/ InsertUnlisted(k) \/ GrowthCut(k)
      PROVE  RowsInv'
  BY <1>2, InsertKeepsRowsInv, InsertGrowingKeepsRowsInv, InsertUnlistedKeepsRowsInv,
     GrowthCutKeepsRowsInv
<1>3. ASSUME NEW p \in Pages, NEW s \in Slots, Delete(p, s) \/ \E k \in Keys : Update(p, s, k)
      PROVE  RowsInv'
  BY <1>3, DeleteKeepsRowsInv, UpdateKeepsRowsInv
<1>4. CASE BeginCommit \/ CommitRefused \/ CommitNothing \/ FlushFails
  BY <1>4, BeginCommitKeepsRowsInv, CommitRefusedKeepsRowsInv, CommitNothingKeepsRowsInv,
     FlushFailsKeepsRowsInv
<1>5. ASSUME NEW u \in Units, FlushPage(u) PROVE RowsInv'
  BY <1>5, FlushPageKeepsRowsInv
<1>6. CASE CutShort \/ Rollback \/ Forget
  BY <1>6, HandlesKeepRowsInv
<1>7. CASE UNCHANGED vars
  BY <1>7, StutteringKeepsRowsInv
<1>8. QED
  BY <1>1, <1>2, <1>3, <1>4, <1>5, <1>6, <1>7 DEF Next

LEMMA RowsInvAlways == Spec => []RowsInv
BY InitEstablishesRowsInv, StepsKeepRowsInv, PTL DEF Spec

\* The unique index of every table names exactly the table's rows, as long as
\* nothing went wrong: no sequence of writers, of rows inserted, moved and
\* removed, of growth and of pages written one by one makes them drift apart
\* (insertIntoIndexes, replaceInIndexes, removeFromIndexes, flushPages).
THEOREM IndexesNameTheRows == Spec => []IndexMatchesRows
<1>1. RowsInv => IndexMatchesRows
  BY DEF RowsInv, RowsAreIndexed, IndexMatchesRows
<1>2. QED
  BY <1>1, RowsInvAlways, PTL

-----------------------------------------------------------------------------
(* The writer implements the abstract table.                               *)

\* What TableWriter maps to the variables of TransactionalTable.
CommittedRows(t) == RowsOf(IF phase = "commit" /\ t = table THEN atOpen ELSE disk, t)
Committed == [t \in Tables |-> CommittedRows(t)]
Current == IF Writing THEN table ELSE NoTable
View == IF Writing THEN RowsOf(buf, table) ELSE {}

LEMMA CommittedNow ==
  ASSUME NEW t \in Tables
  PROVE  /\ Committed[t] = IF phase = "commit" /\ t = table THEN RowsOf(atOpen, t) ELSE RowsOf(disk, t)
         /\ Committed'[t] = IF phase' = "commit" /\ t = table' THEN RowsOf(atOpen', t) ELSE RowsOf(disk', t)
<1>1. Committed[t] = IF phase = "commit" /\ t = table THEN RowsOf(atOpen, t) ELSE RowsOf(disk, t)
  BY DEF Committed, CommittedRows
<1>2. Committed'[t] = IF phase' = "commit" /\ t = table' THEN RowsOf(atOpen', t) ELSE RowsOf(disk', t)
  <2>1. Committed' = [u \in Tables |-> RowsOf(IF phase' = "commit" /\ u = table' THEN atOpen' ELSE disk', u)]
    BY DEF Committed, CommittedRows
  <2>2. QED
    BY <2>1
<1>3. QED
  BY <1>1, <1>2

\* When the committed rows of the tables are the same before and after.
LEMMA CommittedSame ==
  ASSUME \A t \in Tables : Committed'[t] = Committed[t]
  PROVE  Committed' = Committed
<1>1. Committed = [t \in Tables |-> CommittedRows(t)]
  BY DEF Committed
<1>2. Committed' = [t \in Tables |-> CommittedRows(t)']
  BY DEF Committed
<1>3. QED
  BY <1>1, <1>2

\* The actions of the abstract table, in these terms.
LEMMA AbstractInit ==
  ASSUME Committed = [t \in Tables |-> {}], Current = NoTable, View = {}, intact = TRUE
  PROVE  Transactions!Init
BY DEF Transactions!Init, Committed, CommittedRows, Current, View

LEMMA AbstractStutter ==
  ASSUME Committed' = Committed, Current' = Current, View' = View, intact' = intact
  PROVE  UNCHANGED Transactions!vars
BY DEF Transactions!vars, Committed, CommittedRows, Current, View

LEMMA AbstractOpen ==
  ASSUME NEW t \in Tables, Current = NoTable, Current' = t, View' = Committed[t],
         Committed' = Committed, intact' = intact
  PROVE  Transactions!Next
BY DEF Transactions!Next, Transactions!Open, Committed, CommittedRows, Current, View

LEMMA AbstractRecreate ==
  ASSUME NEW t \in Tables, Current = NoTable, Current' = Current, View' = View,
         Committed' = [Committed EXCEPT ![t] = {}], intact' = intact
  PROVE  Transactions!Next
BY DEF Transactions!Next, Transactions!Recreate, Committed, CommittedRows, Current, View

LEMMA AbstractChange ==
  ASSUME Current # NoTable, Current' = Current, Committed' = Committed, intact' = intact,
         Transactions!AtMostOne(View \ View'), Transactions!AtMostOne(View' \ View),
         Transactions!KeysUnique(View'), Transactions!OnePerPlace(View')
  PROVE  Transactions!Next
BY DEF Transactions!Next, Transactions!Change, Committed, CommittedRows, Current, View

LEMMA AbstractCommit ==
  ASSUME Current # NoTable, Current' = NoTable, View' = {}, intact' = intact,
         Committed' = [Committed EXCEPT ![Current] = View]
  PROVE  Transactions!Next
BY DEF Transactions!Next, Transactions!Commit, Transactions!Finish,
       Committed, CommittedRows, Current, View

LEMMA AbstractAbort ==
  ASSUME Current # NoTable, Current' = NoTable, View' = {}, intact' = intact,
         Committed' = Committed
  PROVE  Transactions!Next
BY DEF Transactions!Next, Transactions!Abort, Transactions!Finish,
       Committed, CommittedRows, Current, View

LEMMA AbstractTear ==
  ASSUME Current # NoTable, ~intact',
         \A t \in Tables \ {Current} : Committed'[t] = Committed[t],
         Committed[Current] \cap View \subseteq Committed'[Current],
         Committed'[Current] \subseteq Committed[Current] \cup View,
         Transactions!OnePerPlace(Committed'[Current])
  PROVE  Transactions!Next
BY DEF Transactions!Next, Transactions!Tear, Committed, CommittedRows, Current, View

LEMMA AbstractSurface ==
  ASSUME NEW grower \in Tables, ~intact',
         \A t \in Tables \ {grower} : Committed'[t] = Committed[t],
         Committed[grower] \subseteq Committed'[grower]
  PROVE  Transactions!Next
BY DEF Transactions!Next, Transactions!Surface, Committed, CommittedRows

\* The rows of a file have one record a place.
LEMMA RowsHaveOnePerPlace ==
  ASSUME NEW c, NEW t
  PROVE  Transactions!OnePerPlace(RowsOf(c, t))
<1> SUFFICES ASSUME NEW e \in RowsOf(c, t), NEW f \in RowsOf(c, t),
                    <<e.page, e.slot>> = <<f.page, f.slot>>
             PROVE  e = f
  BY DEF Transactions!OnePerPlace, Transactions!Place
<1>1. e \in IndexEntries /\ f \in IndexEntries /\ e.key = f.key
  BY DEF RowsOf
<1>2. e = Entry(e.key, e.page, e.slot) /\ f = Entry(f.key, f.page, f.slot)
  BY <1>1, EntriesAreEntries
<1>3. QED
  BY <1>1, <1>2

\* A record is changed in the buffers of an open writer.
LEMMA ChangeStep ==
  ASSUME RowsInv, RowsInv', intact, intact', phase = "open", phase' = "open", table' = table,
         \A t \in Tables : RowsOf(disk', t) = RowsOf(disk, t),
         OneRowChanges(RowsOf(buf, table), RowsOf(buf', table))
  PROVE  Transactions!Next
<1>1. table \in Tables
  BY DEF RowsInv, Types
<1>2. Current # NoTable /\ Current' = Current
  BY <1>1, KeysAreNotNoKey DEF Current, Writing
<1>3. Committed' = Committed
  BY CommittedNow, CommittedSame
<1>4. View = RowsOf(buf, table) /\ View' = RowsOf(buf', table)
  BY DEF View, Writing
<1>5. Transactions!AtMostOne(View \ View') /\ Transactions!AtMostOne(View' \ View)
  BY <1>4 DEF OneRowChanges, Transactions!AtMostOne
<1>6. Transactions!OnePerPlace(View')
  BY <1>4, RowsHaveOnePerPlace
<1>7. Transactions!KeysUnique(View')
  <2>1. buf'.leaf[table] = RowsOf(buf', table)
    <3>1. RowsOf(buf, table)' = RowsOf(buf', table)
      BY DEF RowsOf
    <3>2. QED
      BY <3>1 DEF RowsInv, RowsAreIndexed, Writing
  <2>2. \A e, f \in buf'.leaf[table] : e.key = f.key => e = f
    BY <1>1 DEF RowsInv, KeysInv, KeysUniqueIn
  <2>3. QED
    BY <1>4, <2>1, <2>2 DEF Transactions!KeysUnique
<1>8. QED
  BY <1>2, <1>3, <1>5, <1>6, <1>7, AbstractChange

\* Growth that was not clean, or is not followed by a commit.
LEMMA SurfaceStep ==
  ASSUME ~intact', phase # "commit", phase' # "commit", table \in Tables,
         \A t \in Tables \ {table} : RowsOf(disk', t) = RowsOf(disk, t),
         RowsOf(disk, table) \subseteq RowsOf(disk', table)
  PROVE  Transactions!Next
<1>1. \A t \in Tables : Committed[t] = RowsOf(disk, t) /\ Committed'[t] = RowsOf(disk', t)
  BY CommittedNow
<1>2. QED
  BY <1>1, AbstractSurface

\* A writer ends without having written.
LEMMA AbortStep ==
  ASSUME phase = "open", phase' \in {"none", "closed"}, table \in Tables,
         disk' = disk, intact' = intact
  PROVE  Transactions!Next
<1>1. Current # NoTable /\ Current' = NoTable /\ View' = {}
  BY KeysAreNotNoKey DEF Current, View, Writing
<1>2. Committed' = Committed
  BY CommittedNow, CommittedSame
<1>3. QED
  BY <1>1, <1>2, AbstractAbort

\* A commit is cut short.
LEMMA TearStep ==
  ASSUME RowsInv, intact, ~intact', phase = "commit", phase' \in {"none", "closed"}, disk' = disk
  PROVE  Transactions!Next
<1>1. table \in Tables
  BY DEF RowsInv, Types
<1>2. Current = table /\ View = RowsOf(buf, table) /\ table # NoTable
  BY <1>1, KeysAreNotNoKey DEF Current, View, Writing
<1>3. \A t \in Tables \ {table} : Committed'[t] = Committed[t]
  BY CommittedNow
<1>4. Committed[table] = RowsOf(atOpen, table) /\ Committed'[table] = RowsOf(disk, table)
  BY <1>1, CommittedNow
<1>5. /\ RowsOf(atOpen, table) \cap RowsOf(buf, table) \subseteq RowsOf(disk, table)
      /\ RowsOf(disk, table) \subseteq RowsOf(atOpen, table) \cup RowsOf(buf, table)
  BY DEF RowsInv, CommitsGoPageByPage
<1>6. Transactions!OnePerPlace(RowsOf(disk, table))
  BY RowsHaveOnePerPlace
<1>7. QED
  BY <1>2, <1>3, <1>4, <1>5, <1>6, AbstractTear

\* What went wrong stays wrong.
LEMMA DamageLasts ==
  ASSUME [Next]_vars, ~intact
  PROVE  ~intact'
<1>1. ASSUME NEW k \in Keys, Insert(k) \/ InsertGrowing(k) \/ InsertUnlisted(k) \/ GrowthCut(k)
      PROVE  ~intact'
  BY <1>1 DEF Insert, InsertGrowing, InsertUnlisted, GrowthCut
<1>2. ASSUME NEW p \in Pages, NEW s \in Slots, Delete(p, s) \/ \E k \in Keys : Update(p, s, k)
      PROVE  ~intact'
  BY <1>2 DEF Delete, Update
<1>3. ASSUME NEW t \in Tables, OpenWriter(t) \/ DropAndCreate(t)
      PROVE  ~intact'
  BY <1>3 DEF OpenWriter, DropAndCreate
<1>4. CASE BeginCommit \/ CommitRefused \/ CommitNothing \/ (\E u \in Units : FlushPage(u)) \/ FlushFails
  BY <1>4 DEF BeginCommit, CommitRefused, CommitNothing, FlushPage, FlushFails
<1>5. CASE CutShort \/ Rollback \/ Forget
  BY <1>5 DEF CutShort, Rollback, Forget
<1>6. CASE UNCHANGED vars
  BY <1>6 DEF vars
<1>7. QED
  BY <1>1, <1>2, <1>3, <1>4, <1>5, <1>6 DEF Next

\* The steps of the writer, on a file in good order.
LEMMA HandlesAreTransactions ==
  ASSUME RowsInv, intact, (\E t \in Tables : OpenWriter(t)) \/ Rollback \/ Forget \/ CutShort
  PROVE  [Transactions!Next]_(Transactions!vars)
<1>1. ASSUME NEW t \in Tables, OpenWriter(t) PROVE Transactions!Next
  <2>1. /\ phase = "none" /\ phase' = "open" /\ table' = t /\ buf' = disk' /\ disk' = disk
        /\ intact' = intact
    BY <1>1 DEF OpenWriter, Handle
  <2>2. Current = NoTable /\ Current' = t /\ View' = RowsOf(disk, t)
    BY <2>1 DEF Current, View, Writing
  <2>3. Committed' = Committed
    BY <2>1, CommittedNow, CommittedSame
  <2>4. Committed[t] = RowsOf(disk, t)
    BY <2>1, CommittedNow
  <2>5. QED
    BY <2>1, <2>2, <2>3, <2>4, AbstractOpen
<1>2. CASE Rollback
  <2>1. phase = "open" /\ phase' = "none" /\ disk' = disk /\ table \in Tables
    BY <1>2 DEF Rollback, Handle, RowsInv, Types
  <2>2. CASE intact'
    BY <2>1, <2>2, AbortStep
  <2>3. CASE ~intact'
    BY <2>1, <2>3, SurfaceStep
  <2>4. QED
    BY <2>2, <2>3
<1>3. CASE Forget
  <2>1. phase = "closed" /\ phase' = "none" /\ disk' = disk /\ intact' = intact
    BY <1>3 DEF Forget, Handle
  <2>2. Current' = Current /\ View' = View
    BY <2>1 DEF Current, View, Writing
  <2>3. Committed' = Committed
    BY <2>1, CommittedNow, CommittedSame
  <2>4. QED
    BY <2>1, <2>2, <2>3, AbstractStutter
<1>4. CASE CutShort
  <2>1. phase = "commit" /\ phase' = "none" /\ disk' = disk /\ ~intact'
    BY <1>4 DEF CutShort, Handle
  <2>2. QED
    BY <2>1, TearStep
<1>5. QED
  BY <1>1, <1>2, <1>3, <1>4

LEMMA DropIsRecreate ==
  ASSUME RowsInv, NEW t \in Tables, DropAndCreate(t)
  PROVE  Transactions!Next
<1>1. phase = "none" /\ phase' = "none" /\ intact' = intact
  BY DEF DropAndCreate, Handle
<1>2. \A u \in Tables : RowsOf(disk', u) = IF u = t THEN {} ELSE RowsOf(disk, u)
  BY DropKeepsRowsInv
<1>3. \A u \in Tables : Committed[u] = RowsOf(disk, u) /\ Committed'[u] = RowsOf(disk', u)
  BY <1>1, CommittedNow
<1>4. Committed' = [Committed EXCEPT ![t] = {}]
  <2>1. /\ Committed = [u \in Tables |-> CommittedRows(u)]
        /\ Committed' = [u \in Tables |-> CommittedRows(u)']
    BY DEF Committed
  <2>2. QED
    BY <1>2, <1>3, <2>1
<1>5. Current = NoTable /\ Current' = Current /\ View' = View
  BY <1>1 DEF Current, View, Writing
<1>6. QED
  BY <1>1, <1>4, <1>5, AbstractRecreate

LEMMA ChangesAreTransactions ==
  ASSUME RowsInv, RowsInv', intact,
         \/ \E k \in Keys : Insert(k) \/ InsertGrowing(k) \/ InsertUnlisted(k) \/ GrowthCut(k)
         \/ \E p \in Pages, s \in Slots : Delete(p, s) \/ \E k \in Keys : Update(p, s, k)
  PROVE  Transactions!Next
<1>1. ASSUME phase = "open", UNCHANGED <<disk, phase, table, intact>>,
             OneRowChanges(RowsOf(buf, table), RowsOf(buf', table))
      PROVE  Transactions!Next
  BY <1>1, ChangeStep
<1>2. ASSUME NEW k \in Keys, Insert(k) PROVE Transactions!Next
  BY <1>1, <1>2, InsertKeepsRowsInv DEF Insert
<1>3. ASSUME NEW p \in Pages, NEW s \in Slots, Delete(p, s) PROVE Transactions!Next
  BY <1>1, <1>3, DeleteKeepsRowsInv DEF Delete
<1>4. ASSUME NEW p \in Pages, NEW s \in Slots, NEW k \in Keys, Update(p, s, k)
      PROVE  Transactions!Next
  BY <1>1, <1>4, UpdateKeepsRowsInv DEF Update
<1>5. ASSUME NEW k \in Keys, InsertGrowing(k) PROVE Transactions!Next
  <2>1. phase \in {"open", "closed"} /\ phase' = phase /\ table' = table
    BY <1>5 DEF InsertGrowing, MustGrow
  <2>2. table \in Tables
    BY <2>1 DEF RowsInv, Types
  <2>3. GrowthSafe
    BY <1>5, InsertGrowingKeepsRowsInv
  <2>4. CASE intact'
    <3>1. /\ phase = "open" /\ \A t \in Tables : RowsOf(disk', t) = RowsOf(disk, t)
          /\ OneRowChanges(RowsOf(buf, table), RowsOf(buf', table))
      BY <2>3, <2>4 DEF GrowthSafe
    <3>2. QED
      BY <2>1, <2>4, <3>1, ChangeStep
  <2>5. CASE ~intact'
    BY <2>1, <2>2, <2>3, <2>5, SurfaceStep DEF GrowthSafe
  <2>6. QED
    BY <2>4, <2>5
<1>6. ASSUME NEW k \in Keys, InsertUnlisted(k) \/ GrowthCut(k) PROVE Transactions!Next
  <2>1. phase \in {"open", "closed"} /\ phase' # "commit" /\ ~intact'
    BY <1>6 DEF InsertUnlisted, GrowthCut, MustGrow, Handle
  <2>2. table \in Tables
    BY <2>1 DEF RowsInv, Types
  <2>3. GrowthSafe
    BY <1>6, InsertUnlistedKeepsRowsInv, GrowthCutKeepsRowsInv
  <2>4. QED
    BY <2>1, <2>2, <2>3, SurfaceStep DEF GrowthSafe
<1>7. QED
  BY <1>2, <1>3, <1>4, <1>5, <1>6

LEMMA CommitsAreTransactions ==
  ASSUME RowsInv, intact,
         BeginCommit \/ CommitRefused \/ CommitNothing \/ FlushFails \/ \E u \in Units : FlushPage(u)
  PROVE  [Transactions!Next]_(Transactions!vars)
<1>1. CASE BeginCommit
  <2>1. /\ phase = "open" /\ phase' = "commit"
        /\ UNCHANGED <<disk, table, atOpen, intact>>
    BY <1>1 DEF BeginCommit, MayCommit
  <2>2. RowsOf(atOpen, table) = RowsOf(disk, table)
    BY <2>1 DEF RowsInv, CommitsGoPageByPage
  <2>3. \A t \in Tables : Committed'[t] = Committed[t]
    BY <2>1, <2>2, CommittedNow
  <2>4. RowsOf(buf', table) = RowsOf(buf, table)
    BY <1>1, BeginCommitKeepsRowsInv
  <2>5. Current' = Current /\ View' = View
    BY <2>1, <2>4 DEF Current, View, Writing
  <2>6. QED
    BY <2>1, <2>3, <2>5, CommittedSame, AbstractStutter
<1>2. CASE CommitRefused \/ CommitNothing
  <2>1. phase = "open" /\ phase' = "closed" /\ disk' = disk /\ table \in Tables
    BY <1>2 DEF CommitRefused, CommitNothing, MayCommit, RowsInv, Types
  <2>2. CASE intact'
    BY <2>1, <2>2, AbortStep
  <2>3. CASE ~intact'
    BY <2>1, <2>3, SurfaceStep
  <2>4. QED
    BY <2>2, <2>3
<1>3. CASE FlushFails
  <2>1. phase = "commit" /\ phase' = "closed" /\ disk' = disk /\ ~intact'
    BY <1>3 DEF FlushFails
  <2>2. QED
    BY <2>1, TearStep
<1>4. ASSUME NEW u \in Units, FlushPage(u) PROVE [Transactions!Next]_(Transactions!vars)
  <2>1. /\ phase = "commit" /\ phase' \in {"commit", "closed"}
        /\ UNCHANGED <<buf, table, atOpen, intact>>
    BY <1>4 DEF FlushPage
  <2>2. table \in Tables
    BY <2>1 DEF RowsInv, Types
  <2>3. /\ \A t \in Tables \ {table} : RowsOf(disk', t) = RowsOf(disk, t)
        /\ phase' = "closed" => RowsOf(disk', table) = RowsOf(buf, table)
    BY <1>4, FlushPageKeepsRowsInv
  <2>4. Current = table /\ table # NoTable /\ View = RowsOf(buf, table)
    BY <2>1, <2>2, KeysAreNotNoKey DEF Current, View, Writing
  <2>5. \A t \in Tables \ {table} : Committed'[t] = Committed[t]
    BY <2>1, <2>3, CommittedNow
  <2>6. CASE phase' = "commit"
    <3>1. \A t \in Tables : Committed'[t] = Committed[t]
      BY <2>1, <2>2, <2>5, <2>6, CommittedNow
    <3>2. Current' = Current /\ View' = View
      BY <2>1, <2>6 DEF Current, View, Writing
    <3>3. QED
      BY <2>1, <3>1, <3>2, CommittedSame, AbstractStutter
  <2>7. CASE phase' = "closed"
    <3>1. Committed'[table] = View
      BY <2>1, <2>2, <2>3, <2>4, <2>7, CommittedNow
    <3>2. Committed' = [Committed EXCEPT ![table] = View]
      <4>1. /\ Committed = [u2 \in Tables |-> CommittedRows(u2)]
            /\ Committed' = [u2 \in Tables |-> CommittedRows(u2)']
        BY DEF Committed
      <4>2. QED
        BY <2>2, <2>5, <3>1, <4>1
    <3>3. Current' = NoTable /\ View' = {}
      BY <2>7 DEF Current, View, Writing
    <3>4. QED
      BY <2>1, <2>4, <3>2, <3>3, AbstractCommit
  <2>8. QED
    BY <2>1, <2>6, <2>7
<1>5. QED
  BY <1>1, <1>2, <1>3, <1>4

LEMMA StepsAreTransactions ==
  RowsInv /\ RowsInv' /\ [Next]_vars => [Transactions!Next]_(Transactions!vars)
<1> SUFFICES ASSUME RowsInv, RowsInv', [Next]_vars
             PROVE  [Transactions!Next]_(Transactions!vars)
  OBVIOUS
<1>1. CASE ~intact
  BY <1>1, DamageLasts DEF Transactions!Next, Transactions!Damaged
<1>2. CASE UNCHANGED vars
  <2>1. /\ disk' = disk /\ buf' = buf /\ phase' = phase /\ table' = table /\ atOpen' = atOpen
        /\ intact' = intact
    BY <1>2 DEF vars, writer
  <2>2. Current' = Current /\ View' = View
    BY <2>1 DEF Current, View, Writing
  <2>3. Committed' = Committed
    BY <2>1, CommittedNow, CommittedSame
  <2>4. QED
    BY <2>1, <2>2, <2>3, AbstractStutter
<1>3. CASE intact /\ Next
  BY <1>3, HandlesAreTransactions, DropIsRecreate, ChangesAreTransactions, CommitsAreTransactions
  DEF Next
<1>4. QED
  BY <1>1, <1>2, <1>3

\* The rows of a file change only by whole commits, one record at a time in the
\* buffers until then, and go wrong only as TransactionalTable says: the writer
\* implements it (openTableWriter, Commit, flushPages, growTable).
THEOREM RowsChangeByCommits == Spec => WritesAreTransactions
<1>1. Init => Transactions!Init
  <2> SUFFICES ASSUME Init PROVE Transactions!Init
    OBVIOUS
  <2>1. phase = "none" /\ intact = TRUE
    BY DEF Init
  <2>2. \A t \in Tables : RowsOf(disk, t) = {}
    BY KeysAreNotNoKey DEF Init, RowsOf, EmptyPage, IndexEntries
  <2>3. Committed = [t \in Tables |-> {}]
    BY <2>1, <2>2 DEF Committed, CommittedRows
  <2>4. Current = NoTable /\ View = {}
    BY <2>1 DEF Current, View, Writing
  <2>5. QED
    BY <2>1, <2>3, <2>4, AbstractInit
<1>2. QED
  BY <1>1, RowsInvAlways, StepsAreTransactions, PTL DEF Spec, WritesAreTransactions, Transactions!Spec

-----------------------------------------------------------------------------
(* The bookkeeping: what a writer counts, and the types of all it keeps.   *)

\* delta is what the writer added to a page or removed from it, since it was
\* opened, and only its data pages have any.
DeltaTracksPages ==
  /\ \A p \in Pages : delta[p] = Occupied(buf, p) - Occupied(atOpen, p)
  /\ \A p \in Pages : delta[p] # 0 => p \in Range(dataPages)

\* The lists and counts of an open writer are those on disk: growth writes an
\* entry to both.
ListsTrackDisk ==
  phase = "open" => buf.list = disk.list /\ buf.count = disk.count

TypesInv ==
  /\ RowsInv
  /\ TypeOK
  /\ DeltaTracksPages
  /\ ListsTrackDisk

\* A table's record-page index lists its data pages, each once and with its
\* records, and its info page has their sum.
Tallied(c, t) ==
  /\ ListedPages(c, t) = OwnedPages(c, t)
  /\ Len(c.list[t]) = Cardinality(OwnedPages(c, t))
  /\ \A i \in DOMAIN c.list[t] : c.list[t][i].count = Occupied(c, c.list[t][i].page)
  /\ c.count[t] = Cardinality(RowsOf(c, t))

\* While a commit is written out the buffer has the tallies, and what is not to be
\* written any more is on disk.
TalliesInv ==
  /\ \A t \in Tables : ~(phase = "commit" /\ t = table) => Tallied(disk, t)
  /\ phase = "commit" =>
       /\ Tallied(buf, table)
       /\ List(table) \notin dirty => disk.list[table] = buf.list[table]
       /\ Info(table) \notin dirty => disk.count[table] = buf.count[table]
  /\ Writing => \A t \in Tables \ {table} : dirty \cap {List(t), Info(t)} = {}

\* The writer knows its table's data pages, and they have on disk the records they
\* had when it was opened.
PagesAreKnown ==
  phase = "open" =>
    /\ Range(dataPages) = OwnedPages(disk, table)
    /\ Len(dataPages) = Cardinality(OwnedPages(disk, table))
    /\ dirty # {} => dataPages # <<>>
    /\ disk.rows = atOpen.rows

\* An owned page the map on disk does not have is one the writer has grown by, and
\* the map is still to be written.
OwnedPagesReserved ==
  \A p \in Pages :
    /\ disk.owner[p] # NoTable
    /\ p \notin disk.pfs
    => /\ Writing
       /\ disk.owner[p] = table
       /\ phase = "open" => DataPage(p) \in dirty

CountsInv ==
  /\ TypesInv
  /\ intact => TalliesInv /\ PagesAreKnown /\ OwnedPagesReserved

-----------------------------------------------------------------------------
(* What the operators return.                                              *)

\* A page has no more records than slots, and the contents of its rows decide how
\* many.
LEMMA OccupiedType ==
  ASSUME NEW c, NEW p
  PROVE  /\ Occupied(c, p) \in 0 .. SlotsPerPage
         /\ IsFiniteSet({s \in Slots : c.rows[p][s] # NoKey})
<1> DEFINE taken == {s \in Slots : c.rows[p][s] # NoKey}
<1>1. IsFiniteSet(Slots) /\ Cardinality(Slots) = SlotsPerPage
  <2>1. IsFiniteSet(1 .. SlotsPerPage)
        /\ Cardinality(1 .. SlotsPerPage) = IF 1 > SlotsPerPage THEN 0 ELSE SlotsPerPage - 1 + 1
    BY FS_Interval
  <2>2. QED
    BY <2>1 DEF Slots
<1>2. taken \in SUBSET Slots
  OBVIOUS
<1> HIDE DEF taken
<1>3. IsFiniteSet(taken) /\ Cardinality(taken) <= SlotsPerPage /\ Cardinality(taken) \in Nat
  BY <1>1, <1>2, FS_Subset, FS_CardinalityType
<1>4. QED
  BY <1>3 DEF taken, Occupied

LEMMA SameOccupied ==
  ASSUME NEW c, NEW d, NEW p, d.rows[p] = c.rows[p]
  PROVE  Occupied(d, p) = Occupied(c, p)
BY DEF Occupied

\* Setting a slot adds a record to its page, removes one, or neither.
LEMMA OccupiedWithSlotSet ==
  ASSUME NEW c, NEW d, NEW p \in Pages, NEW s \in Slots, NEW k, Shaped(c), SlotSet(c, d, p, s, k)
  PROVE  /\ \A q \in Pages \ {p} : Occupied(d, q) = Occupied(c, q)
         /\ Occupied(d, p) = Occupied(c, p) + (IF k # NoKey THEN 1 ELSE 0)
                                            - (IF c.rows[p][s] # NoKey THEN 1 ELSE 0)
<1> DEFINE before == {r \in Slots : c.rows[p][r] # NoKey}
           after == {r \in Slots : d.rows[p][r] # NoKey}
           others == before \ {s}
<1>1. /\ d.rows[p][s] = k
      /\ \A r \in Slots \ {s} : d.rows[p][r] = c.rows[p][r]
      /\ \A q \in Pages \ {p} : d.rows[q] = c.rows[q]
  <2> DEFINE old == c.rows
             new == d.rows
  <2>1. /\ new = [old EXCEPT ![p] = [@ EXCEPT ![s] = k]]
        /\ DOMAIN old = Pages /\ DOMAIN old[p] = Slots
    BY DEF Shaped, SlotSet
  <2> HIDE DEF old, new
  <2>2. /\ new[p] = [old[p] EXCEPT ![s] = k]
        /\ \A q \in Pages \ {p} : new[q] = old[q]
    BY <2>1
  <2>3. QED
    BY <2>1, <2>2 DEF old, new
<1>2. IsFiniteSet(before) /\ IsFiniteSet(others) /\ Cardinality(others) \in Nat
  <2>1. IsFiniteSet(before)
    BY OccupiedType
  <2>2. others \in SUBSET before
    OBVIOUS
  <2> HIDE DEF before, others
  <2>3. QED
    BY <2>1, <2>2, FS_Subset, FS_CardinalityType
<1>3. before = IF c.rows[p][s] # NoKey THEN others \cup {s} ELSE others
  OBVIOUS
<1>4. after = IF k # NoKey THEN others \cup {s} ELSE others
  BY <1>1
<1>5. s \notin others
  OBVIOUS
<1> HIDE DEF before, after, others
<1>6. Cardinality(others \cup {s}) = Cardinality(others) + 1
  BY <1>2, <1>5, FS_AddElement
<1>7. Cardinality(after) = Cardinality(before) + (IF k # NoKey THEN 1 ELSE 0)
                                               - (IF c.rows[p][s] # NoKey THEN 1 ELSE 0)
  BY <1>2, <1>3, <1>4, <1>6
<1>8. QED
  BY <1>1, <1>7 DEF Occupied, before, after

LEMMA EmptyPageIsEmpty ==
  ASSUME NEW c, NEW p, c.rows[p] = EmptyPage
  PROVE  Occupied(c, p) = 0
<1>1. {s \in Slots : c.rows[p][s] # NoKey} = {}
  BY DEF EmptyPage
<1>2. QED
  BY <1>1, FS_EmptySet DEF Occupied

\* A list with as many places as members has each of them once.
LEMMA InFileOrderHasAll ==
  ASSUME NEW S, S \subseteq Pages
  PROVE  Range(InFileOrder(S)) = S /\ Len(InFileOrder(S)) = Cardinality(S)
<1>1. S \subseteq Nat /\ IsFiniteSet(S) /\ Cardinality(S) \in Nat
  BY FS_Subset, FS_CardinalityType
<1> DEFINE f == InFileOrder(S)
           n == Cardinality(S)
<1>2. f \in [1 .. n -> S] /\ \A i, j \in 1 .. n : i < j => f[i] < f[j]
  <2>1. PICK s \in [1 .. n -> S] : Increasing(s, n)
    BY <1>1, IncreasingListing
  <2>2. \A i, j \in DOMAIN s : i < j => s[i] < s[j]
    BY <2>1 DEF Increasing
  <2>3. f \in [1 .. n -> S] /\ \A i, j \in DOMAIN f : i < j => f[i] < f[j]
    BY <2>1, <2>2 DEF InFileOrder
  <2>4. DOMAIN f = 1 .. n
    BY <2>3
  <2>5. QED
    BY <2>3, <2>4
<1> HIDE DEF f
<1>3. f \in Injection(1 .. n, S)
  <2>1. \A i \in 1 .. n : f[i] \in Nat
    BY <1>1, <1>2
  <2>2. \A i, j \in 1 .. n : f[i] = f[j] => i = j
    <3>1. SUFFICES ASSUME NEW i \in 1 .. n, NEW j \in 1 .. n, f[i] = f[j] PROVE i = j
      OBVIOUS
    <3>2. ~(i < j) /\ ~(j < i)
      BY <1>2, <2>1, <3>1
    <3>3. QED
      BY <3>2
  <2>3. QED
    BY <1>2, <2>2 DEF Injection, IsInjective
<1>4. Cardinality(1 .. n) = n
  <2>1. Cardinality(1 .. n) = IF 1 > n THEN 0 ELSE n - 1 + 1
    BY <1>1, FS_Interval
  <2>2. QED
    BY <1>1, <2>1
<1>5. f \in Surjection(1 .. n, S)
  BY <1>1, <1>3, <1>4, FS_Injection
<1>6. Range(f) = S
  BY <1>2, <1>5 DEF Surjection, Range
<1>7. Len(f) = n
  <2> HIDE DEF n
  <2>1. n \in Nat /\ f \in [1 .. n -> S]
    BY <1>1, <1>2 DEF n
  <2>2. QED
    BY <2>1
<1>8. QED
  BY <1>6, <1>7 DEF f

-----------------------------------------------------------------------------
(* Rows and pages.                                                         *)

RowsPerPage(c) == [p \in Pages |-> Occupied(c, p)]

\* The rows of a table are the records on its pages, added up.
LEMMA RowsAreOnPages ==
  ASSUME NEW c, NEW t, Shaped(c)
  PROVE  /\ IsFiniteSet(OwnedPages(c, t))
         /\ Cardinality(RowsOf(c, t)) = SumOver(RowsPerPage(c), OwnedPages(c, t))
<1> DEFINE S == OwnedPages(c, t)
           RowsOn(T) == {e \in RowsOf(c, t) : e.page \in T}
           Good == {T \in SUBSET S : /\ IsFiniteSet(RowsOn(T))
                                     /\ Cardinality(RowsOn(T)) = SumOver(RowsPerPage(c), T)}
<1>1. IsFiniteSet(S) /\ S \subseteq Pages
  BY FS_Subset DEF OwnedPages
<1>2. \A p \in S : RowsPerPage(c)[p] = Occupied(c, p) /\ Occupied(c, p) \in Int
  <2>1. \A p \in S : p \in Pages /\ Occupied(c, p) \in 0 .. SlotsPerPage
    BY <1>1, OccupiedType
  <2>2. QED
    BY <2>1 DEF RowsPerPage
<1> HIDE DEF S
<1>3. ASSUME NEW p \in S
      PROVE  IsFiniteSet(RowsOn({p})) /\ Cardinality(RowsOn({p})) = Occupied(c, p)
  <2> DEFINE taken == {s \in Slots : c.rows[p][s] # NoKey}
             f == [s \in taken |-> Entry(c.rows[p][s], p, s)]
  <2>1. p \in Pages /\ c.owner[p] = t
    BY <1>3 DEF S, OwnedPages
  <2>2. ASSUME NEW s \in taken PROVE f[s] \in RowsOn({p}) /\ f[s].slot = s
    <3> DEFINE k == c.rows[p][s]
    <3>1. k \in Keys
      BY <2>1 DEF Shaped
    <3>2. k = c.rows[p][s] /\ s \in Slots
      OBVIOUS
    <3>3. f[s] = Entry(k, p, s)
      OBVIOUS
    <3> HIDE DEF k
    <3>4. Entry(k, p, s) \in RowsOf(c, t)
      BY <2>1, <3>1, <3>2, EntryInRows
    <3>5. Entry(k, p, s).page = p /\ Entry(k, p, s).slot = s
      BY DEF Entry
    <3> HIDE DEF f
    <3>6. QED
      BY <3>3, <3>4, <3>5
  <2>3. ASSUME NEW e \in RowsOn({p}) PROVE e.slot \in taken /\ f[e.slot] = e
    <3>1. e \in IndexEntries /\ e.page = p /\ c.rows[e.page][e.slot] = e.key
      BY DEF RowsOf
    <3>2. e = Entry(e.key, e.page, e.slot) /\ e.key \in Keys /\ e.slot \in Slots
      BY <3>1, EntriesAreEntries
    <3>3. e.slot \in taken
      BY <3>1, <3>2, KeysAreNotNoKey
    <3>4. QED
      BY <3>1, <3>2, <3>3
  <2> DEFINE on == RowsOn({p})
  <2> HIDE DEF f, RowsOn
  <2>4. f \in Bijection(taken, on)
    <3>1. f \in [taken -> on]
      <4>1. f = [s \in taken |-> f[s]]
        BY DEF f
      <4> HIDE DEF taken
      <4>2. QED
        BY <2>2, <4>1
    <3>2. QED
      BY <2>2, <2>3, <3>1 DEF Bijection, Injection, Surjection, IsInjective
  <2>5. ExistsBijection(taken, on)
    BY <2>4 DEF ExistsBijection
  <2>6. IsFiniteSet(taken) /\ Cardinality(taken) = Occupied(c, p)
    BY OccupiedType DEF Occupied
  <2>7. QED
    <3> HIDE DEF taken
    <3>1. QED
      BY <2>5, <2>6, FS_Bijection
<1>4. ASSUME NEW T \in SUBSET S, \A x \in T : T \ {x} \in Good
      PROVE  T \in Good
  <2>1. IsFiniteSet(T) /\ \A x \in T : RowsPerPage(c)[x] \in Int
    BY <1>1, <1>2, FS_Subset
  <2>2. CASE T = {}
    <3>1. RowsOn(T) = {}
      BY <2>2
    <3>2. SumOver(RowsPerPage(c), {}) = 0
      BY <2>1, SumLaws
    <3>3. QED
      BY <2>2, <3>1, <3>2, FS_EmptySet
  <2>3. CASE T # {}
    <3>1. PICK x \in T : TRUE
      BY <2>3
    <3> DEFINE U == T \ {x}
               here == RowsOn({x})
               there == RowsOn(U)
    <3>2. IsFiniteSet(there) /\ Cardinality(there) = SumOver(RowsPerPage(c), U)
      BY <1>4
    <3>3. IsFiniteSet(here) /\ Cardinality(here) = Occupied(c, x)
      BY <1>3
    <3>4. RowsOn(T) = here \cup there /\ here \cap there = {}
      OBVIOUS
    <3>5. SumOver(RowsPerPage(c), T) = RowsPerPage(c)[x] + SumOver(RowsPerPage(c), U)
      BY <2>1, SumLaws
    <3>6. RowsPerPage(c)[x] = Occupied(c, x)
      BY <1>2
    <3> DEFINE all == RowsOn(T)
    <3> HIDE DEF U, here, there, all
    <3>7. IsFiniteSet(here \cup there)
          /\ Cardinality(here \cup there) = Cardinality(here) + Cardinality(there) - Cardinality(here \cap there)
      BY <3>2, <3>3, FS_Union
    <3>8. Cardinality(here \cap there) = 0
      BY <3>4, FS_EmptySet
    <3>9. Cardinality(here) \in Nat /\ Cardinality(there) \in Nat
      BY <3>2, <3>3, FS_CardinalityType
    <3>10. all = here \cup there
      BY <3>4 DEF all
    <3>11. Cardinality(all) = SumOver(RowsPerPage(c), T)
      <4>1. Cardinality(all) = Cardinality(here) + Cardinality(there)
        BY <3>7, <3>8, <3>9, <3>10
      <4>2. QED
        BY <3>2, <3>3, <3>5, <3>6, <4>1
    <3>12. IsFiniteSet(all)
      BY <3>7, <3>10
    <3>13. QED
      BY <3>11, <3>12 DEF all
  <2>4. QED
    BY <2>2, <2>3
<1>5. S \in Good
  <2> HIDE DEF Good
  <2>1. QED
    BY <1>1, <1>4, SubsetsByInduction
<1>6. RowsOn(S) = RowsOf(c, t)
  BY DEF S, RowsOf, OwnedPages, IndexEntries
<1>7. QED
  BY <1>1, <1>5, <1>6 DEF S

\* Tallies depend on the list, the count and the pages of the table alone.
LEMMA TalliedSame ==
  ASSUME NEW c, NEW d, NEW t, Tallied(c, t),
         d.list[t] = c.list[t], d.count[t] = c.count[t],
         OwnedPages(d, t) = OwnedPages(c, t), RowsOf(d, t) = RowsOf(c, t),
         \A p \in OwnedPages(c, t) : d.rows[p] = c.rows[p]
  PROVE  Tallied(d, t)
<1>1. ListedPages(d, t) = ListedPages(c, t)
  BY DEF ListedPages
<1>2. ASSUME NEW i \in DOMAIN c.list[t]
      PROVE  c.list[t][i].count = Occupied(d, c.list[t][i].page)
  <2>1. c.list[t][i].page \in OwnedPages(c, t)
    BY DEF Tallied, ListedPages
  <2>2. QED
    BY <2>1, SameOccupied DEF Tallied
<1>3. QED
  BY <1>1, <1>2 DEF Tallied

-----------------------------------------------------------------------------
(* Types.                                                                  *)

LEMMA ChangedContents ==
  ASSUME NEW c \in Contents, NEW p \in Pages, NEW s \in Slots, NEW k \in Keys \cup {NoKey},
         NEW t \in Tables, NEW L \in SUBSET IndexEntries
  PROVE  /\ [c EXCEPT !.rows[p][s] = k] \in Contents
         /\ [c EXCEPT !.rows[p][s] = k, !.leaf[t] = L] \in Contents
         /\ [c EXCEPT !.leaf[t] = L] \in Contents
BY DEF Contents

LEMMA GrownContents ==
  ASSUME NEW c \in Contents, NEW p \in Pages, buf \in Contents, table \in Tables
  PROVE  /\ WithNewPage(c, p) \in Contents
         /\ Reserved(c, p) \in Contents
         /\ Listed(c, p) \in Contents
<1>1. WithNewPage(c, p) \in Contents
  BY DEF WithNewPage, Contents
<1>2. Reserved(c, p) \in Contents
  BY DEF Reserved, Contents
<1>3. Listed(c, p) \in Contents
  <2>1. [page |-> p, count |-> 0] \in ListEntries
    BY DEF ListEntries
  <2>2. Append(buf.list[table], [page |-> p, count |-> 0]) \in Seq(ListEntries)
    BY <2>1 DEF Contents
  <2> HIDE DEF ListEntries
  <2>3. QED
    BY <2>2 DEF Listed, Contents
<1>4. QED
  BY <1>1, <1>2, <1>3

LEMMA StoredContents ==
  ASSUME NEW c \in Contents, NEW p \in Pages, NEW s \in Slots, NEW k \in Keys, table \in Tables
  PROVE  Stored(c, k, p, s) \in Contents
<1>1. c.leaf \in [Tables -> SUBSET IndexEntries]
  BY DEF Contents
<1>2. c.leaf[table] \cup {Entry(k, p, s)} \in SUBSET IndexEntries
  <2>1. Entry(k, p, s) \in IndexEntries
    BY EntryInRows
  <2>2. c.leaf[table] \in SUBSET IndexEntries
    BY <1>1
  <2>3. QED
    BY <2>1, <2>2
<1>3. QED
  BY <1>2, ChangedContents DEF Stored

LEMMA WrittenContents ==
  ASSUME NEW c \in Contents, NEW from \in Contents, NEW u \in Units
  PROVE  Written(c, from, u) \in Contents
<1> DEFINE d == Written(c, from, u)
<1>1. ASSUME u = Pfs
      PROVE  d \in Contents
  <2>1. d = [c EXCEPT !.pfs = from.pfs]
    BY <1>1 DEF Written, Pfs
  <2> HIDE DEF d
  <2>2. QED
    BY <2>1 DEF Contents
<1>2. ASSUME NEW p \in Pages, u = DataPage(p)
      PROVE  d \in Contents
  <2>1. d = [c EXCEPT !.owner[p] = from.owner[p], !.rows[p] = from.rows[p]]
    BY <1>2 DEF Written, DataPage, Pfs
  <2>2. from.owner[p] \in Tables \cup {NoTable} /\ from.rows[p] \in [Slots -> Keys \cup {NoKey}]
    BY DEF Contents
  <2> HIDE DEF d
  <2>3. QED
    <3> DEFINE o == from.owner[p]
               r == from.rows[p]
    <3>1. /\ d = [c EXCEPT !.owner[p] = o, !.rows[p] = r]
          /\ o \in Tables \cup {NoTable} /\ r \in [Slots -> Keys \cup {NoKey}]
      BY <2>1, <2>2
    <3> HIDE DEF o, r
    <3>2. QED
      BY <3>1 DEF Contents
<1>3. ASSUME NEW t \in Tables, u = Leaf(t)
      PROVE  d \in Contents
  <2>1. d = [c EXCEPT !.leaf[t] = from.leaf[t]]
    BY <1>3 DEF Written, Leaf, Pfs
  <2> HIDE DEF d
  <2>2. QED
    BY <2>1 DEF Contents
<1>4. ASSUME NEW t \in Tables, u = List(t)
      PROVE  d \in Contents
  <2>1. d = [c EXCEPT !.list[t] = from.list[t]]
    BY <1>4 DEF Written, List, Pfs
  <2> HIDE DEF d
  <2>2. QED
    BY <2>1 DEF Contents
<1>5. ASSUME NEW t \in Tables, u = Info(t)
      PROVE  d \in Contents
  <2>1. d = [c EXCEPT !.count[t] = from.count[t]]
    BY <1>5 DEF Written, Info, Pfs
  <2> HIDE DEF d
  <2>2. QED
    BY <2>1 DEF Contents
<1>6. QED
  BY <1>1, <1>2, <1>3, <1>4, <1>5 DEF Units

LEMMA RecountedContents ==
  ASSUME buf \in Contents, NEW u \in Tables
  PROVE  /\ Recounted(u) \in Seq(ListEntries)
         /\ Len(Recounted(u)) = Len(buf.list[u])
         /\ \A i \in DOMAIN buf.list[u] : Recounted(u)[i].page = buf.list[u][i].page
<1> DEFINE before == buf.list[u]
           after == Recounted(u)
           n == Len(before)
<1>1. before \in Seq(ListEntries)
  BY DEF Contents
<1>2. n \in Nat /\ DOMAIN before = 1 .. n /\ \A i \in 1 .. n : before[i] \in ListEntries
  BY <1>1
<1>3. /\ DOMAIN after = 1 .. n
      /\ \A i \in 1 .. n : \/ after[i] = before[i]
                           \/ after[i] = [before[i] EXCEPT !.count = Occupied(buf, before[i].page)]
  BY <1>2 DEF Recounted
<1>4. after = [i \in 1 .. n |-> after[i]]
  BY <1>2 DEF Recounted
<1> HIDE DEF before, after, n
<1>5. ASSUME NEW i \in 1 .. n
      PROVE  after[i] \in ListEntries /\ after[i].page = before[i].page
  <2> DEFINE o == Occupied(buf, before[i].page)
  <2>1. o \in 0 .. SlotsPerPage
    BY OccupiedType
  <2>2. before[i] \in ListEntries
    BY <1>2
  <2>3. after[i] = before[i] \/ after[i] = [before[i] EXCEPT !.count = o]
    BY <1>3
  <2> HIDE DEF o
  <2>4. QED
    BY <2>1, <2>2, <2>3 DEF ListEntries
<1>6. after \in [1 .. n -> ListEntries]
  BY <1>4, <1>5
<1>7. after \in Seq(ListEntries) /\ Len(after) = n
  BY <1>2, <1>6
<1>8. QED
  BY <1>2, <1>5, <1>7 DEF before, after, n

-----------------------------------------------------------------------------
(* Steps that take a new handle on the file.                               *)

LEMMA InitEstablishesCountsInv == Init => CountsInv
<1> SUFFICES ASSUME Init PROVE CountsInv
  OBVIOUS
<1>1. RowsInv
  BY InitEstablishesRowsInv
<1>2. TypeOK
  <2>1. disk \in Contents
    <3>1. EmptyPage \in [Slots -> Keys \cup {NoKey}]
      BY DEF EmptyPage
    <3>2. QED
      BY <3>1 DEF Init, Contents
  <2>2. 0 \in -SlotsPerPage .. SlotsPerPage
    OBVIOUS
  <2>3. QED
    BY <2>1, <2>2 DEF Init, TypeOK
<1>3. /\ disk = buf /\ disk = atOpen /\ phase = "none" /\ intact
      /\ \A p \in Pages : delta[p] = 0
  BY DEF Init
<1>4. DeltaTracksPages /\ ListsTrackDisk
  <2>1. \A p \in Pages : Occupied(buf, p) = Occupied(atOpen, p) /\ Occupied(buf, p) \in Int
    <3>1. \A p \in Pages : Occupied(buf, p) \in 0 .. SlotsPerPage
      BY OccupiedType
    <3>2. QED
      BY <1>3, <3>1
  <2>2. QED
    BY <1>3, <2>1 DEF DeltaTracksPages, ListsTrackDisk
<1>5. \A t \in Tables : OwnedPages(disk, t) = {} /\ RowsOf(disk, t) = {}
  BY KeysAreNotNoKey DEF Init, RowsOf, OwnedPages, EmptyPage, IndexEntries
<1>6. \A t \in Tables : Tallied(disk, t)
  <2>1. \A t \in Tables : disk.list[t] = <<>> /\ disk.count[t] = 0
    BY DEF Init
  <2>2. ASSUME NEW t \in Tables PROVE Tallied(disk, t)
    <3>1. disk.list[t] = <<>> /\ disk.count[t] = 0 /\ OwnedPages(disk, t) = {} /\ RowsOf(disk, t) = {}
      BY <1>5, <2>1
    <3>2. QED
      BY <3>1, FS_EmptySet DEF Tallied, ListedPages
  <2>3. QED
    BY <2>2
<1>7. \A p \in Pages : disk.owner[p] = NoTable
  BY DEF Init
<1>8. QED
  BY <1>1, <1>2, <1>3, <1>4, <1>6, <1>7
  DEF CountsInv, TypesInv, TalliesInv, PagesAreKnown, OwnedPagesReserved, Writing

LEMMA HandleKeepsCounts ==
  ASSUME NEW t, NEW ph, Handle(t, ph),
         (t \in Tables /\ ph = "open") \/ (t = NoTable /\ ph = "none"),
         RowsInv', disk' \in Contents, drops' \in 0 .. MaxDrops, intact' \in BOOLEAN,
         intact' => \A u \in Tables : Tallied(disk', u)
  PROVE  CountsInv'
<1>1. /\ table' = t /\ phase' = ph /\ buf' = disk' /\ atOpen' = disk' /\ dirty' = {}
      /\ dataPages' = IF t = NoTable THEN <<>> ELSE InFileOrder(OwnedPages(disk', t))
      /\ delta' = [p \in Pages |-> 0]
      /\ grown' = <<>> /\ changes' = 0
  BY DEF Handle
<1>2. TypeOK'
  <2>1. 0 \in -SlotsPerPage .. SlotsPerPage /\ 0 \in 0 .. MaxChanges
    OBVIOUS
  <2>2. dataPages' \in Seq(Pages)
    BY DEF RowsInv, Types
  <2>3. QED
    BY <1>1, <2>1, <2>2 DEF TypeOK
<1>3. DeltaTracksPages'
  <2>1. \A p \in Pages : Occupied(disk', p) \in 0 .. SlotsPerPage
    BY OccupiedType
  <2>2. \A p \in Pages : delta'[p] = 0
    BY <1>1
  <2>3. \A p \in Pages : delta'[p] = Occupied(buf', p) - Occupied(atOpen', p)
    BY <1>1, <2>1, <2>2
  <2>4. QED
    BY <2>2, <2>3 DEF DeltaTracksPages, Occupied
<1>4. ListsTrackDisk'
  BY <1>1 DEF ListsTrackDisk
<1>5. ASSUME intact' PROVE TalliesInv' /\ PagesAreKnown' /\ OwnedPagesReserved'
  <2>1. \A u \in Tables : Tallied(disk, u)'
    BY <1>5 DEF Tallied, ListedPages, OwnedPages, RowsOf, Occupied
  <2>2. TalliesInv'
    BY <1>1, <2>1 DEF TalliesInv
  <2>3. ASSUME phase' = "open"
        PROVE  Range(dataPages') = OwnedPages(disk', table')
               /\ Len(dataPages') = Cardinality(OwnedPages(disk', table'))
    <3>1. t \in Tables /\ t # NoTable
      BY <1>1, <2>3, KeysAreNotNoKey
    <3>2. OwnedPages(disk', t) \subseteq Pages
      BY DEF OwnedPages
    <3>3. QED
      BY <1>1, <3>1, <3>2, InFileOrderHasAll
  <2>4. PagesAreKnown'
    BY <1>1, <2>3 DEF PagesAreKnown, OwnedPages
  <2>5. \A p \in Pages : disk'.owner[p] # NoTable => p \in disk'.pfs
    BY <1>1, <1>5 DEF RowsInv, OwnedPagesAreTaken
  <2>6. OwnedPagesReserved'
    BY <2>5 DEF OwnedPagesReserved
  <2>7. QED
    BY <2>2, <2>4, <2>6
<1>6. QED
  BY <1>2, <1>3, <1>4, <1>5 DEF CountsInv, TypesInv

\* Opening, giving up, forgetting: the file stays as it is.
LEMMA UnchangedDiskKeepsCounts ==
  ASSUME CountsInv, RowsInv', NEW t, NEW ph, Handle(t, ph), UNCHANGED <<disk, drops>>,
         (t \in Tables /\ ph = "open") \/ (t = NoTable /\ ph = "none"),
         intact' \in BOOLEAN, intact' => intact /\ phase # "commit"
  PROVE  CountsInv'
<1>1. disk' \in Contents /\ drops' \in 0 .. MaxDrops
  BY DEF CountsInv, TypesInv, TypeOK
<1>2. ASSUME intact', NEW u \in Tables PROVE Tallied(disk', u)
  BY <1>2 DEF CountsInv, TalliesInv
<1>3. QED
  BY <1>1, <1>2, HandleKeepsCounts

LEMMA DropKeepsCounts ==
  ASSUME CountsInv, RowsInv', NEW t \in Tables, DropAndCreate(t)
  PROVE  CountsInv'
<1>1. /\ phase = "none" /\ intact /\ intact' = intact /\ Handle(NoTable, "none")
      /\ drops < MaxDrops /\ drops' = drops + 1
      /\ disk' = [disk EXCEPT
                   !.pfs = @ \ OwnedPages(disk, t),
                   !.owner = [p \in Pages |-> IF @[p] = t THEN NoTable ELSE @[p]],
                   !.leaf[t] = {},
                   !.list[t] = <<>>,
                   !.count[t] = 0]
  BY DEF DropAndCreate
<1>2. disk \in Contents /\ drops \in 0 .. MaxDrops /\ RowsInv
  BY DEF CountsInv, TypesInv, TypeOK
<1>3. /\ disk' \in Contents
      /\ disk'.owner = [p \in Pages |-> IF disk.owner[p] = t THEN NoTable ELSE disk.owner[p]]
      /\ disk'.rows = disk.rows
      /\ disk'.list = [disk.list EXCEPT ![t] = <<>>]
      /\ disk'.count = [disk.count EXCEPT ![t] = 0]
  <2> DEFINE owner == [p \in Pages |-> IF disk.owner[p] = t THEN NoTable ELSE disk.owner[p]]
             pfs == disk.pfs \ OwnedPages(disk, t)
  <2>1. owner \in [Pages -> Tables \cup {NoTable}] /\ pfs \in SUBSET Pages
    BY <1>2 DEF Contents
  <2>2. disk' = [disk EXCEPT !.pfs = pfs, !.owner = owner, !.leaf[t] = {}, !.list[t] = <<>>, !.count[t] = 0]
    BY <1>1, <1>2 DEF Contents
  <2>3. <<>> \in Seq(ListEntries) /\ {} \in SUBSET IndexEntries /\ 0 \in Nat
    OBVIOUS
  <2> HIDE DEF owner, pfs
  <2>4. /\ disk' \in Contents
        /\ disk'.owner = owner
        /\ disk'.rows = disk.rows
        /\ disk'.list = [disk.list EXCEPT ![t] = <<>>]
        /\ disk'.count = [disk.count EXCEPT ![t] = 0]
    BY <1>2, <2>1, <2>2, <2>3 DEF Contents
  <2>5. QED
    BY <2>4 DEF owner
<1>4. drops' \in 0 .. MaxDrops
  BY <1>1, <1>2
<1>5. ASSUME NEW u \in Tables PROVE Tallied(disk', u)
  <2>1. RowsOf(disk', u) = IF u = t THEN {} ELSE RowsOf(disk, u)
    BY <1>2, DropKeepsRowsInv
  <2>2. OwnedPages(disk', u) = IF u = t THEN {} ELSE OwnedPages(disk, u)
    BY <1>3, KeysAreNotNoKey DEF OwnedPages
  <2>3. /\ disk'.list[u] = IF u = t THEN <<>> ELSE disk.list[u]
        /\ disk'.count[u] = IF u = t THEN 0 ELSE disk.count[u]
    BY <1>2, <1>3 DEF Contents
  <2>4. CASE u = t
    BY <2>1, <2>2, <2>3, <2>4, FS_EmptySet DEF Tallied, ListedPages
  <2>5. CASE u # t
    <3>1. Tallied(disk, u)
      BY <1>1 DEF CountsInv, TalliesInv
    <3>2. QED
      BY <1>3, <2>1, <2>2, <2>3, <2>5, <3>1, TalliedSame
  <2>6. QED
    BY <2>4, <2>5
<1>6. QED
  BY <1>1, <1>3, <1>4, <1>5, HandleKeepsCounts

-----------------------------------------------------------------------------
(* Insert, Delete and Update.                                              *)

LEMMA RoomyPage ==
  ASSUME dataPages \in Seq(Pages), RoomyPages # {}, NEW p, p = dataPages[Min(RoomyPages)]
  PROVE  /\ p \in Pages /\ p \in Range(dataPages)
         /\ FirstFreeSlot(p) \in Slots
         /\ buf.rows[p][FirstFreeSlot(p)] = NoKey
<1>1. RoomyPages \subseteq Nat /\ RoomyPages \subseteq DOMAIN dataPages
  BY DEF RoomyPages
<1>2. Min(RoomyPages) \in RoomyPages
  BY <1>1, MinOfBounded
<1>3. Min(RoomyPages) \in DOMAIN dataPages /\ \E r \in Slots : buf.rows[p][r] = NoKey
  BY <1>2 DEF RoomyPages
<1>4. p \in Pages /\ p \in Range(dataPages)
  BY <1>3 DEF Range
<1> DEFINE free == {r \in Slots : buf.rows[p][r] = NoKey}
<1>5. free \subseteq Nat /\ free # {}
  BY <1>3 DEF Slots
<1>6. Min(free) \in free
  <2> HIDE DEF free
  <2>1. QED
    BY <1>5, MinOfBounded
<1>7. QED
  BY <1>4, <1>6 DEF FirstFreeSlot

\* One slot of one of the writer's data pages is set in the buffer, and delta keeps
\* track of it.
LEMMA SlotStepKeepsCounts ==
  ASSUME CountsInv, RowsInv', phase = "open",
         UNCHANGED <<disk, phase, table, dataPages, grown, atOpen, drops, intact>>,
         MayWrite, changes' = changes + 1,
         NEW p \in Pages, NEW s \in Slots, NEW k \in Keys \cup {NoKey}, p \in Range(dataPages),
         buf' \in Contents, buf'.list = buf.list, buf'.count = buf.count,
         SlotSet(buf, buf', p, s, k),
         delta' = [delta EXCEPT ![p] = @ + (IF k # NoKey THEN 1 ELSE 0)
                                         - (IF buf.rows[p][s] # NoKey THEN 1 ELSE 0)],
         dirty' = dirty \cup {DataPage(p), Leaf(table)} \/ dirty' = dirty \cup {DataPage(p)}
  PROVE  CountsInv'
<1>1. TypeOK /\ RowsInv /\ DeltaTracksPages /\ ListsTrackDisk /\ table \in Tables
  BY DEF CountsInv, TypesInv, RowsInv, Types
<1>2. delta \in [Pages -> -SlotsPerPage .. SlotsPerPage]
  BY <1>1 DEF TypeOK
<1>3. Shaped(buf)
  BY <1>1 DEF RowsInv, Types
<1>4. /\ \A q \in Pages \ {p} : Occupied(buf', q) = Occupied(buf, q)
      /\ Occupied(buf', p) = Occupied(buf, p) + (IF k # NoKey THEN 1 ELSE 0)
                                               - (IF buf.rows[p][s] # NoKey THEN 1 ELSE 0)
  BY <1>3, OccupiedWithSlotSet
<1>5. \A q \in Pages : /\ Occupied(buf, q) \in 0 .. SlotsPerPage
                        /\ Occupied(buf', q) \in 0 .. SlotsPerPage
                        /\ Occupied(atOpen, q) \in 0 .. SlotsPerPage
  BY OccupiedType
<1>6. ASSUME NEW q \in Pages
      PROVE  /\ delta'[q] = Occupied(buf', q) - Occupied(atOpen, q)
             /\ delta'[q] \in -SlotsPerPage .. SlotsPerPage
             /\ delta'[q] # 0 => q \in Range(dataPages)
  <2>1. delta[q] = Occupied(buf, q) - Occupied(atOpen, q) /\ (delta[q] # 0 => q \in Range(dataPages))
    BY <1>1 DEF DeltaTracksPages
  <2>2. delta'[q] = Occupied(buf', q) - Occupied(atOpen, q) /\ (delta'[q] # 0 => q \in Range(dataPages))
    <3>1. CASE q = p
      BY <1>2, <1>4, <1>5, <2>1, <3>1
    <3>2. CASE q # p
      BY <1>2, <1>4, <2>1, <3>2
    <3>3. QED
      BY <3>1, <3>2
  <2>3. QED
    BY <1>5, <2>2
<1>7. delta' \in [Pages -> -SlotsPerPage .. SlotsPerPage]
  <2>1. delta' = [q \in Pages |-> delta'[q]]
    BY <1>2
  <2>2. QED
    BY <1>6, <2>1
<1>8. TypeOK'
  <2>1. changes' \in 0 .. MaxChanges
    BY <1>1 DEF TypeOK, MayWrite
  <2>2. {DataPage(p), Leaf(table)} \subseteq Units
    BY <1>1 DEF Units
  <2>3. dirty' \subseteq Units
    BY <1>1, <2>2 DEF TypeOK
  <2>4. QED
    BY <1>1, <1>7, <2>1, <2>3 DEF TypeOK
<1>9. DeltaTracksPages'
  BY <1>6 DEF DeltaTracksPages, Occupied
<1>10. ListsTrackDisk'
  BY <1>1 DEF ListsTrackDisk
<1>11. ASSUME intact PROVE TalliesInv' /\ PagesAreKnown' /\ OwnedPagesReserved'
  <2>1. TalliesInv /\ PagesAreKnown /\ OwnedPagesReserved
    BY <1>11 DEF CountsInv
  <2>2. ASSUME NEW t \in Tables PROVE Tallied(disk, t)'
    <3>1. Tallied(disk, t)
      BY <2>1 DEF TalliesInv
    <3>2. Tallied(disk', t)
      BY <3>1
    <3>3. QED
      BY <3>2 DEF Tallied, ListedPages, OwnedPages, RowsOf, Occupied
  <2>3. \A t \in Tables : {DataPage(p), Leaf(table)} \cap {List(t), Info(t)} = {}
    BY UnitsDiffer
  <2>4. TalliesInv'
    BY <2>1, <2>2, <2>3 DEF TalliesInv, Writing
  <2>5. dataPages # <<>>
    BY DEF Range
  <2>6. PagesAreKnown'
    BY <2>1, <2>5 DEF PagesAreKnown, OwnedPages
  <2>7. OwnedPagesReserved'
    BY <2>1 DEF OwnedPagesReserved, Writing
  <2>8. QED
    BY <2>4, <2>6, <2>7
<1>12. QED
  BY <1>8, <1>9, <1>10, <1>11 DEF CountsInv, TypesInv

LEMMA InsertKeepsCounts ==
  ASSUME CountsInv, RowsInv', NEW k \in Keys, Insert(k)
  PROVE  CountsInv'
<1> DEFINE p == dataPages[Min(RoomyPages)]
           s == FirstFreeSlot(p)
<1>1. /\ phase = "open" /\ RoomyPages # {} /\ MayWrite
      /\ buf' = Stored(buf, k, p, s)
      /\ delta' = [delta EXCEPT ![p] = @ + 1]
      /\ dirty' = dirty \cup {DataPage(p), Leaf(table)}
      /\ changes' = changes + 1
      /\ UNCHANGED <<disk, phase, table, dataPages, grown, atOpen, drops, intact>>
  BY DEF Insert
<1>2. /\ Shaped(buf) /\ table \in Tables /\ dataPages \in Seq(Pages) /\ buf \in Contents
      /\ delta \in [Pages -> -SlotsPerPage .. SlotsPerPage]
  BY <1>1 DEF CountsInv, TypesInv, RowsInv, Types, TypeOK
<1>3. p \in Pages /\ p \in Range(dataPages) /\ s \in Slots /\ buf.rows[p][s] = NoKey
  BY <1>1, <1>2, RoomyPage
<1> HIDE DEF p, s
<1>4. /\ buf' \in Contents /\ SlotSet(buf, buf', p, s, k)
      /\ buf'.list = buf.list /\ buf'.count = buf.count
  <2>1. buf' \in Contents /\ SlotSet(buf, buf', p, s, k)
    BY <1>1, <1>2, <1>3, StoredContents, StoredSetsSlot
  <2>2. buf'.list = buf.list /\ buf'.count = buf.count
    BY <1>1, <1>2 DEF Stored, Contents
  <2>3. QED
    BY <2>1, <2>2
<1>5. k # NoKey
  BY KeysAreNotNoKey
<1>6. delta' = [delta EXCEPT ![p] = @ + (IF k # NoKey THEN 1 ELSE 0)
                                      - (IF buf.rows[p][s] # NoKey THEN 1 ELSE 0)]
  BY <1>1, <1>2, <1>3, <1>5
<1>7. QED
  BY <1>1, <1>3, <1>4, <1>6, SlotStepKeepsCounts

LEMMA DeleteKeepsCounts ==
  ASSUME CountsInv, RowsInv', NEW p \in Pages, NEW s \in Slots, Delete(p, s)
  PROVE  CountsInv'
<1> DEFINE gone == CHOOSE e \in EntriesAt(table, p, s) : \A f \in EntriesAt(table, p, s) : e.key <= f.key
<1>1. /\ phase = "open" /\ p \in Range(dataPages) /\ buf.rows[p][s] # NoKey /\ MayWrite
      /\ buf' = [buf EXCEPT !.rows[p][s] = NoKey, !.leaf[table] = @ \ {gone}]
      /\ delta' = [delta EXCEPT ![p] = @ - 1]
      /\ dirty' = dirty \cup {DataPage(p), Leaf(table)}
      /\ changes' = changes + 1
      /\ UNCHANGED <<disk, phase, table, dataPages, grown, atOpen, drops, intact>>
  BY DEF Delete
<1> HIDE DEF gone
<1>2. /\ Shaped(buf) /\ table \in Tables /\ buf \in Contents
      /\ delta \in [Pages -> -SlotsPerPage .. SlotsPerPage]
  BY <1>1 DEF CountsInv, TypesInv, RowsInv, Types, TypeOK
<1> DEFINE L == buf.leaf[table] \ {gone}
<1>3. L \in SUBSET IndexEntries
  BY <1>2 DEF Contents
<1>4. buf' = [buf EXCEPT !.rows[p][s] = NoKey, !.leaf[table] = L]
  BY <1>1
<1> HIDE DEF L
<1>5. buf' \in Contents
  BY <1>2, <1>3, <1>4, ChangedContents
<1>6. SlotSet(buf, buf', p, s, NoKey) /\ buf'.list = buf.list /\ buf'.count = buf.count
  BY <1>2, <1>4 DEF SlotSet, Contents
<1>7. delta' = [delta EXCEPT ![p] = @ + (IF NoKey # NoKey THEN 1 ELSE 0)
                                      - (IF buf.rows[p][s] # NoKey THEN 1 ELSE 0)]
  <2> DEFINE come == IF NoKey # NoKey THEN 1 ELSE 0
             go == IF buf.rows[p][s] # NoKey THEN 1 ELSE 0
  <2>1. come = 0 /\ go = 1
    BY <1>1
  <2> HIDE DEF come, go
  <2>2. delta' = [delta EXCEPT ![p] = @ + come - go]
    <3>1. delta[p] \in Int
      BY <1>2
    <3>2. delta[p] + come - go = delta[p] - 1
      BY <2>1, <3>1
    <3>3. QED
      BY <1>1, <3>2
  <2>3. QED
    BY <2>2 DEF come, go
<1>8. QED
  BY <1>1, <1>5, <1>6, <1>7, SlotStepKeepsCounts

LEMMA UpdateKeepsCounts ==
  ASSUME CountsInv, RowsInv', NEW p \in Pages, NEW s \in Slots, NEW k \in Keys, Update(p, s, k)
  PROVE  CountsInv'
<1> DEFINE found == EntriesAt(table, p, s)
           gone == CHOOSE e \in found : \A f \in found : e.key <= f.key
<1>1. /\ phase = "open" /\ p \in Range(dataPages) /\ buf.rows[p][s] # NoKey /\ MayWrite
      /\ dirty' = dirty \cup {DataPage(p), Leaf(table)} \/ dirty' = dirty \cup {DataPage(p)}
      /\ changes' = changes + 1
      /\ UNCHANGED <<disk, phase, table, dataPages, delta, grown, atOpen, drops, intact>>
      /\ \/ buf' = [Stored(buf, k, p, s) EXCEPT !.leaf[table] = @ \ {gone}]
         \/ buf' = [buf EXCEPT !.rows[p][s] = k]
  BY DEF Update
<1> HIDE DEF found, gone
<1>2. /\ Shaped(buf) /\ table \in Tables /\ buf \in Contents
      /\ delta \in [Pages -> -SlotsPerPage .. SlotsPerPage]
  BY <1>1 DEF CountsInv, TypesInv, RowsInv, Types, TypeOK
<1>3. /\ buf' \in Contents /\ SlotSet(buf, buf', p, s, k)
      /\ buf'.list = buf.list /\ buf'.count = buf.count
  <2>1. CASE buf' = [buf EXCEPT !.rows[p][s] = k]
    <3>1. buf' \in Contents
      BY <1>2, <2>1, ChangedContents
    <3>2. SlotSet(buf, buf', p, s, k) /\ buf'.list = buf.list /\ buf'.count = buf.count
      BY <1>2, <2>1 DEF SlotSet, Contents
    <3>3. QED
      BY <3>1, <3>2
  <2>2. CASE buf' = [Stored(buf, k, p, s) EXCEPT !.leaf[table] = @ \ {gone}]
    <3> DEFINE d == Stored(buf, k, p, s)
               L == d.leaf[table] \ {gone}
    <3>1. d \in Contents /\ SlotSet(buf, d, p, s, k)
      BY <1>2, StoredContents, StoredSetsSlot
    <3>2. d.list = buf.list /\ d.count = buf.count
      BY <1>2 DEF Stored, Contents
    <3>3. buf' = [d EXCEPT !.leaf[table] = L]
      BY <2>2
    <3> HIDE DEF d
    <3>4. L \in SUBSET IndexEntries
      BY <1>2, <3>1 DEF Contents
    <3> HIDE DEF L
    <3>5. buf' \in Contents
      BY <1>2, <3>1, <3>3, <3>4, ChangedContents
    <3>6. SlotSet(buf, buf', p, s, k) /\ buf'.list = buf.list /\ buf'.count = buf.count
      BY <3>1, <3>2, <3>3 DEF SlotSet, Contents
    <3>7. QED
      BY <3>5, <3>6
  <2>3. QED
    BY <1>1, <2>1, <2>2
<1>4. k # NoKey
  BY KeysAreNotNoKey
<1>5. delta' = [delta EXCEPT ![p] = @ + (IF k # NoKey THEN 1 ELSE 0)
                                      - (IF buf.rows[p][s] # NoKey THEN 1 ELSE 0)]
  BY <1>1, <1>2, <1>4
<1>6. QED
  BY <1>1, <1>3, <1>5, SlotStepKeepsCounts

-----------------------------------------------------------------------------
(* Growth.                                                                 *)

\* What a page's being taken does to the occupancy of pages: nothing in the buffer.
LEMMA GrowthKeepsDelta ==
  ASSUME CountsInv, NEW p \in Pages, UNCHANGED <<delta, atOpen>>,
         \A q \in Pages : buf'.rows[q] = buf.rows[q],
         Range(dataPages) \subseteq Range(dataPages')
  PROVE  DeltaTracksPages'
<1>1. DeltaTracksPages
  BY DEF CountsInv, TypesInv
<1>2. \A q \in Pages : Occupied(buf', q) = Occupied(buf, q)
  BY SameOccupied
<1>3. \A q \in Pages : delta'[q] = Occupied(buf', q) - Occupied(atOpen', q)
  BY <1>1, <1>2 DEF DeltaTracksPages
<1>4. \A q \in Pages : delta'[q] # 0 => q \in Range(dataPages')
  BY <1>1 DEF DeltaTracksPages
<1>5. \A q \in Pages : delta'[q] = Occupied(buf, q)' - Occupied(atOpen, q)'
  BY <1>3 DEF Occupied
<1>6. QED
  BY <1>4, <1>5 DEF DeltaTracksPages

\* Units that were touched.
LEMMA TouchedType ==
  ASSUME NEW g \in Seq(Units), NEW u \in Units
  PROVE  Touched(g, u) \in Seq(Units)
BY DEF Touched

LEMMA GrewType ==
  ASSUME grown \in Seq(Units), NEW p \in Pages, table \in Tables
  PROVE  /\ Grew(p) \in Seq(Units)
         /\ Touched(Grew(p), List(table)) \in Seq(Units)
<1>1. Pfs \in Units /\ DataPage(p) \in Units /\ List(table) \in Units
  BY DEF Units
<1>2. Grew(p) \in Seq(Units)
  BY <1>1, TouchedType DEF Grew
<1>3. QED
  BY <1>1, <1>2, TouchedType

\* The fields of a contents that growth leaves alone, and the list it extends.
LEMMA GrownFields ==
  ASSUME NEW c \in Contents, NEW p \in Pages, buf \in Contents, table \in Tables
  PROVE  /\ WithNewPage(c, p).list = c.list /\ WithNewPage(c, p).count = c.count
         /\ WithNewPage(Reserved(c, p), p).list = c.list
         /\ WithNewPage(Reserved(c, p), p).count = c.count
         /\ WithNewPage(Reserved(c, p), p).rows = [c.rows EXCEPT ![p] = buf.rows[p]]
         /\ WithNewPage(c, p).rows = [c.rows EXCEPT ![p] = buf.rows[p]]
         /\ Listed(c, p).list =
              [c.list EXCEPT ![table] = Append(buf.list[table], [page |-> p, count |-> 0])]
         /\ Listed(c, p).count = c.count
         /\ Listed(c, p).rows = c.rows
<1>1. /\ WithNewPage(c, p).list = c.list /\ WithNewPage(c, p).count = c.count
      /\ WithNewPage(c, p).rows = [c.rows EXCEPT ![p] = buf.rows[p]]
      /\ Listed(c, p).list =
           [c.list EXCEPT ![table] = Append(buf.list[table], [page |-> p, count |-> 0])]
      /\ Listed(c, p).count = c.count
      /\ Listed(c, p).rows = c.rows
  BY DEF WithNewPage, Listed, Contents
<1> DEFINE r == Reserved(c, p)
<1>2. r \in Contents /\ r.list = c.list /\ r.count = c.count /\ r.rows = c.rows
  BY GrownContents DEF Reserved, Contents
<1> HIDE DEF r
<1>3. /\ WithNewPage(r, p).list = c.list /\ WithNewPage(r, p).count = c.count
      /\ WithNewPage(r, p).rows = [c.rows EXCEPT ![p] = buf.rows[p]]
  BY <1>2 DEF WithNewPage, Contents
<1>4. QED
  BY <1>1, <1>3 DEF r

LEMMA ContentsAreShaped ==
  ASSUME NEW c \in Contents
  PROVE  Shaped(c)
BY DEF Contents, Shaped

LEMMA RangeOfAppend ==
  ASSUME NEW S, NEW s \in Seq(S), NEW x
  PROVE  Range(Append(s, x)) = Range(s) \cup {x}
<1>1. /\ DOMAIN Append(s, x) = 1 .. Len(s) + 1 /\ DOMAIN s = 1 .. Len(s) /\ Len(s) \in Nat
      /\ \A i \in 1 .. Len(s) : Append(s, x)[i] = s[i]
      /\ Append(s, x)[Len(s) + 1] = x
  OBVIOUS
<1> DEFINE t == Append(s, x)
           n == Len(s)
<1>2. /\ DOMAIN t = 1 .. n + 1 /\ DOMAIN s = 1 .. n /\ n \in Nat
      /\ \A i \in 1 .. n : t[i] = s[i]
      /\ t[n + 1] = x
  BY <1>1
<1> HIDE DEF t, n
<1>3. \A i \in 1 .. n + 1 : i \in 1 .. n \/ i = n + 1
  BY <1>2
<1>4. \A i \in 1 .. n : i \in 1 .. n + 1
  BY <1>2
<1>5. n + 1 \in 1 .. n + 1
  BY <1>2
<1>6. Range(t) = Range(s) \cup {x}
  BY <1>2, <1>3, <1>4, <1>5 DEF Range
<1>7. QED
  BY <1>6 DEF t

\* What growth takes along: the types, the deltas, the lists on both sides.
LEMMA InsertGrowingKeepsTypes ==
  ASSUME CountsInv, RowsInv', NEW k \in Keys, InsertGrowing(k)
  PROVE  /\ TypesInv'
         /\ NewPage \in Pages
         /\ disk'.list = [disk.list EXCEPT
                            ![table] = Append(buf.list[table], [page |-> NewPage, count |-> 0])]
         /\ disk'.count = disk.count
         /\ disk'.rows = [disk.rows EXCEPT ![NewPage] = buf.rows[NewPage]]
         /\ Range(dataPages') = Range(dataPages) \cup {NewPage}
         /\ Len(dataPages') = Len(dataPages) + 1
<1> DEFINE p == NewPage
           after == Listed(WithNewPage(Reserved(buf, p), p), p)
           fits == phase = "open" /\ buf.rows[p][1] = NoKey
<1>1. /\ phase \in {"open", "closed"} /\ Pages \ buf.pfs # {} /\ MayWrite
      /\ disk' = Listed(WithNewPage(disk, p), p)
      /\ buf' = IF fits THEN Stored(after, k, p, 1) ELSE after
      /\ delta' = IF fits THEN [delta EXCEPT ![p] = @ + 1] ELSE delta
      /\ dirty' = dirty \cup {Pfs, DataPage(p), List(table)} \cup (IF fits THEN {Leaf(table)} ELSE {})
      /\ changes' = IF fits THEN changes + 1 ELSE changes
      /\ dataPages' = Append(dataPages, p)
      /\ grown' = Touched(Grew(p), List(table))
      /\ intact' = (intact /\ GrowsCleanly(p))
      /\ UNCHANGED <<phase, table, atOpen, drops>>
  BY DEF InsertGrowing, MustGrow, GrownOnDisk
<1>2. /\ TypeOK /\ RowsInv /\ DeltaTracksPages /\ ListsTrackDisk /\ table \in Tables /\ Types
      /\ disk \in Contents /\ buf \in Contents /\ atOpen \in Contents
      /\ delta \in [Pages -> -SlotsPerPage .. SlotsPerPage] /\ dataPages \in Seq(Pages)
  BY <1>1 DEF CountsInv, TypesInv, RowsInv, Types, TypeOK
<1>3. p \in Pages
  BY <1>1, <1>2, NewPageIsFree
<1> HIDE DEF p, after, fits
<1>4. /\ WithNewPage(disk, p) \in Contents
      /\ WithNewPage(disk, p).list = disk.list
      /\ WithNewPage(disk, p).count = disk.count
      /\ WithNewPage(disk, p).rows = [disk.rows EXCEPT ![p] = buf.rows[p]]
      /\ WithNewPage(Reserved(buf, p), p) \in Contents
      /\ WithNewPage(Reserved(buf, p), p).list = buf.list
      /\ WithNewPage(Reserved(buf, p), p).count = buf.count
      /\ WithNewPage(Reserved(buf, p), p).rows = [buf.rows EXCEPT ![p] = buf.rows[p]]
  <2>1. /\ WithNewPage(disk, p) \in Contents
        /\ Reserved(buf, p) \in Contents
    BY <1>2, <1>3, GrownContents
  <2>2. WithNewPage(Reserved(buf, p), p) \in Contents
    BY <1>2, <1>3, <2>1, GrownContents
  <2>3. /\ WithNewPage(disk, p).list = disk.list
        /\ WithNewPage(disk, p).count = disk.count
        /\ WithNewPage(disk, p).rows = [disk.rows EXCEPT ![p] = buf.rows[p]]
    BY <1>2, <1>3, GrownFields
  <2>4. /\ WithNewPage(Reserved(buf, p), p).list = buf.list
        /\ WithNewPage(Reserved(buf, p), p).count = buf.count
        /\ WithNewPage(Reserved(buf, p), p).rows = [buf.rows EXCEPT ![p] = buf.rows[p]]
    BY <1>2, <1>3, GrownFields
  <2>5. QED
    BY <2>1, <2>2, <2>3, <2>4
<1> DEFINE entry == [page |-> p, count |-> 0]
<1> HIDE DEF entry
<1>5. /\ disk' \in Contents
      /\ disk'.list = [disk.list EXCEPT ![table] = Append(buf.list[table], entry)]
      /\ disk'.count = disk.count
      /\ disk'.rows = [disk.rows EXCEPT ![p] = buf.rows[p]]
  <2> DEFINE d == WithNewPage(disk, p)
  <2>1. d \in Contents /\ disk' = Listed(d, p)
    BY <1>1, <1>4
  <2> HIDE DEF d
  <2>2. /\ disk' \in Contents
        /\ disk'.list = [d.list EXCEPT ![table] = Append(buf.list[table], entry)]
        /\ disk'.count = d.count
        /\ disk'.rows = d.rows
    BY <1>2, <1>3, <2>1, GrownContents, GrownFields DEF entry
  <2>3. QED
    BY <1>4, <2>2 DEF d
<1>6. /\ after \in Contents
      /\ after.list = [buf.list EXCEPT ![table] = Append(buf.list[table], entry)]
      /\ after.count = buf.count
      /\ after.rows = [buf.rows EXCEPT ![p] = buf.rows[p]]
  <2> DEFINE d == WithNewPage(Reserved(buf, p), p)
  <2>1. d \in Contents /\ after = Listed(d, p)
    BY <1>4 DEF after
  <2> HIDE DEF d
  <2>2. /\ after \in Contents
        /\ after.list = [d.list EXCEPT ![table] = Append(buf.list[table], entry)]
        /\ after.count = d.count
        /\ after.rows = d.rows
    BY <1>2, <1>3, <2>1, GrownContents, GrownFields DEF entry
  <2>3. QED
    BY <1>4, <2>2 DEF d
<1>7. \A q \in Pages : after.rows[q] = buf.rows[q]
  BY <1>2, <1>6 DEF Contents
<1>8. 1 \in Slots
  BY DEF Slots
<1>9. /\ buf' \in Contents /\ buf'.list = after.list /\ buf'.count = after.count
      /\ fits => SlotSet(after, buf', p, 1, k)
      /\ ~fits => buf' = after
  <2>1. Stored(after, k, p, 1) \in Contents /\ SlotSet(after, Stored(after, k, p, 1), p, 1, k)
    BY <1>2, <1>3, <1>6, <1>8, StoredContents, StoredSetsSlot, ContentsAreShaped
  <2>2. Stored(after, k, p, 1).list = after.list /\ Stored(after, k, p, 1).count = after.count
    BY <1>6 DEF Stored, Contents
  <2>3. QED
    BY <1>1, <1>6, <2>1, <2>2
<1>10. Range(dataPages') = Range(dataPages) \cup {p} /\ Len(dataPages') = Len(dataPages) + 1
       /\ dataPages' \in Seq(Pages)
  BY <1>1, <1>2, <1>3, RangeOfAppend
<1>11. \A q \in Pages : /\ Occupied(buf, q) \in 0 .. SlotsPerPage
                         /\ Occupied(buf', q) \in 0 .. SlotsPerPage
                         /\ Occupied(atOpen, q) \in 0 .. SlotsPerPage
                         /\ Occupied(after, q) = Occupied(buf, q)
  BY <1>7, OccupiedType, SameOccupied
<1>12. ASSUME NEW q \in Pages
       PROVE  /\ delta'[q] = Occupied(buf', q) - Occupied(atOpen, q)
              /\ delta'[q] # 0 => q \in Range(dataPages')
  <2>1. /\ delta[q] = Occupied(buf, q) - Occupied(atOpen, q)
        /\ delta[q] # 0 => q \in Range(dataPages)
        /\ delta[q] \in Int
    BY <1>2 DEF DeltaTracksPages
  <2>2. CASE fits
    <3>1. after.rows[p][1] = NoKey /\ k # NoKey
      BY <1>3, <1>7, <2>2, KeysAreNotNoKey DEF fits
    <3>2. Shaped(after)
      BY <1>6, ContentsAreShaped
    <3>3. /\ \A r \in Pages \ {p} : Occupied(buf', r) = Occupied(after, r)
          /\ Occupied(buf', p) = Occupied(after, p) + (IF k # NoKey THEN 1 ELSE 0)
                                                   - (IF after.rows[p][1] # NoKey THEN 1 ELSE 0)
      BY <1>3, <1>8, <1>9, <2>2, <3>2, OccupiedWithSlotSet
    <3>4. delta' = [delta EXCEPT ![p] = @ + 1]
      BY <1>1, <2>2
    <3>5. CASE q = p
      <4>1. Occupied(buf', p) = Occupied(buf, p) + 1
        <5>1. Occupied(buf', p) = Occupied(after, p) + 1 - 0
          BY <3>1, <3>3
        <5>2. Occupied(after, p) = Occupied(buf, p) /\ Occupied(buf, p) \in Int
          BY <1>3, <1>11
        <5>3. QED
          BY <5>1, <5>2
      <4>2. delta'[p] = delta[p] + 1
        BY <1>2, <1>3, <3>4
      <4>3. QED
        BY <1>3, <1>10, <1>11, <2>1, <3>5, <4>1, <4>2
    <3>6. CASE q # p
      BY <1>2, <1>10, <1>11, <2>1, <3>3, <3>4, <3>6
    <3>7. QED
      BY <3>5, <3>6
  <2>3. CASE ~fits
    BY <1>1, <1>9, <1>10, <1>11, <2>1, <2>3
  <2>4. QED
    BY <2>2, <2>3
<1>13. delta' \in [Pages -> -SlotsPerPage .. SlotsPerPage]
  <2>1. delta' = [q \in Pages |-> delta'[q]]
    BY <1>1, <1>2
  <2>2. \A q \in Pages : delta'[q] \in -SlotsPerPage .. SlotsPerPage
    BY <1>11, <1>12
  <2>3. QED
    BY <2>1, <2>2
<1>14. TypeOK'
  <2>1. changes' \in 0 .. MaxChanges
    BY <1>1, <1>2 DEF TypeOK, MayWrite
  <2>2. {Pfs, DataPage(p), List(table), Leaf(table)} \subseteq Units
    BY <1>2, <1>3 DEF Units
  <2>3. dirty' \subseteq Units
    BY <1>1, <1>2, <2>2 DEF TypeOK
  <2>4. grown' \in Seq(Units)
    BY <1>1, <1>2, <1>3, GrewType DEF TypeOK
  <2>5. intact' \in BOOLEAN
    BY <1>1
  <2>6. QED
    BY <1>1, <1>2, <1>5, <1>9, <1>10, <1>13, <2>1, <2>3, <2>4, <2>5 DEF TypeOK
<1>15. DeltaTracksPages'
  <2>1. \A q \in Pages : delta'[q] = Occupied(buf', q) - Occupied(atOpen', q)
    BY <1>1, <1>12
  <2>2. \A q \in Pages : delta'[q] = Occupied(buf, q)' - Occupied(atOpen, q)'
    BY <2>1 DEF Occupied
  <2>3. QED
    BY <1>12, <2>2 DEF DeltaTracksPages
<1>16. ListsTrackDisk'
  BY <1>1, <1>2, <1>5, <1>6, <1>9 DEF ListsTrackDisk
<1>17. QED
  BY <1>3, <1>5, <1>10, <1>14, <1>15, <1>16 DEF TypesInv, p, entry

LEMMA InsertGrowingKeepsCounts ==
  ASSUME CountsInv, RowsInv', NEW k \in Keys, InsertGrowing(k)
  PROVE  CountsInv'
<1> DEFINE p == NewPage
           entry == [page |-> p, count |-> 0]
<1>1. /\ phase \in {"open", "closed"} /\ Pages \ buf.pfs # {}
      /\ disk' = Listed(WithNewPage(disk, p), p)
      /\ dirty \cup {DataPage(p)} \subseteq dirty'
      /\ dirty' \subseteq dirty \cup {Pfs, DataPage(p), List(table), Leaf(table)}
      /\ intact' = (intact /\ GrowsCleanly(p))
      /\ UNCHANGED <<phase, table, atOpen, drops>>
  BY DEF InsertGrowing, MustGrow, GrownOnDisk
<1>2. /\ TypesInv' /\ p \in Pages
      /\ disk'.list = [disk.list EXCEPT ![table] = Append(buf.list[table], entry)]
      /\ disk'.count = disk.count
      /\ disk'.rows = [disk.rows EXCEPT ![p] = buf.rows[p]]
      /\ Range(dataPages') = Range(dataPages) \cup {p}
      /\ Len(dataPages') = Len(dataPages) + 1
  BY InsertGrowingKeepsTypes
<1>3. /\ RowsInv /\ table \in Tables /\ TypesInv
      /\ disk \in Contents /\ buf \in Contents /\ dataPages \in Seq(Pages)
  BY <1>1 DEF CountsInv, TypesInv, RowsInv, Types, TypeOK
<1>4. ASSUME intact' PROVE TalliesInv' /\ PagesAreKnown' /\ OwnedPagesReserved'
  <2>1. /\ intact /\ phase = "open" /\ buf.rows[p] = EmptyPage
        /\ TalliesInv /\ PagesAreKnown /\ OwnedPagesReserved
    BY <1>1, <1>4 DEF GrowsCleanly, CountsInv
  <2>2. disk.owner[p] = NoTable
    BY <1>1, <1>3, <2>1, NewPageIsUnowned
  <2>3. disk'.rows = disk.rows
    <3>1. DataPage(p) \notin dirty
      BY <1>2, <1>3, <2>1, <2>2, KeysAreNotNoKey DEF RowsInv, BufferTracksDisk, Writing
    <3>2. buf.rows[p] = disk.rows[p]
      BY <1>2, <1>3, <2>1, <3>1 DEF RowsInv, BufferTracksDisk, Writing
    <3>3. QED
      BY <1>2, <1>3, <3>2 DEF Contents
  <2>4. disk'.owner = [disk.owner EXCEPT ![p] = table] /\ disk'.pfs = disk.pfs
    BY <1>1, <1>3 DEF Listed, WithNewPage, Contents
  <2>5. /\ OwnedPages(disk', table) = OwnedPages(disk, table) \cup {p}
        /\ p \notin OwnedPages(disk, table)
        /\ \A u \in Tables \ {table} : OwnedPages(disk', u) = OwnedPages(disk, u)
    BY <1>2, <1>3, <2>2, <2>4, KeysAreNotNoKey DEF OwnedPages, Contents
  <2>6. /\ \A u \in Tables \ {table} : RowsOf(disk', u) = RowsOf(disk, u)
        /\ RowsOf(disk', table) = RowsOf(disk, table)
    BY <1>4, <2>1, InsertGrowingKeepsRowsInv, <1>3 DEF GrowthSafe
  <2>7. /\ IsFiniteSet(OwnedPages(disk, table))
        /\ Cardinality(OwnedPages(disk', table)) = Cardinality(OwnedPages(disk, table)) + 1
    <3>1. IsFiniteSet(OwnedPages(disk, table))
      BY FS_Subset DEF OwnedPages
    <3>2. QED
      BY <2>5, <3>1, FS_AddElement
  <2>8. Tallied(disk', table)
    <3> DEFINE old == disk.list[table]
               new == disk'.list[table]
               n == Len(old)
    <3>1. Tallied(disk, table) /\ buf.list = disk.list
      BY <1>3, <2>1 DEF TalliesInv, TypesInv, ListsTrackDisk
    <3>2. old \in Seq(ListEntries) /\ new = Append(old, entry)
      BY <1>2, <1>3, <3>1 DEF Contents
    <3>3. n \in Nat /\ DOMAIN old = 1 .. n
      BY <3>2
    <3> HIDE DEF entry
    <3>4. /\ DOMAIN new = 1 .. n + 1
          /\ Len(new) = n + 1
          /\ \A i \in 1 .. n : new[i] = old[i]
          /\ new[n + 1] = entry
      BY <3>2
    <3>5. entry.page = p /\ entry.count = 0
      BY DEF entry
    <3> HIDE DEF old, new, n
    <3>6. \A i \in 1 .. n + 1 : i \in 1 .. n \/ i = n + 1
      BY <3>3
    <3>7. 1 .. n \subseteq 1 .. n + 1 /\ n + 1 \in 1 .. n + 1
      BY <3>3
    <3>8. /\ {old[i].page : i \in 1 .. n} = OwnedPages(disk, table)
          /\ n = Cardinality(OwnedPages(disk, table))
          /\ \A i \in 1 .. n : old[i].count = Occupied(disk, old[i].page)
          /\ disk.count[table] = Cardinality(RowsOf(disk, table))
      BY <3>1, <3>3 DEF Tallied, ListedPages, old, n
    <3>9. {new[i].page : i \in 1 .. n + 1} = {old[i].page : i \in 1 .. n} \cup {p}
      BY <3>4, <3>5, <3>6, <3>7
    <3>10. Occupied(disk', p) = 0 /\ \A q \in Pages : Occupied(disk', q) = Occupied(disk, q)
      <4>1. disk'.rows[p] = EmptyPage
        BY <1>2, <1>3, <2>1 DEF Contents
      <4>2. QED
        BY <2>3, <4>1, EmptyPageIsEmpty, SameOccupied
    <3>11. \A i \in 1 .. n : old[i].page \in Pages
      BY <3>8 DEF OwnedPages
    <3>12. \A i \in 1 .. n + 1 : new[i].count = Occupied(disk', new[i].page)
      BY <3>4, <3>5, <3>6, <3>8, <3>10, <3>11
    <3>13. QED
      BY <1>2, <2>5, <2>6, <2>7, <3>4, <3>8, <3>9, <3>12 DEF Tallied, ListedPages, new
  <2>9. ASSUME NEW u \in Tables, u # table PROVE Tallied(disk', u)
    <3>1. disk'.list[u] = disk.list[u] /\ disk'.count[u] = disk.count[u]
      BY <1>2, <1>3, <2>9 DEF Contents
    <3>2. Tallied(disk, u)
      BY <2>1 DEF TalliesInv
    <3>3. QED
      BY <2>3, <2>5, <2>6, <2>9, <3>1, <3>2, TalliedSame
  <2>10. TalliesInv'
    <3>1. \A u \in Tables : Tallied(disk, u)'
      <4>1. \A u \in Tables : Tallied(disk', u)
        BY <2>8, <2>9
      <4>2. QED
        BY <4>1 DEF Tallied, ListedPages, OwnedPages, RowsOf, Occupied
    <3>2. \A u \in Tables \ {table} : {List(u), Info(u)} \cap {Pfs, DataPage(p), List(table), Leaf(table)} = {}
      BY UnitsDiffer DEF List, Info
    <3>3. QED
      BY <1>1, <2>1, <3>1, <3>2 DEF TalliesInv, Writing
  <2>11. PagesAreKnown'
    <3>1. /\ Range(dataPages') = OwnedPages(disk', table)
          /\ Len(dataPages') = Cardinality(OwnedPages(disk', table))
      BY <1>2, <2>1, <2>5, <2>7 DEF PagesAreKnown
    <3>2. dataPages' # <<>>
      <4>1. Len(dataPages) \in Nat
        BY <1>3
      <4>2. Len(dataPages') # 0
        BY <1>2, <4>1
      <4>3. QED
        BY <4>2
    <3>3. disk'.rows = atOpen'.rows
      BY <1>1, <2>1, <2>3 DEF PagesAreKnown
    <3>4. QED
      BY <1>1, <3>1, <3>2, <3>3 DEF PagesAreKnown, OwnedPages
  <2>12. OwnedPagesReserved'
    <3>1. ASSUME NEW q \in Pages, disk'.owner[q] # NoTable, q \notin disk'.pfs
          PROVE  disk'.owner[q] = table /\ DataPage(q) \in dirty'
      <4>1. CASE q = p
        BY <1>1, <1>2, <1>3, <2>4, <4>1 DEF Contents
      <4>2. CASE q # p
        <5>1. disk'.owner[q] = disk.owner[q]
          BY <1>2, <1>3, <2>4, <4>2 DEF Contents
        <5>2. QED
          BY <1>1, <2>1, <2>4, <3>1, <5>1 DEF OwnedPagesReserved
      <4>3. QED
        BY <4>1, <4>2
    <3>2. QED
      BY <1>1, <2>1, <3>1 DEF OwnedPagesReserved, Writing
  <2>13. QED
    BY <2>10, <2>11, <2>12
<1>5. QED
  BY <1>2, <1>4 DEF CountsInv

LEMMA InsertUnlistedKeepsCounts ==
  ASSUME CountsInv, RowsInv', NEW k \in Keys, InsertUnlisted(k)
  PROVE  CountsInv'
<1> DEFINE p == NewPage
<1>1. /\ phase \in {"open", "closed"} /\ Pages \ buf.pfs # {}
      /\ disk' = WithNewPage(disk, p)
      /\ buf' = WithNewPage(Reserved(buf, p), p)
      /\ dirty' = dirty \cup {Pfs, DataPage(p)}
      /\ grown' = Grew(p)
      /\ intact' = FALSE
      /\ UNCHANGED <<phase, table, dataPages, delta, changes, atOpen, drops>>
  BY DEF InsertUnlisted, MustGrow
<1>2. /\ TypeOK /\ Types /\ ListsTrackDisk /\ table \in Tables
      /\ disk \in Contents /\ buf \in Contents
  BY <1>1 DEF CountsInv, TypesInv, RowsInv, Types, TypeOK
<1>3. p \in Pages
  BY <1>1, <1>2, NewPageIsFree
<1> HIDE DEF p
<1>4. /\ disk' \in Contents /\ disk'.list = disk.list /\ disk'.count = disk.count
      /\ buf' \in Contents /\ buf'.list = buf.list /\ buf'.count = buf.count
      /\ buf'.rows = [buf.rows EXCEPT ![p] = buf.rows[p]]
  BY <1>1, <1>2, <1>3, GrownContents, GrownFields
<1>5. TypeOK'
  <2>1. {Pfs, DataPage(p)} \subseteq Units
    BY <1>3 DEF Units
  <2>2. dirty' \subseteq Units
    BY <1>1, <1>2, <2>1 DEF TypeOK
  <2>3. grown' \in Seq(Units)
    BY <1>1, <1>2, <1>3, GrewType DEF TypeOK
  <2>4. QED
    BY <1>1, <1>2, <1>4, <2>2, <2>3 DEF TypeOK
<1>6. DeltaTracksPages'
  <2>1. \A q \in Pages : buf'.rows[q] = buf.rows[q]
    BY <1>2, <1>4 DEF Contents
  <2>2. QED
    BY <1>1, <1>3, <2>1, GrowthKeepsDelta
<1>7. ListsTrackDisk'
  BY <1>1, <1>2, <1>4 DEF ListsTrackDisk
<1>8. QED
  BY <1>1, <1>5, <1>6, <1>7 DEF CountsInv, TypesInv

LEMMA GrowthCutKeepsCounts ==
  ASSUME CountsInv, RowsInv', NEW k \in Keys, GrowthCut(k)
  PROVE  CountsInv'
<1>1. /\ phase \in {"open", "closed"} /\ Pages \ buf.pfs # {}
      /\ disk' = WithNewPage(disk, NewPage) /\ drops' = drops
      /\ intact' = FALSE /\ Handle(NoTable, "none")
  BY DEF GrowthCut, MustGrow
<1>2. /\ TypeOK /\ Types /\ table \in Tables /\ disk \in Contents /\ buf \in Contents
      /\ drops \in 0 .. MaxDrops
  BY <1>1 DEF CountsInv, TypesInv, RowsInv, Types, TypeOK
<1>3. NewPage \in Pages
  BY <1>1, <1>2, NewPageIsFree
<1>4. disk' \in Contents
  BY <1>1, <1>2, <1>3, GrownContents
<1>5. QED
  BY <1>1, <1>2, <1>4, HandleKeepsCounts

-----------------------------------------------------------------------------
(* Commit.                                                                 *)

\* A record-page index that matches the writer's pages lists each of them.
LEMMA MatchingListsAll ==
  ASSUME CountsInv, phase = "open", NEW u \in MatchingLists
  PROVE  u \in Tables /\ ListedPages(disk, u) = Range(dataPages)
         /\ IsFiniteSet(Range(dataPages)) /\ Range(dataPages) \subseteq Pages
<1>1. dataPages \in Seq(Pages) /\ disk \in Contents
  BY DEF CountsInv, TypesInv, TypeOK
<1>2. Range(dataPages) \subseteq Pages
  BY <1>1 DEF Range
<1>3. IsFiniteSet(Range(dataPages))
  BY <1>2, FS_Subset
<1>4. u \in Tables
  BY DEF MatchingLists, VisibleLists
<1>5. ListedPages(disk, u) \subseteq Range(dataPages)
      /\ Cardinality(ListedPages(disk, u)) = Len(dataPages)
  BY DEF MatchingLists
<1>6. Cardinality(Range(dataPages)) <= Len(dataPages)
  <2> DEFINE n == Len(dataPages)
  <2>1. n \in Nat /\ DOMAIN dataPages = 1 .. n
    BY <1>1
  <2>2. IsFiniteSet(1 .. n) /\ Cardinality(1 .. n) = n
    <3>1. IsFiniteSet(1 .. n) /\ Cardinality(1 .. n) = IF 1 > n THEN 0 ELSE n - 1 + 1
      BY <2>1, FS_Interval
    <3>2. QED
      BY <2>1, <3>1
  <2>3. dataPages \in Surjection(1 .. n, Range(dataPages))
    BY <1>1, <2>1 DEF Surjection, Range
  <2>4. QED
    BY <2>2, <2>3, FS_Surjection
<1>7. ListedPages(disk, u) = Range(dataPages)
  <2> DEFINE L == ListedPages(disk, u)
             R == Range(dataPages)
  <2>1. L \subseteq R /\ IsFiniteSet(R) /\ Cardinality(R) <= Cardinality(L)
    BY <1>3, <1>5, <1>6
  <2>2. Cardinality(L) <= Cardinality(R) /\ IsFiniteSet(L)
        /\ (Cardinality(L) = Cardinality(R) => L = R)
    <3> HIDE DEF L, R
    <3>1. QED
      BY <2>1, FS_Subset, FS_CardinalityType
  <2>3. Cardinality(L) \in Nat /\ Cardinality(R) \in Nat
    BY <2>1, <2>2, FS_CardinalityType
  <2>4. QED
    BY <2>1, <2>2, <2>3
<1>8. QED
  BY <1>2, <1>3, <1>4, <1>7

\* The entry of a page that counts: the last one for it.
LastEntry(u, p) == Max({i \in DOMAIN disk.list[u] : disk.list[u][i].page = p})
LastCounts(u) == [p \in ListedPages(disk, u) |-> disk.list[u][LastEntry(u, p)].count]

LEMMA LastEntryIsListed ==
  ASSUME disk \in Contents, NEW u \in Tables, NEW p \in ListedPages(disk, u)
  PROVE  /\ LastEntry(u, p) \in DOMAIN disk.list[u]
         /\ disk.list[u][LastEntry(u, p)].page = p
<1> DEFINE l == disk.list[u]
           there == {i \in DOMAIN l : l[i].page = p}
<1>1. Len(l) \in Nat /\ DOMAIN l = 1 .. Len(l)
  <2>1. l \in Seq(ListEntries)
    BY DEF Contents
  <2>2. QED
    BY <2>1
<1>2. there \subseteq Int /\ there # {} /\ \A i \in there : i <= Len(l)
  BY <1>1 DEF ListedPages
<1>3. Max(there) \in there
  <2> DEFINE n == Len(l)
  <2>1. n \in Int /\ \A i \in there : i <= n
    BY <1>1, <1>2
  <2> HIDE DEF there, n
  <2>2. QED
    BY <1>2, <2>1, MaxOfBounded
<1>4. QED
  BY <1>3 DEF LastEntry

LEMMA ListedTotalIsSum ==
  ASSUME NEW u
  PROVE  ListedTotal(u) = SumOver(LastCounts(u), ListedPages(disk, u))
BY DEF ListedTotal, LastCounts, LastEntry, SumOver, MapThenSumSet, MapThenFoldSet

LEMMA AddedRecordsIsSum == AddedRecords = SumOver(delta, Pages)
BY DEF AddedRecords, SumOver, MapThenSumSet, MapThenFoldSet

\* Where the counts agree, adding what the writer added gives no negative number.
LEMMA NewCountIsNatural ==
  ASSUME CountsInv, phase = "open", NEW u \in MatchingLists, CountsAgree(u)
  PROVE  ListedTotal(u) + AddedRecords \in Nat
<1> DEFINE P == ListedPages(disk, u)
           c == LastCounts(u)
           both == [p \in P |-> c[p] + delta[p]]
<1>1. /\ disk \in Contents /\ buf.list = disk.list /\ DeltaTracksPages
      /\ delta \in [Pages -> -SlotsPerPage .. SlotsPerPage]
  BY DEF CountsInv, TypesInv, TypeOK, ListsTrackDisk
<1>2. u \in Tables /\ P = Range(dataPages) /\ IsFiniteSet(P) /\ P \subseteq Pages
  BY MatchingListsAll
<1>3. ASSUME NEW p \in P PROVE c[p] \in Nat /\ c[p] + delta[p] \in Nat
  <2> DEFINE e == disk.list[u][LastEntry(u, p)]
  <2>1. LastEntry(u, p) \in DOMAIN disk.list[u] /\ e.page = p
    BY <1>1, <1>2, LastEntryIsListed
  <2>2. c[p] = e.count
    BY DEF LastCounts
  <2>3. e \in ListEntries
    <3>1. disk.list[u] \in Seq(ListEntries)
      BY <1>1, <1>2 DEF Contents
    <3> HIDE DEF ListEntries
    <3>2. QED
      BY <2>1, <3>1
  <2>4. EntryAgrees(e)
    BY <1>1, <2>1 DEF CountsAgree
  <2> HIDE DEF e, c
  <2>5. delta[p] # 0 => c[p] = Occupied(buf, p) - delta[p]
    BY <2>1, <2>2, <2>4 DEF EntryAgrees
  <2>6. c[p] \in Nat /\ delta[p] \in Int /\ Occupied(buf, p) \in 0 .. SlotsPerPage
    <3>1. c[p] \in Nat
      BY <2>2, <2>3 DEF ListEntries
    <3>2. p \in Pages
      BY <1>2
    <3>3. delta[p] \in -SlotsPerPage .. SlotsPerPage
      BY <1>1, <3>2
    <3>4. Occupied(buf, p) \in 0 .. SlotsPerPage
      BY OccupiedType
    <3>5. delta[p] \in Int
      BY <3>3
    <3>6. QED
      BY <3>1, <3>4, <3>5
  <2>7. QED
    BY <2>5, <2>6
<1>4. \A p \in Pages : delta[p] \in Int
  <2>1. \A p \in Pages : delta[p] \in -SlotsPerPage .. SlotsPerPage
    BY <1>1
  <2>2. QED
    BY <2>1
<1>5. \A p \in Pages \ P : delta[p] = 0
  BY <1>1, <1>2 DEF DeltaTracksPages
<1>6. ListedTotal(u) = SumOver(c, P)
  BY ListedTotalIsSum
<1> HIDE DEF P, c
<1>7. SumOver(delta, Pages) = SumOver(delta, P)
  BY <1>2, <1>4, <1>5, SumOfSupport
<1>8. \A p \in P : both[p] = c[p] + delta[p]
  OBVIOUS
<1> HIDE DEF both
<1>9. SumOver(both, P) = SumOver(c, P) + SumOver(delta, P)
  <2>1. \A p \in P : c[p] \in Int /\ delta[p] \in Int
    BY <1>2, <1>3, <1>4
  <2>2. QED
    BY <1>2, <1>8, <2>1, SumOfSums
<1>10. SumOver(both, P) \in Nat
  <2>1. \A p \in P : both[p] \in Nat
    BY <1>3, <1>8
  <2>2. QED
    BY <1>2, <2>1, SumOfNaturals
<1>11. QED
  BY <1>6, <1>7, <1>9, <1>10, AddedRecordsIsSum

\* The buffer with the counters brought in step, and its fields.
Bookkept(u, n) == [buf EXCEPT !.list[u] = Recounted(u), !.count[table] = n]

LEMMA BookkeptFields ==
  ASSUME buf \in Contents, table \in Tables, NEW u \in Tables, NEW n \in Nat
  PROVE  /\ Bookkept(u, n) \in Contents
         /\ Bookkept(u, n).owner = buf.owner /\ Bookkept(u, n).rows = buf.rows
         /\ Bookkept(u, n).list = [buf.list EXCEPT ![u] = Recounted(u)]
         /\ Bookkept(u, n).count = [buf.count EXCEPT ![table] = n]
<1> DEFINE r == Recounted(u)
           d == Bookkept(u, n)
<1>1. r \in Seq(ListEntries)
  BY RecountedContents
<1>2. d = [buf EXCEPT !.list[u] = r, !.count[table] = n]
  BY DEF Bookkept
<1> HIDE DEF r, d
<1>3. /\ d.owner = buf.owner /\ d.rows = buf.rows /\ d.pfs = buf.pfs /\ d.leaf = buf.leaf
      /\ d.list = [buf.list EXCEPT ![u] = r]
      /\ d.count = [buf.count EXCEPT ![table] = n]
      /\ d = [buf EXCEPT !.list = d.list, !.count = d.count]
  BY <1>2 DEF Contents
<1>4. d.list \in [Tables -> Seq(ListEntries)] /\ d.count \in [Tables -> Nat]
  BY <1>1, <1>3 DEF Contents
<1>5. d \in Contents
  <2> DEFINE l == d.list
             c == d.count
  <2>1. d = [buf EXCEPT !.list = l, !.count = c] /\ l \in [Tables -> Seq(ListEntries)] /\ c \in [Tables -> Nat]
    BY <1>3, <1>4
  <2> HIDE DEF l, c
  <2>2. QED
    BY <2>1 DEF Contents
<1>6. QED
  BY <1>3, <1>5 DEF r, d

\* What the writer of a file in good order finds when it commits: its own
\* record-page index and no other matches, every entry agrees, and the record count
\* is right and is brought to the rows in the buffer.
LEMMA TalliesAreFound ==
  ASSUME CountsInv, intact, phase = "open", dirty # {}
  PROVE  /\ MatchingLists = {table} /\ Min(MatchingLists) = table
         /\ CountsAgree(table)
         /\ ListedTotal(table) = buf.count[table]
         /\ ListedTotal(table) + AddedRecords = Cardinality(RowsOf(buf, table))
         /\ \A i \in DOMAIN buf.list[table] :
              Recounted(table)[i].count = Occupied(buf, buf.list[table][i].page)
<1> DEFINE P == OwnedPages(disk, table)
<1>1. /\ RowsInv /\ table \in Tables /\ disk \in Contents /\ buf \in Contents
      /\ DeltaTracksPages /\ dataPages \in Seq(Pages)
      /\ delta \in [Pages -> -SlotsPerPage .. SlotsPerPage]
      /\ buf.list = disk.list /\ buf.count = disk.count
      /\ \A t \in Tables : Tallied(disk, t)
      /\ PagesAreKnown
  BY DEF CountsInv, TypesInv, RowsInv, Types, TypeOK, ListsTrackDisk, TalliesInv
<1>2. /\ Range(dataPages) = P /\ Len(dataPages) = Cardinality(P) /\ dataPages # <<>>
      /\ disk.rows = atOpen.rows
  BY <1>1 DEF PagesAreKnown
<1>3. P # {}
  <2>1. PICK i \in DOMAIN dataPages : TRUE
    BY <1>1, <1>2
  <2>2. dataPages[i] \in Range(dataPages)
    BY <2>1 DEF Range
  <2>3. QED
    BY <1>2, <2>2
<1>4. P \subseteq Pages /\ IsFiniteSet(P) /\ \A p \in P : disk.owner[p] = table
  BY FS_Subset DEF OwnedPages
<1>5. buf.owner = disk.owner /\ OwnedPages(buf, table) = P
  BY <1>1 DEF RowsInv, BufferTracksDisk, Writing, OwnedPages
<1>6. ListedPages(disk, table) = P
  BY <1>1 DEF Tallied
<1>7. MatchingLists = {table}
  <2>1. table \in VisibleLists
    BY <1>1, <1>3, <1>4, <1>6 DEF VisibleLists
  <2>2. table \in MatchingLists
    BY <1>2, <1>6, <2>1 DEF MatchingLists
  <2>3. ASSUME NEW u \in MatchingLists PROVE u = table
    <3>1. u \in Tables /\ ListedPages(disk, u) = P
      BY <1>2, MatchingListsAll
    <3>2. OwnedPages(disk, u) = P
      BY <1>1, <3>1 DEF Tallied
    <3>3. QED
      BY <1>3, <3>2 DEF OwnedPages
  <2>4. QED
    BY <2>2, <2>3
<1>8. Min(MatchingLists) = table
  <2>1. {table} \subseteq Nat /\ {table} # {}
    BY <1>1
  <2>2. Min({table}) \in {table}
    BY <2>1, MinOfBounded
  <2>3. QED
    BY <1>7, <2>2
<1>9. ASSUME NEW p \in Pages
      PROVE  /\ Occupied(buf, p) = Occupied(disk, p) + delta[p]
             /\ Occupied(buf, p) \in Nat /\ Occupied(disk, p) \in Nat /\ delta[p] \in Int
  <2>1. Occupied(buf, p) \in 0 .. SlotsPerPage /\ Occupied(disk, p) \in 0 .. SlotsPerPage
    BY OccupiedType
  <2>2. delta[p] = Occupied(buf, p) - Occupied(atOpen, p) /\ delta[p] \in Int
    BY <1>1 DEF DeltaTracksPages
  <2>3. Occupied(atOpen, p) = Occupied(disk, p)
    BY <1>2, SameOccupied
  <2>4. QED
    BY <2>1, <2>2, <2>3
<1>10. ASSUME NEW i \in DOMAIN disk.list[table]
       PROVE  /\ disk.list[table][i].page \in P
              /\ disk.list[table][i].count = Occupied(disk, disk.list[table][i].page)
  <2>1. disk.list[table][i].page \in ListedPages(disk, table)
    BY DEF ListedPages
  <2>2. disk.list[table][i].count = Occupied(disk, disk.list[table][i].page)
    BY <1>1 DEF Tallied
  <2>3. QED
    BY <1>6, <2>1, <2>2
<1>11. ASSUME NEW i \in DOMAIN buf.list[table] PROVE EntryAgrees(buf.list[table][i])
  <2> DEFINE e == buf.list[table][i]
  <2>1. e.page \in Pages /\ e.count = Occupied(disk, e.page)
    BY <1>1, <1>4, <1>10
  <2>2. Occupied(disk, e.page) = Occupied(buf, e.page) - delta[e.page]
    <3> DEFINE q == e.page
    <3>1. q \in Pages
      BY <2>1
    <3> HIDE DEF q
    <3>2. Occupied(disk, q) = Occupied(buf, q) - delta[q]
      BY <1>9, <3>1
    <3>3. QED
      BY <3>2 DEF q
  <2>3. QED
    BY <2>1, <2>2 DEF EntryAgrees
<1>12. ASSUME NEW i \in DOMAIN buf.list[table]
       PROVE  Recounted(table)[i].count = Occupied(buf, buf.list[table][i].page)
  <2> DEFINE e == buf.list[table][i]
             l == buf.list[table]
  <2>1. e.page \in Pages /\ e.count = Occupied(disk, e.page)
    BY <1>1, <1>4, <1>10
  <2>2. l \in Seq(ListEntries) /\ e \in ListEntries
    <3>1. l \in Seq(ListEntries)
      BY <1>1 DEF Contents
    <3> HIDE DEF ListEntries
    <3>2. QED
      BY <3>1
  <2>3. \A j \in 1 .. i : j \in DOMAIN l
    BY <2>2
  <2>4. \A j \in 1 .. i : EntryAgrees(l[j])
    BY <1>11, <2>3
  <2>5. Recounted(table)[i] = IF delta[e.page] # 0 THEN [e EXCEPT !.count = Occupied(buf, e.page)] ELSE e
    BY <2>4 DEF Recounted
  <2> HIDE DEF e
  <2>6. Recounted(table)[i].count = Occupied(buf, e.page)
    <3>1. CASE delta[e.page] # 0
      BY <2>2, <2>5, <3>1 DEF ListEntries
    <3>2. CASE delta[e.page] = 0
      BY <1>9, <2>1, <2>5, <3>2
    <3>3. QED
      BY <3>1, <3>2
  <2>7. QED
    BY <2>6 DEF e
<1> DEFINE rows == RowsPerPage(disk)
           new == RowsPerPage(buf)
           counts == LastCounts(table)
<1>13. ASSUME NEW p \in P
       PROVE  /\ counts[p] = rows[p] /\ rows[p] \in Int /\ counts[p] \in Int /\ new[p] \in Int
              /\ new[p] = rows[p] + delta[p] /\ delta[p] \in Int
  <2>1. p \in Pages /\ rows[p] = Occupied(disk, p) /\ new[p] = Occupied(buf, p)
    BY <1>4 DEF RowsPerPage
  <2>2. /\ LastEntry(table, p) \in DOMAIN disk.list[table]
        /\ disk.list[table][LastEntry(table, p)].page = p
    BY <1>1, <1>6, LastEntryIsListed
  <2>3. counts[p] = disk.list[table][LastEntry(table, p)].count
    BY <1>6 DEF LastCounts
  <2>4. counts[p] = Occupied(disk, p)
    BY <1>10, <2>2, <2>3
  <2> HIDE DEF rows, new, counts
  <2>5. QED
    BY <1>9, <2>1, <2>4
<1>14. /\ Cardinality(RowsOf(disk, table)) = SumOver(rows, P)
       /\ Cardinality(RowsOf(buf, table)) = SumOver(new, P)
  <2>1. Shaped(disk) /\ Shaped(buf)
    BY <1>1, ContentsAreShaped
  <2>2. QED
    BY <1>5, <2>1, RowsAreOnPages
<1>15. ListedTotal(table) = SumOver(counts, P)
  BY <1>6, ListedTotalIsSum
<1> HIDE DEF rows, new, counts, P
<1>16. SumOver(counts, P) = SumOver(rows, P)
  <2>1. P \in SUBSET P /\ \A p \in P \ P : counts[p] = 0
    OBVIOUS
  <2>2. (\A p \in P : counts[p] \in Int) /\ (\A p \in P : rows[p] = counts[p])
    BY <1>13
  <2>3. QED
    BY <1>4, <2>1, <2>2, SumOfNonzero
<1>17. ListedTotal(table) = buf.count[table]
  BY <1>1, <1>14, <1>15, <1>16 DEF Tallied
<1>18. SumOver(delta, Pages) = SumOver(delta, P)
  <2>1. P \in SUBSET Pages /\ \A p \in Pages : delta[p] \in Int
    BY <1>4, <1>9
  <2>2. \A p \in Pages \ P : delta[p] = 0
    BY <1>1, <1>2 DEF DeltaTracksPages
  <2>3. QED
    BY <2>1, <2>2, SumOfSupport
<1>19. SumOver(new, P) = SumOver(rows, P) + SumOver(delta, P)
  BY <1>4, <1>13, SumOfSums
<1>20. ListedTotal(table) + AddedRecords = Cardinality(RowsOf(buf, table))
  BY <1>14, <1>15, <1>16, <1>18, <1>19, AddedRecordsIsSum
<1>21. QED
  BY <1>7, <1>8, <1>11, <1>12, <1>17, <1>20 DEF CountsAgree

\* The writer's own bookkeeping pages are nobody else's.
LEMMA OtherBookkeeping ==
  ASSUME NEW t, NEW u, t # u
  PROVE  {List(t), Info(t)} \cap {List(u), Info(u)} = {}
BY DEF List, Info

LEMMA BeginCommitKeepsCounts ==
  ASSUME CountsInv, RowsInv', BeginCommit
  PROVE  CountsInv'
<1> DEFINE u == Min(MatchingLists)
           counted == ListedTotal(u) = buf.count[table]
           n == IF counted THEN buf.count[table] + AddedRecords ELSE buf.count[table]
<1>1. /\ phase = "open" /\ dirty # {} /\ MatchingLists # {} /\ CountsAgree(u)
      /\ buf' = [buf EXCEPT !.list[u] = Recounted(u),
                            !.count[table] = IF counted THEN @ + AddedRecords ELSE @]
      /\ dirty' = dirty \cup (IF Recounted(u) # buf.list[u] THEN {List(u)} ELSE {})
                       \cup (IF counted THEN {Info(table)} ELSE {})
      /\ phase' = "commit"
      /\ UNCHANGED <<disk, table, dataPages, delta, grown, changes, atOpen, drops, intact>>
  BY DEF BeginCommit, MayCommit, CommitAccepted
<1>2. /\ TypeOK /\ RowsInv /\ DeltaTracksPages /\ table \in Tables /\ disk \in Contents
      /\ buf \in Contents /\ buf.list = disk.list /\ buf.count = disk.count
  BY <1>1 DEF CountsInv, TypesInv, RowsInv, Types, TypeOK, ListsTrackDisk
<1>3. u \in MatchingLists
  <2>1. MatchingLists \subseteq Nat
    BY DEF MatchingLists, VisibleLists
  <2>2. QED
    BY <1>1, <2>1, MinOfBounded
<1>4. u \in Tables
  BY <1>1, <1>3, MatchingListsAll
<1>5. buf' = Bookkept(u, n)
  BY <1>1, <1>2 DEF Contents, Bookkept
<1> HIDE DEF u
<1>6. n \in Nat
  <2>1. ListedTotal(u) + AddedRecords \in Nat
    BY <1>1, <1>3, NewCountIsNatural
  <2>2. buf.count[table] \in Nat
    BY <1>2 DEF Contents
  <2>3. CASE counted
    <3>1. n = ListedTotal(u) + AddedRecords
      BY <2>3
    <3>2. QED
      BY <2>1, <3>1
  <2>4. CASE ~counted
    BY <2>2, <2>4
  <2>5. QED
    BY <2>3, <2>4
<1> HIDE DEF n
<1>7. /\ buf' \in Contents
      /\ buf'.owner = buf.owner /\ buf'.rows = buf.rows
      /\ buf'.list = [buf.list EXCEPT ![u] = Recounted(u)]
      /\ buf'.count = [buf.count EXCEPT ![table] = n]
  BY <1>2, <1>4, <1>5, <1>6, BookkeptFields
<1>8. TypeOK'
  <2>1. List(u) \in Units /\ Info(table) \in Units
    BY <1>2, <1>4 DEF Units
  <2>2. dirty' \subseteq Units
    BY <1>1, <1>2, <2>1 DEF TypeOK
  <2>3. QED
    BY <1>1, <1>2, <1>7, <2>2 DEF TypeOK
<1>9. DeltaTracksPages'
  <2>1. \A p \in Pages : Occupied(buf, p)' = Occupied(buf, p) /\ Occupied(atOpen, p)' = Occupied(atOpen, p)
    BY <1>1, <1>7 DEF Occupied
  <2>2. QED
    BY <1>1, <1>2, <2>1 DEF DeltaTracksPages
<1>10. ListsTrackDisk'
  BY <1>1 DEF ListsTrackDisk
<1>11. ASSUME intact PROVE TalliesInv' /\ OwnedPagesReserved'
  <2>1. /\ u = table /\ counted
        /\ n = Cardinality(RowsOf(buf, table))
        /\ \A i \in DOMAIN buf.list[table] :
             Recounted(table)[i].count = Occupied(buf, buf.list[table][i].page)
    BY <1>1, <1>11, TalliesAreFound DEF u, n
  <2>2. TalliesInv /\ OwnedPagesReserved
    BY <1>11 DEF CountsInv
  <2>3. ASSUME NEW t \in Tables PROVE Tallied(disk, t)'
    <3>1. Tallied(disk', t)
      BY <1>1, <2>2 DEF TalliesInv
    <3>2. QED
      BY <3>1 DEF Tallied, ListedPages, OwnedPages, RowsOf, Occupied
  <2>4. Tallied(buf', table)
    <3> DEFINE old == buf.list[table]
               new == buf'.list[table]
    <3>1. new = Recounted(table) /\ buf'.count[table] = n
      BY <1>2, <1>7, <2>1 DEF Contents
    <3>2. /\ new \in Seq(ListEntries) /\ old \in Seq(ListEntries) /\ Len(new) = Len(old)
          /\ \A i \in DOMAIN old : new[i].page = old[i].page
      BY <1>2, <3>1, RecountedContents DEF Contents
    <3>3. DOMAIN new = DOMAIN old
      <4> HIDE DEF new, old
      <4>1. QED
        BY <3>2
    <3>4. Tallied(disk, table)
      BY <1>1, <1>2, <2>2 DEF TalliesInv
    <3>5. OwnedPages(buf', table) = OwnedPages(disk, table)
      BY <1>1, <1>2, <1>7 DEF RowsInv, BufferTracksDisk, Writing, OwnedPages
    <3>6. \A p : Occupied(buf', p) = Occupied(buf, p)
      BY <1>7, SameOccupied
    <3>7. RowsOf(buf', table) = RowsOf(buf, table)
      BY <1>7, SameRows
    <3>8. \A i \in DOMAIN old : new[i].count = Occupied(buf', new[i].page)
      BY <2>1, <3>1, <3>2, <3>6
    <3>9. /\ {old[i].page : i \in DOMAIN old} = OwnedPages(disk, table)
          /\ Len(old) = Cardinality(OwnedPages(disk, table))
      BY <1>2, <3>4 DEF Tallied, ListedPages
    <3> HIDE DEF old, new
    <3>10. {new[i].page : i \in DOMAIN new} = OwnedPages(disk, table)
      BY <3>2, <3>3, <3>9
    <3>11. QED
      BY <2>1, <3>1, <3>2, <3>3, <3>5, <3>7, <3>8, <3>9, <3>10 DEF Tallied, ListedPages, new
  <2>5. Tallied(buf, table)'
    <3>1. Tallied(buf', table')
      BY <1>1, <2>4
    <3>2. QED
      BY <3>1 DEF Tallied, ListedPages, OwnedPages, RowsOf, Occupied
  <2>6. List(table) \notin dirty' => disk'.list[table] = buf'.list[table]
    <3>1. List(table) \notin dirty' => Recounted(table) = buf.list[table]
      BY <1>1, <2>1
    <3>2. QED
      BY <1>1, <1>2, <1>7, <2>1, <3>1 DEF Contents
  <2>7. Info(table) \in dirty'
    BY <1>1, <2>1
  <2>8. \A t \in Tables \ {table} : dirty' \cap {List(t), Info(t)} = {}
    <3>1. dirty' \subseteq dirty \cup {List(table), Info(table)}
      BY <1>1, <2>1
    <3>2. \A t \in Tables \ {table} : dirty \cap {List(t), Info(t)} = {}
      BY <1>1, <2>2 DEF TalliesInv, Writing
    <3>3. QED
      BY <3>1, <3>2, OtherBookkeeping
  <2>9. TalliesInv'
    BY <1>1, <2>3, <2>5, <2>6, <2>7, <2>8 DEF TalliesInv
  <2>10. OwnedPagesReserved'
    BY <1>1, <2>2 DEF OwnedPagesReserved, Writing
  <2>11. QED
    BY <2>9, <2>10
<1>12. PagesAreKnown'
  BY <1>1 DEF PagesAreKnown
<1>13. QED
  BY <1>1, <1>8, <1>9, <1>10, <1>11, <1>12 DEF CountsInv, TypesInv

\* A commit that has something to write and finds the file in good order is not
\* refused.
LEMMA GoodCommitsAreAccepted ==
  ASSUME CountsInv, intact
  PROVE  ~CommitRefused
<1>1. SUFFICES ASSUME MayCommit PROVE CommitAccepted
  BY DEF CommitRefused
<1>2. MatchingLists = {table} /\ Min(MatchingLists) = table /\ CountsAgree(table)
  BY <1>1, TalliesAreFound DEF MayCommit
<1>3. QED
  BY <1>2 DEF CommitAccepted

\* Only the buffer, the phase and the pages still to be written change; the disk
\* stays, and no writer is open any more.
LEMMA ClosingKeepsCounts ==
  ASSUME CountsInv, RowsInv', Writing, phase' = "closed",
         UNCHANGED <<disk, table, dataPages, delta, grown, changes, atOpen, drops>>,
         buf' \in Contents, buf'.rows = buf.rows, dirty' \subseteq dirty, intact' \in BOOLEAN,
         intact' => intact /\ phase = "open" /\ Pfs \notin dirty
  PROVE  CountsInv'
<1>1. TypeOK /\ RowsInv /\ DeltaTracksPages
  BY DEF CountsInv, TypesInv
<1>2. TypeOK'
  BY <1>1 DEF TypeOK
<1>3. DeltaTracksPages'
  <2>1. \A p \in Pages : Occupied(buf, p)' = Occupied(buf, p) /\ Occupied(atOpen, p)' = Occupied(atOpen, p)
    BY DEF Occupied
  <2>2. QED
    BY <1>1, <2>1 DEF DeltaTracksPages
<1>4. ListsTrackDisk' /\ PagesAreKnown'
  BY DEF ListsTrackDisk, PagesAreKnown
<1>5. ASSUME intact' PROVE TalliesInv' /\ OwnedPagesReserved'
  <2>1. TalliesInv
    BY <1>5 DEF CountsInv
  <2>2. ASSUME NEW t \in Tables PROVE Tallied(disk, t)'
    <3>1. Tallied(disk', t)
      BY <1>5, <2>1 DEF TalliesInv
    <3>2. QED
      BY <3>1 DEF Tallied, ListedPages, OwnedPages, RowsOf, Occupied
  <2>3. TalliesInv'
    BY <2>2 DEF TalliesInv, Writing
  <2>4. \A p \in Pages : disk.owner[p] # NoTable => p \in disk.pfs
    BY <1>1, <1>5 DEF RowsInv, OwnedPagesAreTaken, BufferTracksDisk, Writing
  <2>5. OwnedPagesReserved'
    BY <2>4 DEF OwnedPagesReserved
  <2>6. QED
    BY <2>3, <2>5
<1>6. QED
  BY <1>2, <1>3, <1>4, <1>5 DEF CountsInv, TypesInv

LEMMA CommitRefusedKeepsCounts ==
  ASSUME CountsInv, RowsInv', CommitRefused
  PROVE  CountsInv'
<1> DEFINE u == Min(MatchingLists)
<1>1. /\ phase = "open" /\ phase' = "closed" /\ dirty' = {}
      /\ intact' = (intact /\ ~AbandonedGrowth)
      /\ buf' = IF MatchingLists = {} THEN buf ELSE [buf EXCEPT !.list[u] = Recounted(u)]
      /\ UNCHANGED <<disk, table, dataPages, delta, grown, changes, atOpen, drops>>
  BY DEF CommitRefused, MayCommit
<1>2. buf \in Contents /\ Writing
  BY <1>1 DEF CountsInv, TypesInv, TypeOK, Writing
<1>3. buf' \in Contents /\ buf'.rows = buf.rows
  <2>1. CASE MatchingLists # {}
    <3> DEFINE r == Recounted(u)
    <3>1. u \in Tables
      <4>1. MatchingLists \subseteq Tables
        BY DEF MatchingLists, VisibleLists
      <4>2. MatchingLists \subseteq Nat
        BY <4>1
      <4>3. QED
        BY <2>1, <4>1, <4>2, MinOfBounded
    <3>2. r \in Seq(ListEntries)
      BY <1>2, <3>1, RecountedContents
    <3>3. buf' = [buf EXCEPT !.list[u] = r]
      BY <1>1, <2>1
    <3> HIDE DEF u, r
    <3>4. QED
      BY <1>2, <3>1, <3>2, <3>3 DEF Contents
  <2>2. QED
    BY <1>1, <1>2, <2>1
<1>4. QED
  BY <1>1, <1>2, <1>3, ClosingKeepsCounts DEF AbandonedGrowth

\* What a page write takes over of lists and counts.
LEMMA FlushedLists ==
  ASSUME NEW u \in Units, disk \in Contents, buf \in Contents, NEW t \in Tables
  PROVE  LET d == Written(disk, buf, u)
         IN  /\ d.list[t] = IF u = List(t) THEN buf.list[t] ELSE disk.list[t]
             /\ d.count[t] = IF u = Info(t) THEN buf.count[t] ELSE disk.count[t]
<1> DEFINE d == Written(disk, buf, u)
           Goal == /\ d.list[t] = IF u = List(t) THEN buf.list[t] ELSE disk.list[t]
                   /\ d.count[t] = IF u = Info(t) THEN buf.count[t] ELSE disk.count[t]
<1>1. ASSUME u = Pfs PROVE Goal
  <2>1. d = [disk EXCEPT !.pfs = buf.pfs] /\ u # List(t) /\ u # Info(t)
    BY <1>1 DEF Written, Pfs, List, Info
  <2> HIDE DEF d
  <2>2. QED
    BY <2>1 DEF Contents
<1>2. ASSUME NEW p \in Pages, u = DataPage(p) PROVE Goal
  <2>1. d = [disk EXCEPT !.owner[p] = buf.owner[p], !.rows[p] = buf.rows[p]] /\ u # List(t) /\ u # Info(t)
    BY <1>2 DEF Written, DataPage, Pfs, List, Info
  <2> HIDE DEF d
  <2>2. QED
    BY <2>1 DEF Contents
<1>3. ASSUME NEW v \in Tables, u = Leaf(v) PROVE Goal
  <2>1. d = [disk EXCEPT !.leaf[v] = buf.leaf[v]] /\ u # List(t) /\ u # Info(t)
    BY <1>3 DEF Written, Leaf, Pfs, List, Info
  <2> HIDE DEF d
  <2>2. QED
    BY <2>1 DEF Contents
<1>4. ASSUME NEW v \in Tables, u = List(v) PROVE Goal
  <2>1. d = [disk EXCEPT !.list[v] = buf.list[v]] /\ (u = List(t) <=> v = t) /\ u # Info(t)
    BY <1>4 DEF Written, Pfs, List, Info
  <2> HIDE DEF d
  <2>2. QED
    BY <2>1 DEF Contents
<1>5. ASSUME NEW v \in Tables, u = Info(v) PROVE Goal
  <2>1. d = [disk EXCEPT !.count[v] = buf.count[v]] /\ (u = Info(t) <=> v = t) /\ u # List(t)
    BY <1>5 DEF Written, Pfs, List, Info
  <2> HIDE DEF d
  <2>2. QED
    BY <2>1 DEF Contents
<1>6. QED
  BY <1>1, <1>2, <1>3, <1>4, <1>5 DEF Units

LEMMA FlushPageKeepsCounts ==
  ASSUME CountsInv, RowsInv', NEW u \in Units, FlushPage(u)
  PROVE  CountsInv'
<1>1. /\ phase = "commit" /\ u \in dirty
      /\ disk' = Written(disk, buf, u)
      /\ dirty' = dirty \ {u}
      /\ phase' = IF dirty = {u} THEN "closed" ELSE "commit"
      /\ UNCHANGED <<buf, table, dataPages, delta, grown, changes, atOpen, drops, intact>>
  BY DEF FlushPage
<1>2. /\ TypeOK /\ RowsInv /\ DeltaTracksPages /\ table \in Tables
      /\ disk \in Contents /\ buf \in Contents /\ Shaped(disk) /\ Shaped(buf)
      /\ buf.owner = disk.owner
  BY <1>1 DEF CountsInv, TypesInv, RowsInv, Types, TypeOK, BufferTracksDisk, Writing
<1>3. disk' \in Contents
  BY <1>1, <1>2, WrittenContents
<1>4. /\ disk'.owner = disk.owner
      /\ disk'.pfs = IF u = Pfs THEN buf.pfs ELSE disk.pfs
      /\ \A p \in Pages : disk'.rows[p] = IF u = DataPage(p) THEN buf.rows[p] ELSE disk.rows[p]
  BY <1>1, <1>2, FlushedFields
<1>5. \A t \in Tables :
        /\ disk'.list[t] = IF u = List(t) THEN buf.list[t] ELSE disk.list[t]
        /\ disk'.count[t] = IF u = Info(t) THEN buf.count[t] ELSE disk.count[t]
  BY <1>1, <1>2, FlushedLists
<1>6. TypeOK'
  BY <1>1, <1>2, <1>3 DEF TypeOK
<1>7. DeltaTracksPages'
  <2>1. \A p \in Pages : Occupied(buf, p)' = Occupied(buf, p) /\ Occupied(atOpen, p)' = Occupied(atOpen, p)
    BY <1>1 DEF Occupied
  <2>2. QED
    BY <1>1, <1>2, <2>1 DEF DeltaTracksPages
<1>8. ListsTrackDisk' /\ PagesAreKnown'
  BY <1>1 DEF ListsTrackDisk, PagesAreKnown
<1>9. ASSUME intact PROVE TalliesInv' /\ OwnedPagesReserved'
  <2>1. TalliesInv /\ OwnedPagesReserved
    BY <1>9 DEF CountsInv
  <2>2. \A t \in Tables : OwnedPages(disk', t) = OwnedPages(disk, t) /\ OwnedPages(buf, t) = OwnedPages(disk, t)
    BY <1>2, <1>4 DEF OwnedPages
  <2>3. \A p \in Pages : IF DataPage(p) \in dirty THEN disk.owner[p] = table ELSE buf.rows[p] = disk.rows[p]
    BY <1>1, <1>2 DEF RowsInv, BufferTracksDisk, Writing
  <2>4. ASSUME NEW t \in Tables, t # table PROVE Tallied(disk', t)
    <3>1. Tallied(disk, t) /\ dirty \cap {List(t), Info(t)} = {}
      BY <1>1, <2>1, <2>4 DEF TalliesInv, Writing
    <3>2. disk'.list[t] = disk.list[t] /\ disk'.count[t] = disk.count[t]
      BY <1>1, <1>5, <3>1
    <3>3. \A p \in OwnedPages(disk, t) : disk'.rows[p] = disk.rows[p]
      BY <1>1, <1>4, <2>3, <2>4 DEF OwnedPages
    <3>4. RowsOf(disk', t) = RowsOf(disk, t)
      BY <1>2, <2>4, FlushPageKeepsRowsInv
    <3>5. QED
      BY <2>2, <3>1, <3>2, <3>3, <3>4, TalliedSame
  <2>5. ASSUME phase' = "closed" PROVE Tallied(disk', table)
    <3>1. dirty = {u}
      BY <1>1, <2>5
    <3>2. /\ Tallied(buf, table)
          /\ List(table) \notin dirty => disk.list[table] = buf.list[table]
          /\ Info(table) \notin dirty => disk.count[table] = buf.count[table]
      BY <1>1, <2>1 DEF TalliesInv
    <3>3. disk'.list[table] = buf.list[table] /\ disk'.count[table] = buf.count[table]
      BY <1>2, <1>5, <3>1, <3>2
    <3>4. \A p \in Pages : disk'.rows[p] = buf.rows[p]
      BY <1>4, <2>3, <3>1
    <3>5. RowsOf(disk', table) = RowsOf(buf, table)
      BY <1>2, <2>5, FlushPageKeepsRowsInv
    <3>6. OwnedPages(disk', table) = OwnedPages(buf, table) /\ OwnedPages(buf, table) \subseteq Pages
      BY <1>2, <2>2 DEF OwnedPages
    <3>7. QED
      BY <3>2, <3>3, <3>4, <3>5, <3>6, TalliedSame
  <2>6. ASSUME NEW t \in Tables, ~(phase' = "commit" /\ t = table') PROVE Tallied(disk, t)'
    <3>1. Tallied(disk', t)
      BY <1>1, <2>4, <2>5, <2>6
    <3>2. QED
      BY <3>1 DEF Tallied, ListedPages, OwnedPages, RowsOf, Occupied
  <2>7. ASSUME phase' = "commit"
        PROVE  /\ Tallied(buf, table)'
               /\ List(table') \notin dirty' => disk'.list[table'] = buf'.list[table']
               /\ Info(table') \notin dirty' => disk'.count[table'] = buf'.count[table']
    <3>1. /\ Tallied(buf, table)
          /\ List(table) \notin dirty => disk.list[table] = buf.list[table]
          /\ Info(table) \notin dirty => disk.count[table] = buf.count[table]
      BY <1>1, <2>1 DEF TalliesInv
    <3>2. Tallied(buf', table')
      BY <1>1, <3>1
    <3>3. Tallied(buf, table)'
      BY <3>2 DEF Tallied, ListedPages, OwnedPages, RowsOf, Occupied
    <3>4. QED
      BY <1>1, <1>2, <1>5, <3>1, <3>3
  <2>8. \A t \in Tables \ {table'} : dirty' \cap {List(t), Info(t)} = {}
    BY <1>1, <2>1 DEF TalliesInv, Writing
  <2>9. TalliesInv'
    <3>1. List(table)' = List(table') /\ Info(table)' = Info(table')
      BY DEF List, Info
    <3>2. QED
      BY <2>6, <2>7, <2>8, <3>1 DEF TalliesInv
  <2>10. OwnedPagesReserved'
    <3>1. CASE phase' = "closed"
      <4>1. \A p \in Pages : disk'.owner[p] # NoTable => p \in disk'.pfs
        BY <1>1, <1>9, <3>1 DEF RowsInv, OwnedPagesAreTaken
      <4>2. QED
        BY <4>1 DEF OwnedPagesReserved
    <3>2. CASE phase' = "commit"
      <4>1. \A p \in Pages : disk.owner[p] # NoTable => p \in buf.pfs
        BY <1>1, <1>2, <1>9 DEF RowsInv, OwnedPagesAreTaken
      <4>2. QED
        BY <1>1, <1>4, <2>1, <3>2, <4>1 DEF OwnedPagesReserved, Writing
    <3>3. QED
      BY <1>1, <3>1, <3>2
  <2>11. QED
    BY <2>9, <2>10
<1>10. QED
  BY <1>1, <1>6, <1>7, <1>8, <1>9 DEF CountsInv, TypesInv

-----------------------------------------------------------------------------
(* The theorems.                                                           *)

LEMMA StepsKeepCounts == CountsInv /\ RowsInv' /\ [Next]_vars => CountsInv'
<1> SUFFICES ASSUME CountsInv, RowsInv', [Next]_vars PROVE CountsInv'
  OBVIOUS
<1>1. intact \in BOOLEAN /\ buf \in Contents
  BY DEF CountsInv, TypesInv, TypeOK
<1>2. ASSUME NEW t \in Tables, OpenWriter(t) PROVE CountsInv'
  BY <1>1, <1>2, UnchangedDiskKeepsCounts DEF OpenWriter
<1>3. ASSUME NEW t \in Tables, DropAndCreate(t) PROVE CountsInv'
  BY <1>3, DropKeepsCounts
<1>4. ASSUME NEW k \in Keys, Insert(k) \/ InsertGrowing(k) \/ InsertUnlisted(k) \/ GrowthCut(k)
      PROVE  CountsInv'
  BY <1>4, InsertKeepsCounts, InsertGrowingKeepsCounts, InsertUnlistedKeepsCounts, GrowthCutKeepsCounts
<1>5. ASSUME NEW p \in Pages, NEW s \in Slots, Delete(p, s) \/ \E k \in Keys : Update(p, s, k)
      PROVE  CountsInv'
  BY <1>5, DeleteKeepsCounts, UpdateKeepsCounts
<1>6. CASE BeginCommit
  BY <1>6, BeginCommitKeepsCounts
<1>7. CASE CommitRefused
  BY <1>7, CommitRefusedKeepsCounts
<1>8. CASE CommitNothing \/ FlushFails
  <2>1. /\ Writing /\ phase' = "closed" /\ buf' = buf /\ dirty' = {}
        /\ UNCHANGED <<disk, table, dataPages, delta, grown, changes, atOpen, drops>>
    BY <1>8 DEF CommitNothing, FlushFails, Writing
  <2>2. buf' \in Contents /\ buf'.rows = buf.rows /\ dirty' \subseteq dirty
    BY <1>1, <2>1
  <2>3. CASE CommitNothing
    <3>1. intact' = intact /\ phase = "open" /\ Pfs \notin dirty
      BY <2>3 DEF CommitNothing
    <3>2. QED
      BY <1>1, <2>1, <2>2, <3>1, ClosingKeepsCounts
  <2>4. CASE FlushFails
    <3>1. intact' = FALSE
      BY <2>4 DEF FlushFails
    <3>2. QED
      BY <2>1, <2>2, <3>1, ClosingKeepsCounts
  <2>5. QED
    BY <1>8, <2>3, <2>4
<1>9. ASSUME NEW u \in Units, FlushPage(u) PROVE CountsInv'
  BY <1>9, FlushPageKeepsCounts
<1>10. CASE Rollback
  BY <1>1, <1>10, UnchangedDiskKeepsCounts DEF Rollback
<1>11. CASE Forget
  BY <1>1, <1>11, UnchangedDiskKeepsCounts DEF Forget
<1>12. CASE CutShort
  BY <1>1, <1>12, UnchangedDiskKeepsCounts DEF CutShort
<1>13. CASE UNCHANGED vars
  <2>1. /\ disk' = disk /\ buf' = buf /\ atOpen' = atOpen /\ phase' = phase /\ table' = table
        /\ dataPages' = dataPages /\ delta' = delta /\ dirty' = dirty /\ grown' = grown
        /\ changes' = changes /\ drops' = drops /\ intact' = intact
    BY <1>13 DEF vars, writer
  <2>2. TypeOK' /\ DeltaTracksPages' /\ ListsTrackDisk'
    BY <2>1 DEF CountsInv, TypesInv, TypeOK, DeltaTracksPages, ListsTrackDisk, Occupied
  <2>3. ASSUME intact PROVE TalliesInv' /\ PagesAreKnown' /\ OwnedPagesReserved'
    <3>1. TalliesInv /\ PagesAreKnown /\ OwnedPagesReserved
      BY <2>3 DEF CountsInv
    <3>2. /\ \A t : Tallied(disk, t)' <=> Tallied(disk, t)
          /\ Tallied(buf, table)' <=> Tallied(buf, table)
      BY <2>1 DEF Tallied, ListedPages, OwnedPages, RowsOf, Occupied
    <3>3. QED
      BY <2>1, <3>1, <3>2 DEF TalliesInv, PagesAreKnown, OwnedPagesReserved, OwnedPages, Writing
  <2>4. QED
    BY <2>1, <2>2, <2>3 DEF CountsInv, TypesInv
<1>14. QED
  BY <1>2, <1>3, <1>4, <1>5, <1>6, <1>7, <1>8, <1>9, <1>10, <1>11, <1>12, <1>13 DEF Next

LEMMA CountsInvAlways == Spec => []CountsInv
BY InitEstablishesCountsInv, RowsInvAlways, StepsKeepCounts, PTL DEF Spec

\* Everything the writer keeps stays what it is declared to be, whatever goes wrong:
\* no page is counted outside its slots, no record count goes below zero
\* (updateCounters), and every unit to be written is a page of the file.
THEOREM WriterTypes == Spec => []TypeOK
<1>1. CountsInv => TypeOK
  BY DEF CountsInv, TypesInv
<1>2. QED
  BY <1>1, CountsInvAlways, PTL

\* The record-page index, the info page's count and the rows agree after every
\* commit, rollback and drop on a file nothing went wrong with, and during a writer's
\* life, for any number of tables, pages and records (updatePageCounts,
\* updateCounters, growTable).
THEOREM CountsFollowRows == Spec => []CountsMatchRows
<1>1. CountsInv => CountsMatchRows
  <2> SUFFICES ASSUME CountsInv, intact, phase # "commit", NEW t \in Tables
               PROVE  LET list == disk.list[t]
                      IN  /\ ListedPages(disk, t) = OwnedPages(disk, t)
                          /\ Len(list) = Cardinality(OwnedPages(disk, t))
                          /\ \A i \in DOMAIN list : list[i].count = Occupied(disk, list[i].page)
                          /\ disk.count[t] = Cardinality(RowsOf(disk, t))
                          /\ \A p \in OwnedPages(disk, t) :
                               p \in disk.pfs \/ (phase = "open" /\ t = table /\ DataPage(p) \in dirty)
    BY DEF CountsMatchRows
  <2>1. Tallied(disk, t)
    BY DEF CountsInv, TalliesInv
  <2>2. ASSUME NEW p \in OwnedPages(disk, t), p \notin disk.pfs
        PROVE  phase = "open" /\ t = table /\ DataPage(p) \in dirty
    <3>1. p \in Pages /\ disk.owner[p] = t /\ t # NoTable
      BY <2>2, KeysAreNotNoKey DEF OwnedPages
    <3>2. QED
      BY <2>2, <3>1 DEF CountsInv, OwnedPagesReserved, Writing
  <2>3. QED
    BY <2>1, <2>2 DEF Tallied
<1>2. QED
  BY <1>1, CountsInvAlways, PTL

\* On a file nothing went wrong with no commit is refused: the list growTable wrote
\* ahead is the one recordPageIndex finds, and updatePageCounts and updateCounters
\* agree with it.
THEOREM CommitsGoThrough == Spec => CommitsAreAccepted
<1>1. CountsInv /\ [Next]_vars => [intact => ~CommitRefused]_vars
  BY GoodCommitsAreAccepted
<1>2. QED
  BY <1>1, CountsInvAlways, PTL DEF Spec, CommitsAreAccepted
=============================================================================
