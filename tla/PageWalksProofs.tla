-------------------------- MODULE PageWalksProofs --------------------------
(***************************************************************************)
(* Proofs about PageWalks, for a file of any length, whatever its links    *)
(* and headers say, and any limits.                                        *)
(***************************************************************************)
EXTENDS PageWalks, Extrema, FiniteSetTheorems, TLAPS

USE PageWalksAssumption

-----------------------------------------------------------------------------
(* The inductive invariant.                                                *)

Distinct(s) == \A i, j \in DOMAIN s : s[i] = s[j] => i = j

\* Chains and trees do not share a stage but the first and the last.
StagesAreApart ==
  /\ stage = "chain" => walk.kind \in ChainKinds
  /\ stage = "descend" => walk.kind \in TreeKinds
  /\ stage = "leaves" => walk.kind = "scan"

\* Before a chain or the leaves are followed nothing has been taken.
NothingReadYet == stage \in {"start", "descend"} => read = <<>>

IInv ==
  /\ read \in Seq(Pages)
  /\ StagesAreApart
  /\ NothingReadYet
  /\ Distinct(read)
  /\ walk.kind \in ChainKinds => Len(read) <= MaxChainPages

-----------------------------------------------------------------------------

\* A page that was not seen before can be taken.
LEMMA AppendUnseen ==
  ASSUME NEW s \in Seq(Pages), NEW p \in Pages, p \notin ToSet(s), Distinct(s)
  PROVE  /\ Append(s, p) \in Seq(Pages)
         /\ Distinct(Append(s, p))
         /\ Len(Append(s, p)) = Len(s) + 1
<1> DEFINE t == Append(s, p)
<1>1. t \in Seq(Pages) /\ Len(t) = Len(s) + 1
  OBVIOUS
<1>2. /\ \A i \in 1..Len(s) : t[i] = s[i] /\ t[i] # p
      /\ t[Len(s) + 1] = p
  BY DEF ToSet
<1>3. ASSUME NEW i \in 1..Len(s) + 1, NEW j \in 1..Len(s) + 1, t[i] = t[j]
      PROVE  i = j
  <2> HIDE DEF t
  <2>1. Len(s) \in Nat /\ DOMAIN s = 1..Len(s)
    OBVIOUS
  <2>2. CASE i = Len(s) + 1
    BY <1>2, <1>3, <2>1, <2>2
  <2>3. CASE j = Len(s) + 1
    BY <1>2, <1>3, <2>1, <2>3
  <2>4. CASE i \in 1..Len(s) /\ j \in 1..Len(s)
    <3>1. s[i] = s[j]
      BY <1>2, <1>3, <2>4
    <3>2. QED
      BY <2>1, <2>4, <3>1 DEF Distinct
  <2>5. QED
    BY <2>1, <2>2, <2>3, <2>4
<1>4. DOMAIN t = 1..Len(s) + 1
  OBVIOUS
<1>5. QED
  BY <1>1, <1>3, <1>4 DEF Distinct

\* A first page taken on its own.
LEMMA OnePage ==
  ASSUME NEW p \in Pages
  PROVE  <<p>> \in Seq(Pages) /\ Distinct(<<p>>) /\ Len(<<p>>) = 1
BY DEF Distinct

\* A walk that ends keeps what it has read.
LEMMA FinishKeepsIInv ==
  ASSUME IInv, NEW o, Finish(o)
  PROVE  IInv'
BY DEF IInv, Finish, StagesAreApart, NothingReadYet, Distinct

-----------------------------------------------------------------------------

LEMMA InitEstablishesIInv == Init => IInv
<1> SUFFICES ASSUME Init PROVE IInv
  OBVIOUS
<1>1. read = <<>> /\ stage = "start"
  BY DEF Init
<1>2. read \in Seq(Pages) /\ Len(read) = 0 /\ DOMAIN read = {}
  BY <1>1
<1>3. QED
  BY <1>1, <1>2 DEF IInv, StagesAreApart, NothingReadYet, Distinct

LEMMA StartChainKeepsIInv ==
  ASSUME IInv, StartChain
  PROVE  IInv'
<1>1. CASE \E o : Finish(o)
  BY <1>1, FinishKeepsIInv
<1>2. CASE /\ InFile(next)
           /\ stage' = "chain"
           /\ read' = <<next>>
           /\ UNCHANGED walk
  <2>1. walk'.kind \in ChainKinds
    BY <1>2 DEF StartChain
  <2>2. next \in Pages
    BY <1>2 DEF InFile
  <2>3. Len(read') <= MaxChainPages /\ read' \in Seq(Pages) /\ Distinct(read')
    BY <1>2, <2>2, OnePage
  <2>4. QED
    BY <1>2, <2>1, <2>3 DEF IInv, StagesAreApart, NothingReadYet, Distinct
<1>3. QED
  BY <1>1, <1>2 DEF StartChain

LEMMA FollowChainKeepsIInv ==
  ASSUME IInv, FollowChain
  PROVE  IInv'
<1>1. CASE \E o : Finish(o)
  BY <1>1, FinishKeepsIInv
<1>2. CASE TakePage
  <2>1. next \in Pages /\ next \notin ToSet(read)
    BY <1>2 DEF TakePage, InFile, Seen
  <2>2. read' = Append(read, next) /\ stage' = stage /\ walk' = walk
    BY <1>2 DEF TakePage
  <2>3. Len(read) < MaxChainPages
    BY <1>2 DEF TakePage, TooLong, IInv
  <2>4. read' \in Seq(Pages) /\ Distinct(read') /\ Len(read') <= MaxChainPages
    BY <2>1, <2>2, <2>3, AppendUnseen DEF IInv
  <2>5. stage = "chain"
    BY DEF FollowChain
  <2>6. QED
    BY <2>2, <2>4, <2>5 DEF IInv, StagesAreApart, NothingReadYet, Distinct
<1>3. QED
  BY <1>1, <1>2 DEF FollowChain, ChainRefused

LEMMA StartDescentKeepsIInv ==
  ASSUME IInv, StartDescent
  PROVE  IInv'
BY DEF IInv, StartDescent, StagesAreApart, NothingReadYet, Distinct, ChainKinds, TreeKinds

LEMMA DescendKeepsIInv ==
  ASSUME IInv, Descend
  PROVE  IInv'
<1>1. CASE \E o : Finish(o)
  BY <1>1, FinishKeepsIInv
<1>2. CASE DescendOneLevel
  BY <1>2 DEF IInv, DescendOneLevel, StagesAreApart, NothingReadYet, Distinct
<1>3. CASE SearchLeaf
  <2>1. next \in Pages
    BY <1>3 DEF SearchLeaf, AtLeaf, InFile
  <2>2. read' \in Seq(Pages) /\ Distinct(read')
    BY <1>3, <2>1, OnePage DEF SearchLeaf
  <2>3. stage' = "done" /\ walk' = walk /\ walk.kind = "search"
    BY <1>3 DEF SearchLeaf
  <2>4. QED
    BY <2>2, <2>3 DEF IInv, StagesAreApart, NothingReadYet, Distinct, ChainKinds
<1>4. CASE FirstLeaf
  BY <1>4 DEF IInv, FirstLeaf, StagesAreApart, NothingReadYet, Distinct
<1>5. QED
  BY <1>1, <1>2, <1>3, <1>4 DEF Descend, DescentRefused

LEMMA ScanLeafKeepsIInv ==
  ASSUME IInv, ScanLeaf
  PROVE  IInv'
<1>1. CASE \E o : Finish(o)
  BY <1>1, FinishKeepsIInv
<1>2. CASE /\ ~Seen(next) /\ InFile(next)
           /\ read' = Append(read, next)
           /\ UNCHANGED <<walk, stage>>
  <2>1. next \in Pages /\ next \notin ToSet(read)
    BY <1>2 DEF InFile, Seen
  <2>2. read' \in Seq(Pages) /\ Distinct(read')
    BY <1>2, <2>1, AppendUnseen DEF IInv
  <2>3. walk.kind = "scan" /\ stage = "leaves"
    BY DEF ScanLeaf, IInv, StagesAreApart
  <2>4. QED
    BY <1>2, <2>2, <2>3 DEF IInv, StagesAreApart, NothingReadYet, Distinct, ChainKinds
<1>3. QED
  BY <1>1, <1>2 DEF ScanLeaf

LEMMA StepsKeepIInv == IInv /\ [Next]_vars => IInv'
<1> SUFFICES ASSUME IInv, [Next]_vars PROVE IInv'
  OBVIOUS
<1>1. CASE Step
  BY <1>1, StartChainKeepsIInv, FollowChainKeepsIInv, StartDescentKeepsIInv,
     DescendKeepsIInv, ScanLeafKeepsIInv DEF Step
<1>2. CASE UNCHANGED vars
  BY <1>2 DEF vars, IInv, StagesAreApart, NothingReadYet, Distinct
<1>3. QED
  BY <1>1, <1>2 DEF Next, Done

LEMMA SpecIInv == Spec => []IInv
<1>1. QED
  BY InitEstablishesIInv, StepsKeepIInv, PTL DEF Spec

\* No walk takes the data of a page twice, and a chain is given up at its
\* limit, in a file of any length with any links (readChain, readBlobChain,
\* scanLeaves: the visited sets and limits they keep).
THEOREM WalksDoNotRepeat == Spec => []NoPageReadTwice
<1>1. IInv => NoPageReadTwice
  BY DEF IInv, NoPageReadTwice, Distinct
<1>2. QED
  BY <1>1, SpecIInv, PTL

\* A walk over the leaves has no limit of its own and needs none: it is over
\* after as many leaves as the file has pages (scanLeaves).
THEOREM WalksAreBounded == Spec => [](Len(read) <= PageCount)
<1>1. IInv => Len(read) <= PageCount
  <2> SUFFICES ASSUME IInv, ~(Len(read) <= PageCount) PROVE FALSE
    OBVIOUS
  <2>1. /\ Len(read) \in Nat /\ DOMAIN read = 1..Len(read)
        /\ read \in [1..Len(read) -> Pages]
    BY DEF IInv
  <2>2. IsFiniteSet(Pages) /\ Cardinality(Pages) = PageCount
    <3>1. 0 \in Int /\ PageCount - 1 \in Int /\ ~(0 > PageCount - 1)
      OBVIOUS
    <3>2. /\ IsFiniteSet(0..PageCount - 1)
          /\ Cardinality(0..PageCount - 1) = PageCount - 1 - 0 + 1
      BY ONLY <3>1, FS_Interval, Zenon
    <3>3. PageCount - 1 - 0 + 1 = PageCount
      OBVIOUS
    <3>4. QED
      BY <3>2, <3>3 DEF Pages
  <2>3. IsFiniteSet(1..Len(read)) /\ Cardinality(1..Len(read)) = Len(read)
    <3> DEFINE m == Len(read)
    <3>1. 1 \in Int /\ m \in Int
      BY <2>1
    <3>2. (1 > m => 0 = m) /\ (~(1 > m) => m - 1 + 1 = m)
      BY <2>1
    <3> HIDE DEF m
    <3>3. /\ IsFiniteSet(1..m)
          /\ Cardinality(1..m) = IF 1 > m THEN 0 ELSE m - 1 + 1
      BY ONLY <3>1, FS_Interval, Zenon
    <3>4. IsFiniteSet(1..m) /\ Cardinality(1..m) = m
      BY ONLY <3>2, <3>3, Zenon
    <3>5. QED
      BY ONLY <3>4 DEF m
  <2>4. Cardinality(Pages) < Cardinality(1..Len(read))
    BY <2>1, <2>2, <2>3
  <2>5. \E i, j \in 1..Len(read) : i # j /\ read[i] = read[j]
    BY <2>1, <2>2, <2>3, <2>4, FS_PigeonHole
  <2>6. QED
    BY <2>1, <2>5 DEF IInv, Distinct
<1>2. QED
  BY <1>1, SpecIInv, PTL

-----------------------------------------------------------------------------
(* A chain that ends well has all that its header declares.                *)

\* While a chain is followed, the page to read next is the one its last page
\* names; a walk has no outcome until it is done.
ChainGoesOn ==
  /\ walk \in Walks
  /\ stage = "chain" => read # <<>> /\ next = Successor(Last(read))
  /\ stage # "done" => outcome = "none"

DataInv == IInv /\ ChainGoesOn /\ NothingIsMissing

\* Every outcome but "ok" delivers nothing.
LEMMA RefusalsMissNothing ==
  ASSUME DataInv, NEW o, o # "ok", Finish(o)
  PROVE  ChainGoesOn' /\ NothingIsMissing'
BY DEF DataInv, Finish, ChainGoesOn, NothingIsMissing

\* A step that is not the last one has no outcome yet.
LEMMA OpenWalksMissNothing ==
  ASSUME outcome' = "none"
  PROVE  NothingIsMissing'
BY DEF NothingIsMissing

\* A chain whose loop ends with "ok" has no successor left, or enough data.
LEMMA EndsMissNothing ==
  ASSUME DataInv, stage = "chain", ~MoreToRead, Finish(ChainEnds)
  PROVE  ChainGoesOn' /\ NothingIsMissing'
<1>1. ChainGoesOn'
  BY DEF DataInv, Finish, ChainGoesOn
<1>2. /\ outcome' = ChainEnds /\ walk' = walk /\ read' = read /\ next' = next
  BY DEF Finish
<1>3. ASSUME ChainEnds = "ok", walk.kind \in {"file", "blob"}, ~(Got(read) >= walk.want)
      PROVE  walk.kind = "blob" /\ Len(read) = 1 /\ Successor(read[1]) < 0
  <2>1. walk.kind = "blob" /\ Len(read) = 1
    BY <1>3 DEF ChainEnds
  <2>2. walk.want \in Nat /\ Got(read) \in Int
    BY <1>3, LinksAssumption DEF DataInv, IInv, ChainGoesOn, ChainKinds, Got, HeaderUnits
  <2>3. ~(next >= 0)
    BY <1>3, <2>2 DEF MoreToRead, Missing
  <2>4. next = Successor(read[1])
    BY <2>1 DEF DataInv, ChainGoesOn, Last
  <2>5. read[1] \in Pages
    BY <2>1 DEF DataInv, IInv
  <2>6. next \in Int
    BY <1>3, <2>4, <2>5, LinksAssumption DEF DataInv, ChainGoesOn, ChainKinds, Successor, page
  <2>7. QED
    BY <2>1, <2>3, <2>4, <2>6
<1>4. (Got(read) = Got(read)') /\ (Successor(read[1]) = Successor(read[1])')
  BY <1>2 DEF Got, HeaderUnits, Successor, page
<1>5. QED
  BY <1>1, <1>2, <1>3, <1>4 DEF NothingIsMissing

LEMMA StartChainMissesNothing ==
  ASSUME DataInv, StartChain
  PROVE  ChainGoesOn' /\ NothingIsMissing'
<1>1. CASE \E o : o # "ok" /\ Finish(o)
  BY <1>1, RefusalsMissNothing
<1>2. CASE /\ InFile(next)
           /\ stage' = "chain"
           /\ read' = <<next>>
           /\ next' = Successor(next)
           /\ UNCHANGED <<walk, depth, outcome>>
  <2>1. outcome' = "none"
    BY <1>2 DEF DataInv, ChainGoesOn, StartChain
  <2>2. next' = Successor(Last(read))'
    BY <1>2 DEF Last, Successor, page
  <2>3. ChainGoesOn'
    BY <1>2, <2>1, <2>2 DEF DataInv, ChainGoesOn
  <2>4. QED
    BY <2>1, <2>3, OpenWalksMissNothing
<1>3. QED
  BY <1>1, <1>2 DEF StartChain

LEMMA FollowChainMissesNothing ==
  ASSUME DataInv, FollowChain
  PROVE  ChainGoesOn' /\ NothingIsMissing'
<1>1. CASE ~MoreToRead /\ Finish(ChainEnds)
  BY <1>1, EndsMissNothing DEF FollowChain
<1>2. CASE \E o : o # "ok" /\ Finish(o)
  BY <1>2, RefusalsMissNothing
<1>3. CASE TakePage
  <2>1. outcome' = "none"
    BY <1>3 DEF DataInv, ChainGoesOn, FollowChain, TakePage
  <2>2. read \in Seq(Pages) /\ next \in Pages
    BY <1>3 DEF DataInv, IInv, TakePage, InFile
  <2>3. Last(Append(read, next)) = next /\ Append(read, next) # <<>>
    BY <2>2 DEF Last
  <2>4. read' = Append(read, next) /\ next' = Successor(next) /\ walk' = walk /\ stage' = stage
    BY <1>3 DEF TakePage
  <2>5. next' = Successor(Last(read))'
    BY <2>3, <2>4 DEF Successor, page
  <2>6. ChainGoesOn'
    BY <2>1, <2>3, <2>4, <2>5 DEF DataInv, ChainGoesOn
  <2>7. QED
    BY <2>1, <2>6, OpenWalksMissNothing
<1>4. QED
  BY <1>1, <1>2, <1>3 DEF FollowChain, ChainRefused

LEMMA TreesMissNothing ==
  ASSUME DataInv, StartDescent \/ Descend \/ ScanLeaf
  PROVE  ChainGoesOn' /\ NothingIsMissing'
<1>1. walk' = walk /\ walk.kind \in TreeKinds
  BY DEF DataInv, IInv, StagesAreApart, StartDescent, Descend, DescentRefused, DescendOneLevel,
         SearchLeaf, FirstLeaf, ScanLeaf, Finish, TreeKinds
<1>2. NothingIsMissing'
  BY <1>1 DEF NothingIsMissing, TreeKinds
<1>3. stage' # "chain" /\ (stage' # "done" => outcome' = outcome)
  BY DEF StartDescent, Descend, DescentRefused, DescendOneLevel, SearchLeaf, FirstLeaf,
         ScanLeaf, Finish
<1>4. stage # "done"
  BY DEF StartDescent, Descend, ScanLeaf
<1>5. QED
  BY <1>1, <1>2, <1>3, <1>4 DEF DataInv, ChainGoesOn

LEMMA StepsKeepDataInv == DataInv /\ [Next]_vars => DataInv'
<1> SUFFICES ASSUME DataInv, [Next]_vars PROVE DataInv'
  OBVIOUS
<1>1. IInv'
  BY StepsKeepIInv DEF DataInv
<1>2. CASE Step
  BY <1>1, <1>2, StartChainMissesNothing, FollowChainMissesNothing, TreesMissNothing
     DEF Step, DataInv
<1>3. CASE UNCHANGED vars
  <2>1. ChainGoesOn'
    BY <1>3 DEF vars, DataInv, ChainGoesOn, Successor, page
  <2>2. NothingIsMissing'
    BY <1>3 DEF vars, DataInv, NothingIsMissing, Got, HeaderUnits, Successor, page
  <2>3. QED
    BY <1>1, <2>1, <2>2 DEF DataInv
<1>4. QED
  BY <1>2, <1>3 DEF Next, Done

\* A chain that is read without an error has all the data its header declares,
\* but for the one case blobPayload lets pass (decompressInternalFile,
\* readBlobChain).
THEOREM ChainsMissNothing == Spec => []NothingIsMissing
<1>1. Init => DataInv
  <2>1. Init => IInv
    BY InitEstablishesIInv
  <2>2. Init => ChainGoesOn /\ NothingIsMissing
    BY DEF Init, ChainGoesOn, NothingIsMissing
  <2>3. QED
    BY <2>1, <2>2 DEF DataInv
<1>2. DataInv => NothingIsMissing
  BY DEF DataInv
<1>3. QED
  BY <1>1, <1>2, StepsKeepDataInv, PTL DEF Spec

-----------------------------------------------------------------------------
(* Search by halving.                                                      *)

Windows(n) == (0..n) \X (0..n)
Middle(w) == (w[1] + w[2]) \div 2

\* A step of Bisect, with what is left to search in f.
Halved(places, f, w) ==
  IF w[1] >= w[2] THEN w[1]
  ELSE IF Middle(w) \in places THEN f[<<w[1], Middle(w)>>] ELSE f[<<Middle(w) + 1, w[2]>>]

Narrow(n, d) == {w \in Windows(n) : w[2] <= w[1] + d}

\* Each half of a window lies in it and is narrower.
LEMMA HalvesAreNarrower ==
  ASSUME NEW n \in Nat, NEW d \in Nat, NEW w \in Narrow(n, d + 1), w[1] < w[2]
  PROVE  /\ w[1] \in 0..n /\ w[2] \in 0..n
         /\ Middle(w) \in Int /\ w[1] <= Middle(w) /\ Middle(w) < w[2]
         /\ <<w[1], Middle(w)>> \in Narrow(n, d)
         /\ <<Middle(w) + 1, w[2]>> \in Narrow(n, d)
<1>1. w[1] \in 0..n /\ w[2] \in 0..n /\ w[2] <= w[1] + (d + 1)
  BY DEF Narrow, Windows
<1>2. Middle(w) \in Int /\ w[1] <= Middle(w) /\ Middle(w) < w[2]
  BY <1>1 DEF Middle
<1>3. <<w[1], Middle(w)>> \in Windows(n) /\ <<Middle(w) + 1, w[2]>> \in Windows(n)
  BY <1>1, <1>2 DEF Windows
<1>4. Middle(w) <= w[1] + d /\ w[2] <= (Middle(w) + 1) + d
  BY <1>1, <1>2
<1>5. QED
  BY <1>1, <1>2, <1>3, <1>4 DEF Narrow

\* The halving has a result for every window.
LEMMA HalvingHasResult ==
  ASSUME NEW n \in Nat, NEW places
  PROVE  \E f : f = [w \in Windows(n) |-> Halved(places, f, w)]
<1> DEFINE Solves(f, d) == f = [w \in Narrow(n, d) |-> Halved(places, f, w)]
           Depths == {d \in Nat : \E f : Solves(f, d)}
<1>1. 0 \in Depths
  <2> DEFINE f == [w \in Narrow(n, 0) |-> w[1]]
  <2>1. ASSUME NEW w \in Narrow(n, 0) PROVE Halved(places, f, w) = w[1]
    <3>1. w[1] >= w[2]
      BY DEF Narrow, Windows
    <3>2. QED
      BY <3>1 DEF Halved
  <2>2. Solves(f, 0)
    BY <2>1
  <2>3. QED
    BY <2>2
<1>2. ASSUME NEW d \in Nat, d \in Depths PROVE d + 1 \in Depths
  <2>1. PICK f : Solves(f, d)
    BY <1>2
  <2> DEFINE g == [w \in Narrow(n, d + 1) |-> Halved(places, f, w)]
  <2>2. ASSUME NEW u \in Narrow(n, d) PROVE g[u] = f[u]
    <3>1. u \in Narrow(n, d + 1)
      BY DEF Narrow, Windows
    <3>2. QED
      BY <2>1, <3>1
  <2>3. ASSUME NEW w \in Narrow(n, d + 1) PROVE Halved(places, g, w) = Halved(places, f, w)
    <3>1. CASE w[1] >= w[2]
      BY <3>1 DEF Halved
    <3>2. CASE ~(w[1] >= w[2])
      <4>1. w[1] < w[2]
        BY <3>2 DEF Narrow, Windows
      <4>2. <<w[1], Middle(w)>> \in Narrow(n, d) /\ <<Middle(w) + 1, w[2]>> \in Narrow(n, d)
        BY <4>1, HalvesAreNarrower
      <4>3. /\ g[<<w[1], Middle(w)>>] = f[<<w[1], Middle(w)>>]
            /\ g[<<Middle(w) + 1, w[2]>>] = f[<<Middle(w) + 1, w[2]>>]
        BY <2>2, <4>2
      <4> HIDE DEF g
      <4>4. QED
        BY <4>3 DEF Halved
    <3>3. QED
      BY <3>1, <3>2
  <2>4. Solves(g, d + 1)
    <3> HIDE DEF g
    <3>1. g = [w \in Narrow(n, d + 1) |-> Halved(places, f, w)]
      BY DEF g
    <3>2. QED
      BY <2>3, <3>1
  <2>5. d + 1 \in Nat /\ \E h : Solves(h, d + 1)
    <3> HIDE DEF Solves, g
    <3> QED BY <2>4
  <2>6. QED
    BY <2>5
<1>3. n \in Depths
  <2> HIDE DEF Depths
  <2> QED BY <1>1, <1>2, NumbersByInduction
<1>4. Narrow(n, n) = Windows(n)
  BY DEF Narrow, Windows
<1>5. QED
  BY <1>3, <1>4

\* What a search in a window comes to: a place between those that are in the set and
\* those that are not, which is 0 only if 1 is as well.
Turns(places, w, r) ==
  /\ r \in w[1]..w[2]
  /\ r < w[2] => r \in places
  /\ w[1] < r => r - 1 \notin places
  /\ w[1] = 0 /\ r = 0 /\ 1 < w[2] => 1 \in places

LEMMA HalvingTurns ==
  ASSUME NEW n \in Nat, NEW places, NEW f,
         f = [w \in Windows(n) |-> Halved(places, f, w)]
  PROVE  \A w \in Windows(n) : w[1] <= w[2] => Turns(places, w, f[w])
<1> DEFINE Depths == {d \in Nat : \A w \in Narrow(n, d) : w[1] <= w[2] => Turns(places, w, f[w])}
<1>1. \A w \in Windows(n) : f[w] = Halved(places, f, w)
  OBVIOUS
<1>2. ASSUME NEW w \in Windows(n), w[1] = w[2] PROVE Turns(places, w, f[w])
  <2>1. w[1] \in Int /\ f[w] = w[1]
    BY <1>1, <1>2 DEF Halved, Windows
  <2>2. QED
    BY <1>2, <2>1 DEF Turns
<1>3. 0 \in Depths
  <2>1. ASSUME NEW w \in Narrow(n, 0), w[1] <= w[2] PROVE w \in Windows(n) /\ w[1] = w[2]
    BY <2>1 DEF Narrow, Windows
  <2>2. QED
    BY <1>2, <2>1
<1>4. ASSUME NEW d \in Nat, d \in Depths PROVE d + 1 \in Depths
  <2>1. SUFFICES ASSUME NEW w \in Narrow(n, d + 1), w[1] < w[2] PROVE Turns(places, w, f[w])
    <3>1. ASSUME NEW w \in Narrow(n, d + 1), w[1] <= w[2]
          PROVE  w \in Windows(n) /\ (w[1] = w[2] \/ w[1] < w[2])
      BY <3>1 DEF Narrow, Windows
    <3>2. QED
      BY <1>2, <2>1, <3>1
  <2> DEFINE m == Middle(w)
             left == <<w[1], m>>
             right == <<m + 1, w[2]>>
  <2>2. /\ w[1] \in 0..n /\ w[2] \in 0..n
        /\ m \in Int /\ w[1] <= m /\ m < w[2]
        /\ left \in Narrow(n, d) /\ right \in Narrow(n, d)
    BY <2>1, HalvesAreNarrower
  <2>3. left[1] = w[1] /\ left[2] = m /\ right[1] = m + 1 /\ right[2] = w[2]
    OBVIOUS
  <2>4. w \in Windows(n) /\ ~(w[1] >= w[2])
    BY <2>1, <2>2 DEF Narrow
  <2>5. f[w] = IF m \in places THEN f[left] ELSE f[right]
    BY <1>1, <2>4 DEF Halved
  <2>6. Turns(places, left, f[left]) /\ Turns(places, right, f[right])
    BY <1>4, <2>2, <2>3
  <2>10. 1 < w[2] => 1 <= m
    BY <2>2 DEF Middle
  <2> HIDE DEF m, left, right
  <2>7. CASE m \in places
    BY <2>2, <2>3, <2>5, <2>6, <2>7, <2>10 DEF Turns
  <2>8. CASE m \notin places
    BY <2>2, <2>3, <2>5, <2>6, <2>8 DEF Turns
  <2>9. QED
    BY <2>7, <2>8
<1>5. n \in Depths
  <2> HIDE DEF Depths
  <2> QED BY <1>3, <1>4, NumbersByInduction
<1>6. \A w \in Windows(n) : w \in Narrow(n, n)
  BY DEF Narrow, Windows
<1>7. QED
  BY <1>5, <1>6

\* sort.Search returns a place that is in the set or n, with none in the set just
\* before it, and looks at place 0 only after place 1.
LEMMA BisectTurns ==
  ASSUME NEW n \in Nat, NEW places
  PROVE  /\ Bisect(places, n) \in 0..n
         /\ Bisect(places, n) < n => Bisect(places, n) \in places
         /\ 0 < Bisect(places, n) => Bisect(places, n) - 1 \notin places
         /\ Bisect(places, n) = 0 /\ 1 < n => 1 \in places
<1> DEFINE search == CHOOSE f : f = [w \in Windows(n) |-> Halved(places, f, w)]
<1>1. search = [w \in Windows(n) |-> Halved(places, search, w)]
  BY HalvingHasResult, Zenon
<1>2. Bisect(places, n) = search[<<0, n>>]
  BY DEF Bisect, Windows, Halved, Middle
<1>3. <<0, n>> \in Windows(n) /\ <<0, n>>[1] = 0 /\ <<0, n>>[2] = n
  BY DEF Windows
<1>4. Turns(places, <<0, n>>, search[<<0, n>>])
  <2> HIDE DEF search
  <2> QED BY <1>1, <1>3, HalvingTurns
<1>5. QED
  BY <1>2, <1>3, <1>4 DEF Turns

\* What the entries of a page hold.
LEMMA EntriesAreTyped ==
  ASSUME NEW entries \in Seq([key : Int, page : Int])
  PROVE  /\ Len(entries) \in Nat /\ DOMAIN entries = 1..Len(entries)
         /\ entries # <<>> => 0 < Len(entries)
         /\ \A i \in 1..Len(entries) : entries[i].key \in Int /\ entries[i].page \in Int
<1>1. /\ Len(entries) \in Nat /\ DOMAIN entries = 1..Len(entries)
      /\ entries # <<>> => 0 < Len(entries)
  OBVIOUS
<1>2. ASSUME NEW i \in 1..Len(entries) PROVE entries[i] \in [key : Int, page : Int]
  <2> DEFINE Entry == [key : Int, page : Int]
  <2>1. entries \in Seq(Entry)
    OBVIOUS
  <2> HIDE DEF Entry
  <2>2. entries[i] \in Entry
    BY <2>1
  <2>3. QED
    BY <2>2 DEF Entry
<1>3. QED
  BY <1>1, <1>2

\* childPageNo takes a child whose separator is not above the key, before one whose
\* separator is; the first separator does not matter.
LEMMA ChildIsBetween ==
  ASSUME NEW entries \in Seq([key : Int, page : Int]), entries # <<>>, NEW key \in Int
  PROVE  \E j \in DOMAIN entries :
           /\ ChildBehind(entries, key) = entries[j].page
           /\ 1 < j => entries[j].key <= key
           /\ j < Len(entries) => key < entries[j + 1].key
<1> DEFINE n == Len(entries)
           at == Bisect(Above(entries, key), n)
           j == IF at = 0 THEN 1 ELSE at
<1>1. n \in Nat /\ 0 < n /\ DOMAIN entries = 1..n /\ \A i \in 1..n : entries[i].key \in Int
  BY EntriesAreTyped DEF n
<1>2. /\ at \in 0..n
      /\ at < n => at \in Above(entries, key)
      /\ 0 < at => at - 1 \notin Above(entries, key)
      /\ at = 0 /\ 1 < n => 1 \in Above(entries, key)
  BY <1>1, BisectTurns
<1>3. ChildBehind(entries, key) = entries[j].page
  BY DEF ChildBehind
<1>4. \A i \in 0..n - 1 : i \in Above(entries, key) <=> key < entries[i + 1].key
  BY <1>1 DEF Above
<1> HIDE DEF n, at
<1>5. j \in 1..n
  BY <1>1, <1>2
<1>6. 1 < j => entries[j].key <= key
  <2>1. SUFFICES ASSUME 1 < j PROVE entries[j].key <= key
    OBVIOUS
  <2>2. j = at /\ at - 1 \in 0..n - 1 /\ (at - 1) + 1 = j
    BY <1>1, <1>2, <2>1
  <2>3. ~(key < entries[j].key)
    BY <1>2, <1>4, <2>1, <2>2
  <2>4. QED
    BY <1>1, <1>5, <2>3
<1>7. j < n => key < entries[j + 1].key
  <2>1. SUFFICES ASSUME j < n PROVE key < entries[j + 1].key
    OBVIOUS
  <2>2. j \in Above(entries, key) /\ j \in 0..n - 1
    BY <1>1, <1>2, <1>5, <2>1
  <2>3. QED
    BY <1>4, <2>2
<1>8. QED
  BY <1>1, <1>3, <1>5, <1>6, <1>7 DEF n

-----------------------------------------------------------------------------
(* Types.                                                                  *)

TypesInv == walk \in Walks /\ IInv /\ TypeOK

LEMMA InnerPagesLeadOn ==
  ASSUME TypesInv, stage = "descend", next \in Pages, page(next).entries # <<>>
  PROVE  Child(page(next).entries) \in Int
<1>1. /\ page(next).entries \in Seq([key : Int, page : Int])
      /\ walk.key \in Int
  BY LinksAssumption DEF TypesInv, IInv, StagesAreApart, page
<1>2. page(next).entries[1].page \in Int
  BY <1>1, EntriesAreTyped
<1>3. ChildBehind(page(next).entries, walk.key) \in Int
  <2>1. PICK j \in DOMAIN page(next).entries :
               ChildBehind(page(next).entries, walk.key) = page(next).entries[j].page
    BY <1>1, ChildIsBetween
  <2>2. QED
    BY <1>1, <2>1, EntriesAreTyped
<1>4. QED
  BY <1>2, <1>3 DEF Child

\* What Finish ends a walk with.
Endings ==
  {"ok", "null", "not found", "malformed", "truncated", "cycle", "too long", "too deep"}

LEMMA FinishKeepsTypes ==
  ASSUME TypesInv, NEW o \in Endings, Finish(o)
  PROVE  TypeOK'
BY DEF TypesInv, TypeOK, Finish, Endings

LEMMA ChainStepsKeepTypes ==
  ASSUME TypesInv, StartChain \/ FollowChain
  PROVE  TypeOK'
<1>1. CASE \E o \in Endings : Finish(o)
  BY <1>1, FinishKeepsTypes
<1>2. ASSUME next \in Pages, walk.kind \in ChainKinds PROVE Successor(next) \in Int
  BY <1>2, LinksAssumption DEF TypesInv, Successor, page
<1>3. CASE /\ InFile(next)
           /\ stage' = "chain"
           /\ read' = <<next>>
           /\ next' = Successor(next)
           /\ UNCHANGED <<walk, depth, outcome>>
           /\ StartChain
  <2>1. next \in Pages /\ walk.kind \in ChainKinds /\ stage = "start"
    BY <1>3 DEF InFile, StartChain
  <2>2. read' \in Seq(Pages)
    BY <1>3, <2>1
  <2>3. QED
    BY <1>2, <1>3, <2>1, <2>2 DEF TypesInv, TypeOK
<1>4. CASE FollowChain /\ TakePage
  <2>1. next \in Pages /\ walk.kind \in ChainKinds /\ stage = "chain"
    BY <1>4 DEF TakePage, InFile, FollowChain, TypesInv, IInv, StagesAreApart
  <2>2. read' \in Seq(Pages)
    BY <1>4, <2>1 DEF TakePage, TypesInv, TypeOK
  <2>3. QED
    BY <1>2, <1>4, <2>1, <2>2 DEF TakePage, TypesInv, TypeOK
<1>5. CASE StartChain
  BY <1>1, <1>3, <1>5 DEF StartChain, Endings
<1>6. CASE FollowChain
  BY <1>1, <1>4, <1>6 DEF FollowChain, ChainRefused, ChainEnds, Endings
<1>7. QED
  BY <1>5, <1>6

LEMMA TreeStepsKeepTypes ==
  ASSUME TypesInv, StartDescent \/ Descend \/ ScanLeaf
  PROVE  TypeOK'
<1>1. CASE \E o \in Endings : Finish(o)
  BY <1>1, FinishKeepsTypes
<1>2. CASE StartDescent
  BY <1>2 DEF StartDescent, TypesInv, TypeOK
<1>3. CASE Descend /\ DescendOneLevel
  <2>1. next' \in Int
    BY <1>3, InnerPagesLeadOn DEF Descend, DescendOneLevel, InFile
  <2>2. depth' \in 0..MaxTreeDepth
    <3>1. depth \in 0..MaxTreeDepth /\ ~(depth >= MaxTreeDepth) /\ depth' = depth + 1
      BY <1>3 DEF DescendOneLevel, TooDeep, Deeper, TypesInv, TypeOK
    <3>2. QED
      BY <3>1
  <2>3. QED
    BY <1>3, <2>1, <2>2 DEF DescendOneLevel, TypesInv, TypeOK
<1>4. CASE Descend /\ SearchLeaf
  <2>1. read' \in Seq(Pages)
    <3>1. next \in Pages /\ read' = <<next>>
      BY <1>4 DEF SearchLeaf, AtLeaf, InFile
    <3>2. QED
      BY <3>1
  <2>2. QED
    BY <1>4, <2>1 DEF SearchLeaf, TypesInv, TypeOK
<1>5. CASE Descend /\ FirstLeaf
  BY <1>5 DEF Descend, FirstLeaf, TypesInv, TypeOK
<1>6. CASE /\ stage = "leaves" /\ InFile(next)
           /\ read' = Append(read, next)
           /\ next' = page(next).right
           /\ UNCHANGED <<walk, stage, depth, outcome>>
  <2>1. next \in Pages /\ walk.kind \in TreeKinds
    BY <1>6 DEF InFile, TypesInv, IInv, StagesAreApart, TreeKinds
  <2>2. next' \in Int
    BY <1>6, <2>1, LinksAssumption DEF page, TypesInv
  <2>3. QED
    BY <1>6, <2>1, <2>2 DEF TypesInv, TypeOK
<1>7. CASE Descend
  BY <1>1, <1>3, <1>4, <1>5, <1>7 DEF Descend, DescentRefused, Endings
<1>8. CASE ScanLeaf
  BY <1>1, <1>6, <1>8 DEF ScanLeaf, Endings
<1>9. QED
  BY <1>2, <1>7, <1>8

LEMMA StepsKeepTypes == TypesInv /\ [Next]_vars => TypesInv'
<1> SUFFICES ASSUME TypesInv, [Next]_vars PROVE TypesInv'
  OBVIOUS
<1>1. IInv'
  BY StepsKeepIInv DEF TypesInv
<1>2. CASE Step
  <2>1. TypeOK'
    BY <1>2, ChainStepsKeepTypes, TreeStepsKeepTypes DEF Step
  <2>2. walk' = walk
    BY <1>2 DEF Step, StartChain, FollowChain, ChainRefused, TakePage, StartDescent, Descend,
                DescentRefused, DescendOneLevel, SearchLeaf, FirstLeaf, ScanLeaf, Finish
  <2>3. QED
    BY <1>1, <2>1, <2>2 DEF TypesInv
<1>3. CASE UNCHANGED vars
  BY <1>1, <1>3 DEF vars, TypesInv, TypeOK
<1>4. QED
  BY <1>2, <1>3 DEF Next, Done

LEMMA TypesAlways == Spec => []TypesInv
<1>1. Init => TypesInv
  <2>1. Init => IInv
    BY InitEstablishesIInv
  <2>2. Init => TypeOK /\ walk \in Walks
    BY LinksAssumption DEF Init, TypeOK
  <2>3. QED
    BY <2>1, <2>2 DEF TypesInv
<1>2. QED
  BY <1>1, StepsKeepTypes, PTL DEF Spec

\* Whatever a file's links say, the number a walk goes on with is one, it descends no
\* deeper than it may, and it has an outcome as soon as it is done.
THEOREM WalksAreTyped == Spec => []TypeOK
<1>1. TypesInv => TypeOK
  BY DEF TypesInv
<1>2. QED
  BY <1>1, TypesAlways, PTL

-----------------------------------------------------------------------------
(* Searches and scans of well-formed trees.                                *)

\* On the way down the page to read leads to all leaves a key can be on: those before
\* them hold no larger key than the first of them does, and the next one larger keys.
Framed(p) ==
  /\ 1 < walk.tree[p].from => LeastKey(walk, walk.tree[p].from) <= walk.key
  /\ walk.tree[p].to < Len(walk.leaves) => walk.key < LeastKey(walk, walk.tree[p].to + 1)

OnTheWayDown ==
  /\ next \in DOMAIN walk.tree
  /\ depth + walk.tree[next].height < MaxTreeDepth
  /\ walk.kind = "scan" => walk.tree[next].from = 1
  /\ walk.kind = "search" => Framed(next)

LeavesInTurn ==
  /\ Len(read) <= Len(walk.leaves)
  /\ \A i \in 1..Len(read) : read[i] = walk.leaves[i]
  /\ next = IF Len(read) = Len(walk.leaves) THEN -1 ELSE walk.leaves[Len(read) + 1]

TreesInv ==
  /\ TypesInv
  /\ walk.kind \in TreeKinds /\ walk.sound =>
       /\ stage = "start" => depth = 0 /\ OnTheWayDown
       /\ stage = "descend" => OnTheWayDown
       /\ stage = "leaves" => LeavesInTurn
  /\ SearchesAgreeWithScans
  /\ ScansAreComplete

\* What a child leads to.
LEMMA ChildLeadsOn ==
  ASSUME NEW w \in Walks, WellFormed(w), NEW p \in DOMAIN w.tree, ~w.pages[p].leaf,
         w.pages[p].entries \in Seq([key : Int, page : Int]),
         NEW j \in DOMAIN w.pages[p].entries,
         NEW c, c = w.pages[p].entries[j].page
  PROVE  /\ c \in DOMAIN w.tree
         /\ w.tree[c].height < w.tree[p].height
         /\ j = 1 => w.tree[c].from = w.tree[p].from
         /\ 1 < j => w.pages[p].entries[j].key = LeastKey(w, w.tree[c].from)
         /\ j = Len(w.pages[p].entries) => w.tree[c].to = w.tree[p].to
         /\ j < Len(w.pages[p].entries) =>
              w.pages[p].entries[j + 1].key = LeastKey(w, w.tree[c].to + 1)
<1> DEFINE e == w.pages[p].entries
<1>1. Len(e) \in Nat /\ j \in 1..Len(e)
  BY EntriesAreTyped
<1>2. LeadsToItsLeaves(w, p)
  BY DEF WellFormed
<1>3. /\ w.tree[e[1].page].from = w.tree[p].from
      /\ w.tree[e[Len(e)].page].to = w.tree[p].to
      /\ \A i \in DOMAIN e : e[i].page \in DOMAIN w.tree /\ w.tree[e[i].page].height < w.tree[p].height
      /\ \A i \in 1..Len(e) - 1 :
           /\ w.tree[e[i + 1].page].from = w.tree[e[i].page].to + 1
           /\ e[i + 1].key = LeastKey(w, w.tree[e[i + 1].page].from)
  BY <1>2 DEF LeadsToItsLeaves
<1>4. c = e[j].page
  OBVIOUS
<1>5. 1 < j => e[j].key = LeastKey(w, w.tree[c].from)
  <2>1. SUFFICES ASSUME 1 < j PROVE e[j].key = LeastKey(w, w.tree[c].from)
    OBVIOUS
  <2>2. j - 1 \in 1..Len(e) - 1 /\ (j - 1) + 1 = j
    BY <1>1, <2>1, SMTT(60)
  <2> HIDE DEF e
  <2>3. QED
    BY <1>3, <1>4, <2>2
<1>6. j < Len(e) => e[j + 1].key = LeastKey(w, w.tree[c].to + 1)
  <2>1. SUFFICES ASSUME j < Len(e) PROVE e[j + 1].key = LeastKey(w, w.tree[c].to + 1)
    OBVIOUS
  <2>2. j \in 1..Len(e) - 1
    BY <1>1, <2>1
  <2> HIDE DEF e
  <2>3. QED
    BY <1>3, <1>4, <2>2
<1>7. QED
  BY <1>3, <1>5, <1>6

\* The child a descent for the key goes to is framed as its parent was.
LEMMA DescentStaysFramed ==
  ASSUME NEW w \in Walks, w = walk, WellFormed(w), NEW p \in DOMAIN w.tree, ~w.pages[p].leaf,
         w.pages[p].entries \in Seq([key : Int, page : Int]), w.pages[p].entries # <<>>,
         w.key \in Int, Framed(p)
  PROVE  Framed(ChildBehind(w.pages[p].entries, w.key))
<1> DEFINE e == w.pages[p].entries
           c == ChildBehind(e, w.key)
<1>1. PICK j \in DOMAIN e : /\ c = e[j].page
                            /\ 1 < j => e[j].key <= w.key
                            /\ j < Len(e) => w.key < e[j + 1].key
  BY ChildIsBetween
<1>2. Len(e) \in Nat /\ j \in 1..Len(e)
  BY EntriesAreTyped
<1>3. /\ c \in DOMAIN w.tree
      /\ j = 1 => w.tree[c].from = w.tree[p].from
      /\ 1 < j => e[j].key = LeastKey(w, w.tree[c].from)
      /\ j = Len(e) => w.tree[c].to = w.tree[p].to
      /\ j < Len(e) => e[j + 1].key = LeastKey(w, w.tree[c].to + 1)
  <2> HIDE DEF c
  <2>1. c = w.pages[p].entries[j].page
    BY <1>1
  <2>2. w \in Walks /\ WellFormed(w) /\ p \in DOMAIN w.tree /\ ~w.pages[p].leaf
    OBVIOUS
  <2>3. e \in Seq([key : Int, page : Int]) /\ j \in DOMAIN e /\ e = w.pages[p].entries
    OBVIOUS
  <2> HIDE DEF e
  <2>4. c \in DOMAIN w.tree
    BY ONLY <2>1, <2>2, <2>3, ChildLeadsOn
  <2>5. /\ j = 1 => w.tree[c].from = w.tree[p].from
        /\ j = Len(e) => w.tree[c].to = w.tree[p].to
    BY ONLY <2>1, <2>2, <2>3, ChildLeadsOn
  <2>6. 1 < j => e[j].key = LeastKey(w, w.tree[c].from)
    BY ONLY <2>1, <2>2, <2>3, ChildLeadsOn
  <2>7. j < Len(e) => e[j + 1].key = LeastKey(w, w.tree[c].to + 1)
    BY ONLY <2>1, <2>2, <2>3, ChildLeadsOn
  <2>8. QED
    BY <2>4, <2>5, <2>6, <2>7
<1> HIDE DEF e, c
<1>4. 1 < w.tree[c].from => LeastKey(w, w.tree[c].from) <= w.key
  BY <1>1, <1>2, <1>3 DEF Framed
<1>5. w.tree[c].to < Len(w.leaves) => w.key < LeastKey(w, w.tree[c].to + 1)
  BY <1>1, <1>2, <1>3 DEF Framed
<1>6. Framed(c)
  BY <1>4, <1>5 DEF Framed
<1>7. QED
  BY <1>6 DEF c, e

\* A search in a leaf that is in order finds a key that is there, and no other.
LEMMA LeafSearchIsExact ==
  ASSUME NEW entries \in Seq([key : Int, page : Int]), NEW key \in Int,
         \A k, l \in DOMAIN entries : k <= l => entries[k].key <= entries[l].key
  PROVE  InLeaf(entries, key) <=> \E k \in DOMAIN entries : entries[k].key = key
<1> DEFINE n == Len(entries)
           at == Bisect(NotBelow(entries, key), n)
<1>1. n \in Nat /\ DOMAIN entries = 1..n /\ \A i \in 1..n : entries[i].key \in Int
  BY EntriesAreTyped
<1>2. /\ at \in 0..n
      /\ at < n => at \in NotBelow(entries, key)
      /\ 0 < at => at - 1 \notin NotBelow(entries, key)
  BY <1>1, BisectTurns
<1>3. \A i \in 0..n - 1 : i \in NotBelow(entries, key) <=> key <= entries[i + 1].key
  BY <1>1 DEF NotBelow
<1>4. InLeaf(entries, key) <=> (at < n /\ entries[at + 1].key = key)
  BY DEF InLeaf
<1> HIDE DEF n, at
<1>5. ASSUME at < n, entries[at + 1].key = key
      PROVE  \E k \in DOMAIN entries : entries[k].key = key
  BY <1>1, <1>2, <1>5
<1>6. ASSUME NEW k \in 1..n, entries[k].key = key
      PROVE  at < n /\ entries[at + 1].key = key
  <2>1. at < k
    <3>1. SUFFICES ASSUME k <= at PROVE FALSE
      BY <1>1, <1>2
    <3>2. at \in 1..n /\ at - 1 \in 0..n - 1 /\ (at - 1) + 1 = at /\ 0 < at
      BY <1>1, <1>2, <3>1
    <3>3. ~(key <= entries[at].key)
      BY <1>2, <1>3, <3>2
    <3>4. entries[k].key <= entries[at].key
      BY <1>1, <3>1, <3>2
    <3>5. QED
      BY <1>6, <3>3, <3>4
  <2>2. at \in 0..n - 1 /\ at + 1 \in 1..n /\ at + 1 <= k
    BY <1>1, <1>2, <2>1
  <2>3. key <= entries[at + 1].key
    <3>1. at < n
      BY <1>1, <2>2
    <3>2. QED
      BY <1>2, <1>3, <2>2, <3>1
  <2>4. entries[at + 1].key <= entries[k].key
    BY <1>1, <2>2
  <2>5. QED
    BY <1>1, <1>6, <2>2, <2>3, <2>4
<1>7. QED
  BY <1>1, <1>4, <1>5, <1>6

\* What is known of a well-formed tree's leaves.
LEMMA LeavesAreSorted ==
  ASSUME NEW w \in Walks, w.kind \in TreeKinds, WellFormed(w)
  PROVE  /\ Len(w.leaves) \in Nat /\ DOMAIN w.leaves = 1..Len(w.leaves) /\ 0 < Len(w.leaves)
         /\ \A i \in 1..Len(w.leaves) :
              /\ w.leaves[i] \in Pages
              /\ Content(w, i) \in Seq([key : Int, page : Int])
              /\ 1 \in DOMAIN Content(w, i)
              /\ \A k \in DOMAIN Content(w, i) : Content(w, i)[k].key \in Int
         /\ \A i, j \in 1..Len(w.leaves) :
              \A k \in DOMAIN Content(w, i), l \in DOMAIN Content(w, j) :
                i < j \/ (i = j /\ k <= l) => Content(w, i)[k].key <= Content(w, j)[l].key
<1>1. /\ w.leaves \in Seq(Pages) /\ w.leaves # <<>>
      /\ \A i \in DOMAIN w.leaves :
           /\ Content(w, i) # <<>>
           /\ \A j \in i..Len(w.leaves) :
                \A k \in DOMAIN Content(w, i), l \in DOMAIN Content(w, j) :
                  i < j \/ k <= l => Content(w, i)[k].key <= Content(w, j)[l].key
  BY DEF WellFormed, LeavesInOrder
<1>2. Len(w.leaves) \in Nat /\ DOMAIN w.leaves = 1..Len(w.leaves) /\ 0 < Len(w.leaves)
  BY <1>1
<1>3. \A i \in 1..Len(w.leaves) : w.leaves[i] \in Pages
  BY <1>1
<1>4. \A i \in 1..Len(w.leaves) : Content(w, i) \in Seq([key : Int, page : Int])
  BY <1>3, LinksAssumption DEF Content
<1>5. ASSUME NEW i \in 1..Len(w.leaves)
      PROVE  1 \in DOMAIN Content(w, i) /\ \A k \in DOMAIN Content(w, i) : Content(w, i)[k].key \in Int
  <2>1. Content(w, i) # <<>>
    BY <1>1, <1>2
  <2>2. QED
    BY <1>4, <2>1, EntriesAreTyped
<1>6. ASSUME NEW i \in 1..Len(w.leaves), NEW j \in 1..Len(w.leaves),
             NEW k \in DOMAIN Content(w, i), NEW l \in DOMAIN Content(w, j),
             i < j \/ (i = j /\ k <= l)
      PROVE  Content(w, i)[k].key <= Content(w, j)[l].key
  <2>1. j \in i..Len(w.leaves) /\ i \in DOMAIN w.leaves
    BY <1>2, <1>6
  <2>2. QED
    BY <1>1, <1>6, <2>1
<1>7. QED
  BY <1>2, <1>3, <1>4, <1>5, <1>6

\* If the key is anywhere, it is on the leaf the descent for it ends at.
LEMMA DescentEndsWhereKeyIs ==
  ASSUME NEW w \in Walks, w = walk, w.kind \in TreeKinds, WellFormed(w),
         NEW i \in 1..Len(w.leaves), w.key \in Int,
         1 < i => LeastKey(w, i) <= w.key,
         i < Len(w.leaves) => w.key < LeastKey(w, i + 1)
  PROVE  w.key \in KeysAlong <=> \E k \in DOMAIN Content(w, i) : Content(w, i)[k].key = w.key
<1> DEFINE L == Len(w.leaves)
           On(j) == \E k \in DOMAIN Content(w, j) : Content(w, j)[k].key = w.key
<1>1. /\ L \in Nat /\ DOMAIN w.leaves = 1..L
      /\ \A j \in 1..L : /\ Content(w, j) \in Seq([key : Int, page : Int])
                         /\ 1 \in DOMAIN Content(w, j)
                         /\ \A k \in DOMAIN Content(w, j) : Content(w, j)[k].key \in Int
      /\ \A j, m \in 1..L :
           \A k \in DOMAIN Content(w, j), l \in DOMAIN Content(w, m) :
             j < m \/ (j = m /\ k <= l) => Content(w, j)[k].key <= Content(w, m)[l].key
  BY LeavesAreSorted
<1>2. w.key \in KeysAlong <=> \E j \in 1..L : On(j)
  <2>1. \A j \in 1..L : ToSet(Content(w, j)) = {Content(w, j)[k] : k \in DOMAIN Content(w, j)}
    BY DEF ToSet
  <2>2. ToSet(w.leaves) = {w.leaves[j] : j \in 1..L}
    BY <1>1 DEF ToSet
  <2>3. KeysAlong = UNION {{e.key : e \in ToSet(Content(w, j))} : j \in 1..L}
    BY <2>2 DEF KeysAlong, page, Content
  <2> HIDE DEF L
  <2>4. QED
    BY <2>1, <2>3
<1>3. ASSUME NEW j \in 1..L, NEW k \in DOMAIN Content(w, j), Content(w, j)[k].key = w.key
      PROVE  On(i)
  <2>1. CASE i < j
    <3>1. i + 1 \in 1..L /\ 1 \in DOMAIN Content(w, i + 1) /\ i < L
      <4>1. i + 1 \in 1..L /\ i < L
        <5> HIDE DEF L
        <5> QED BY ONLY <1>1, <2>1, i \in 1..L, j \in 1..L
      <4>2. QED
        BY <1>1, <4>1
    <3>2. LeastKey(w, i + 1) <= Content(w, j)[k].key
      <4>1. CASE i + 1 < j
        BY <1>1, <3>1, <4>1 DEF LeastKey
      <4>2. CASE i + 1 = j
        <5>1. k \in 1..Len(Content(w, j))
          BY <1>1, EntriesAreTyped
        <5>2. 1 <= k
          BY <5>1
        <5>3. QED
          BY <1>1, <3>1, <4>2, <5>2 DEF LeastKey
      <4>3. QED
        BY <2>1, <4>1, <4>2
    <3>3. w.key < LeastKey(w, i + 1) /\ LeastKey(w, i + 1) \in Int
      BY <1>1, <3>1 DEF LeastKey
    <3>4. QED
      BY <1>3, <3>2, <3>3
  <2>2. CASE j < i
    <3>1. 1 < i /\ 1 \in DOMAIN Content(w, i) /\ LeastKey(w, i) \in Int
      BY <1>1, <2>2 DEF LeastKey
    <3>2. Content(w, j)[k].key <= LeastKey(w, i)
      BY <1>1, <2>2, <3>1 DEF LeastKey
    <3>3. LeastKey(w, i) <= w.key
      BY <3>1
    <3>4. LeastKey(w, i) = w.key
      BY <1>3, <3>1, <3>2, <3>3
    <3>5. QED
      BY <3>1, <3>4 DEF LeastKey
  <2>3. CASE j = i
    BY <1>3, <2>3
  <2>4. QED
    BY <1>1, <2>1, <2>2, <2>3
<1>4. QED
  BY <1>2, <1>3

\* The walk is one in a well-formed tree.
InSoundTree == walk.kind \in TreeKinds /\ walk.sound

LEMMA SoundTreeFacts ==
  ASSUME TypesInv, InSoundTree
  PROVE  /\ walk \in Walks /\ WellFormed(walk) /\ walk.key \in Int
         /\ \A p \in Pages : page(p).entries \in Seq([key : Int, page : Int])
         /\ \A p \in DOMAIN walk.tree :
              /\ p \in Pages /\ walk.tree[p].height \in Nat
              /\ walk.tree[p].from \in 1..Len(walk.leaves)
              /\ page(p).leaf =>
                   walk.tree[p].to = walk.tree[p].from /\ walk.leaves[walk.tree[p].from] = p
              /\ ~page(p).leaf => page(p).entries # <<>>
<1>1. walk \in Walks /\ WellFormed(walk) /\ walk.key \in Int
  BY LinksAssumption DEF TypesInv, InSoundTree
<1>2. \A p \in Pages : page(p).entries \in Seq([key : Int, page : Int])
  BY <1>1, LinksAssumption DEF InSoundTree, page
<1>3. DOMAIN walk.leaves = 1..Len(walk.leaves)
  BY <1>1, LeavesAreSorted DEF InSoundTree
<1>4. ASSUME NEW p \in DOMAIN walk.tree
      PROVE  /\ p \in Pages /\ walk.tree[p].height \in Nat
             /\ walk.tree[p].from \in 1..Len(walk.leaves)
             /\ page(p).leaf =>
                  walk.tree[p].to = walk.tree[p].from /\ walk.leaves[walk.tree[p].from] = p
             /\ ~page(p).leaf => page(p).entries # <<>>
  <2>1. /\ p \in Pages
        /\ walk.tree[p] \in [from : DOMAIN walk.leaves, to : DOMAIN walk.leaves, height : Nat]
        /\ walk.pages[p].leaf =>
             walk.tree[p].to = walk.tree[p].from /\ walk.leaves[walk.tree[p].from] = p
        /\ ~walk.pages[p].leaf => LeadsToItsLeaves(walk, p)
    BY <1>1 DEF WellFormed
  <2>2. LeadsToItsLeaves(walk, p) => page(p).entries # <<>>
    BY DEF LeadsToItsLeaves, page
  <2>3. QED
    BY <1>3, <2>1, <2>2 DEF page
<1>5. QED
  BY <1>1, <1>2, <1>4

\* A walk in such a tree goes on down it to a page the tree has.
LEMMA DescentStaysInTree ==
  ASSUME TypesInv, InSoundTree, stage = "descend", OnTheWayDown, ~page(next).leaf
  PROVE  LET c == Child(page(next).entries)
         IN  /\ c \in DOMAIN walk.tree
             /\ walk.tree[c].height < walk.tree[next].height
             /\ walk.kind = "scan" => walk.tree[c].from = 1
             /\ walk.kind = "search" => Framed(c)
<1> DEFINE e == page(next).entries
           c == Child(e)
<1>1. /\ walk \in Walks /\ WellFormed(walk) /\ walk.key \in Int
      /\ next \in DOMAIN walk.tree /\ ~walk.pages[next].leaf
      /\ e \in Seq([key : Int, page : Int]) /\ e # <<>> /\ e = walk.pages[next].entries
  BY SoundTreeFacts DEF OnTheWayDown, page
<1>2. Len(e) \in Nat /\ 0 < Len(e) /\ DOMAIN e = 1..Len(e)
  BY <1>1, EntriesAreTyped
<1> HIDE DEF e
<1>3. CASE walk.kind = "scan"
  <2>1. 1 \in DOMAIN e /\ c = e[1].page
    BY <1>2, <1>3 DEF Child
  <2> HIDE DEF c
  <2>2. /\ c \in DOMAIN walk.tree /\ walk.tree[c].height < walk.tree[next].height
        /\ walk.tree[c].from = walk.tree[next].from
    BY ONLY <1>1, <2>1, ChildLeadsOn
  <2>3. QED
    BY <1>3, <2>2 DEF OnTheWayDown, c, e
<1>4. CASE walk.kind # "scan"
  <2>1. c = ChildBehind(e, walk.key) /\ walk.kind = "search"
    BY <1>4 DEF Child, InSoundTree, TreeKinds
  <2>2. PICK j \in DOMAIN e : c = e[j].page
    BY ONLY <1>1, <2>1, ChildIsBetween
  <2> HIDE DEF c
  <2>3. c \in DOMAIN walk.tree /\ walk.tree[c].height < walk.tree[next].height
    BY ONLY <1>1, <2>2, ChildLeadsOn
  <2>4. Framed(next)
    BY <2>1 DEF OnTheWayDown
  <2>5. Framed(c)
    BY ONLY <1>1, <2>1, <2>4, DescentStaysFramed
  <2>6. QED
    BY <1>4, <2>3, <2>5 DEF c, e
<1>5. QED
  BY <1>3, <1>4

\* What a step in a well-formed tree has to keep.
SoundProgress ==
  /\ stage = "start" => depth = 0 /\ OnTheWayDown
  /\ stage = "descend" => OnTheWayDown
  /\ stage = "leaves" => LeavesInTurn
  /\ SearchesAgreeWithScans
  /\ ScansAreComplete

LEMMA DescentProgresses ==
  ASSUME TreesInv, InSoundTree, StartDescent \/ Descend
  PROVE  SoundProgress'
<1>1. /\ next \in DOMAIN walk.tree /\ next \in Pages /\ depth + walk.tree[next].height < MaxTreeDepth
      /\ OnTheWayDown /\ depth \in Nat /\ walk.tree[next].height \in Nat
      /\ page(next).entries \in Seq([key : Int, page : Int])
      /\ page(next).leaf =>
           walk.tree[next].to = walk.tree[next].from /\ walk.leaves[walk.tree[next].from] = next
      /\ ~page(next).leaf => page(next).entries # <<>>
      /\ walk.tree[next].from \in 1..Len(walk.leaves)
  <2>1. OnTheWayDown
    BY DEF TreesInv, InSoundTree, StartDescent, Descend
  <2>2. TypesInv /\ depth \in Nat
    <3>1. TypesInv /\ depth \in 0..MaxTreeDepth
      BY DEF TreesInv, TypesInv, TypeOK
    <3>2. QED
      BY <3>1
  <2>3. next \in DOMAIN walk.tree /\ depth + walk.tree[next].height < MaxTreeDepth
    BY <2>1 DEF OnTheWayDown
  <2>4. QED
    BY <2>1, <2>2, <2>3, SoundTreeFacts
<1>2. ~TooDeep /\ InFile(next)
  BY <1>1 DEF TooDeep, InFile
<1>3. CASE StartDescent
  <2>1. stage' = "descend" /\ UNCHANGED <<walk, next, depth, read, outcome>>
    BY <1>3 DEF StartDescent
  <2>2. OnTheWayDown'
    BY <1>1, <2>1 DEF OnTheWayDown, Framed, LeastKey, Content
  <2>3. QED
    BY <2>1, <2>2 DEF SoundProgress, SearchesAgreeWithScans, ScansAreComplete
<1>4. CASE Descend /\ DescendOneLevel
  <2> DEFINE c == Child(page(next).entries)
  <2>1. /\ c \in DOMAIN walk.tree
        /\ walk.tree[c].height < walk.tree[next].height
        /\ walk.kind = "scan" => walk.tree[c].from = 1
        /\ walk.kind = "search" => Framed(c)
    BY <1>1, <1>4, DescentStaysInTree DEF Descend, DescendOneLevel, TreesInv
  <2>2. /\ next' = c /\ depth' = depth + 1 /\ stage' = "descend" /\ walk' = walk
    BY <1>4 DEF Descend, DescendOneLevel, Deeper
  <2> HIDE DEF c
  <2>3. walk.tree[c].height \in Nat
    BY <2>1, SoundTreeFacts DEF TreesInv
  <2>4. depth' + walk.tree[c].height < MaxTreeDepth
    BY <1>1, <2>1, <2>2, <2>3
  <2>5. OnTheWayDown'
    BY <2>1, <2>2, <2>4 DEF OnTheWayDown, Framed, LeastKey, Content
  <2>6. QED
    BY <2>2, <2>5 DEF SoundProgress, SearchesAgreeWithScans, ScansAreComplete
<1>5. CASE Descend /\ SearchLeaf
  <2> DEFINE i == walk.tree[next].from
  <2>1. walk.kind = "search" /\ page(next).leaf
    BY <1>5 DEF SearchLeaf, AtLeaf
  <2>2. Content(walk, i) = page(next).entries /\ i \in 1..Len(walk.leaves)
    BY <1>1, <2>1 DEF Content, page
  <2>3. walk \in Walks /\ WellFormed(walk) /\ walk.key \in Int /\ walk.kind \in TreeKinds
    BY SoundTreeFacts DEF TreesInv, InSoundTree
  <2>4. /\ 1 < i => LeastKey(walk, i) <= walk.key
        /\ i < Len(walk.leaves) => walk.key < LeastKey(walk, i + 1)
    BY <1>1, <2>1 DEF OnTheWayDown, Framed
  <2>5. \A k, l \in DOMAIN Content(walk, i) :
          k <= l => Content(walk, i)[k].key <= Content(walk, i)[l].key
    BY <2>2, <2>3, LeavesAreSorted
  <2> HIDE DEF i
  <2>6. walk.key \in KeysAlong <=> \E k \in DOMAIN Content(walk, i) : Content(walk, i)[k].key = walk.key
    BY ONLY <2>2, <2>3, <2>4, DescentEndsWhereKeyIs
  <2>7. InLeaf(Content(walk, i), walk.key)
          <=> \E k \in DOMAIN Content(walk, i) : Content(walk, i)[k].key = walk.key
    <3>1. Content(walk, i) \in Seq([key : Int, page : Int])
      BY <1>1, <2>2
    <3>2. QED
      BY ONLY <2>3, <2>5, <3>1, LeafSearchIsExact
  <2>8. /\ outcome' = IF InLeaf(page(next).entries, walk.key) THEN "ok" ELSE "no key"
        /\ stage' = "done" /\ walk' = walk
    BY <1>5 DEF SearchLeaf
  <2>9. outcome' = IF walk.key \in KeysAlong THEN "ok" ELSE "no key"
    BY <2>2, <2>6, <2>7, <2>8
  <2>10. KeysAlong' = KeysAlong
    BY <2>8 DEF KeysAlong, page
  <2>11. QED
    BY <2>1, <2>8, <2>9, <2>10 DEF SoundProgress, SearchesAgreeWithScans, ScansAreComplete
<1>6. CASE Descend /\ FirstLeaf
  <2>1. /\ walk.kind = "scan" /\ page(next).leaf /\ stage = "descend"
        /\ stage' = "leaves" /\ UNCHANGED <<walk, next, depth, read, outcome>>
    BY <1>6 DEF Descend, FirstLeaf, AtLeaf
  <2>2. read = <<>>
    BY <2>1 DEF TreesInv, TypesInv, IInv, NothingReadYet
  <2>3. walk.tree[next].from = 1 /\ walk.leaves[1] = next
    BY <1>1, <2>1 DEF OnTheWayDown
  <2>4. Len(walk.leaves) \in Nat /\ 0 < Len(walk.leaves)
    BY SoundTreeFacts, LeavesAreSorted DEF TreesInv, InSoundTree
  <2>5. LeavesInTurn
    BY <2>2, <2>3, <2>4 DEF LeavesInTurn
  <2>6. LeavesInTurn'
    BY <2>1, <2>5 DEF LeavesInTurn
  <2>7. QED
    BY <2>1, <2>6 DEF SoundProgress, SearchesAgreeWithScans, ScansAreComplete
<1>7. QED
  BY <1>1, <1>2, <1>3, <1>4, <1>5, <1>6 DEF Descend, DescentRefused

LEMMA ScanProgresses ==
  ASSUME TreesInv, InSoundTree, ScanLeaf
  PROVE  SoundProgress'
<1> DEFINE L == Len(walk.leaves)
           r == Len(read)
<1>1. /\ LeavesInTurn /\ walk.kind = "scan" /\ stage = "leaves" /\ read \in Seq(Pages)
  BY DEF TreesInv, TypesInv, IInv, StagesAreApart, InSoundTree, ScanLeaf
<1>2. /\ L \in Nat /\ DOMAIN walk.leaves = 1..L /\ 0 < L
      /\ \A i \in 1..L : walk.leaves[i] \in Pages
  BY SoundTreeFacts, LeavesAreSorted DEF TreesInv, InSoundTree
<1>3. /\ walk.leaves \in Seq(Pages)
      /\ \A i, j \in 1..L : walk.leaves[i] = walk.leaves[j] => i = j
      /\ \A i \in 1..L :
           /\ page(walk.leaves[i]).leaf
           /\ page(walk.leaves[i]).right = IF i = L THEN -1 ELSE walk.leaves[i + 1]
  BY <1>2, SoundTreeFacts DEF TreesInv, WellFormed, LeavesInOrder, page
<1>4. /\ r \in Nat /\ DOMAIN read = 1..r /\ r <= L
      /\ \A i \in 1..r : read[i] = walk.leaves[i]
      /\ next = IF r = L THEN -1 ELSE walk.leaves[r + 1]
  BY <1>1 DEF LeavesInTurn
<1>5. walk' = walk /\ (stage' = "done" \/ stage' = "leaves")
  BY <1>1 DEF ScanLeaf, Finish
<1>6. CASE r = L
  <2>1. read = walk.leaves
    BY <1>1, <1>2, <1>3, <1>4, <1>6
  <2>2. next < 0 /\ ~(next >= 0) /\ ~InFile(next)
    BY <1>4, <1>6 DEF InFile, Pages
  <2>3. Finish("ok")
    BY <2>2 DEF ScanLeaf
  <2>4. QED
    BY <1>1, <2>1, <2>3 DEF Finish, SoundProgress, SearchesAgreeWithScans, ScansAreComplete
<1>7. CASE r # L
  <2>1. /\ r + 1 \in 1..L /\ next = walk.leaves[r + 1] /\ next \in Pages
        /\ page(next).leaf
        /\ page(next).right = IF r + 1 = L THEN -1 ELSE walk.leaves[(r + 1) + 1]
    BY <1>2, <1>3, <1>4, <1>7
  <2>2. ~Seen(next)
    <3>1. SUFFICES ASSUME NEW i \in 1..r, read[i] = next PROVE FALSE
      BY <1>4 DEF Seen, ToSet
    <3>2. i \in 1..L /\ walk.leaves[i] = walk.leaves[r + 1]
      BY <1>2, <1>4, <2>1, <3>1
    <3>3. i = r + 1
      BY <1>3, <2>1, <3>2
    <3>4. QED
      BY <1>4, <3>3
  <2>3. ~(next < 0) /\ InFile(next)
    BY <2>1 DEF InFile, Pages
  <2>4. /\ read' = Append(read, next) /\ next' = page(next).right /\ stage' = stage
    BY <2>1, <2>2, <2>3 DEF ScanLeaf
  <2>5. /\ Len(read') = r + 1
        /\ \A i \in 1..r : read'[i] = read[i]
        /\ read'[r + 1] = next
    BY <1>1, <1>4, <2>1, <2>4
  <2>6. LeavesInTurn'
    <3>1. Len(read') <= L
      BY <1>2, <2>1, <2>5
    <3>2. \A i \in 1..r + 1 : read'[i] = walk.leaves[i]
      BY <1>4, <2>1, <2>5
    <3>3. next' = IF Len(read') = L THEN -1 ELSE walk.leaves[Len(read') + 1]
      BY <2>1, <2>4, <2>5
    <3>4. QED
      BY <1>5, <2>5, <3>1, <3>2, <3>3 DEF LeavesInTurn
  <2>7. QED
    BY <1>1, <2>4, <2>6 DEF SoundProgress, SearchesAgreeWithScans, ScansAreComplete
<1>8. QED
  BY <1>6, <1>7

LEMMA StepsKeepTrees == TreesInv /\ [Next]_vars => TreesInv'
<1> SUFFICES ASSUME TreesInv, [Next]_vars PROVE TreesInv'
  OBVIOUS
<1>1. TypesInv'
  BY StepsKeepTypes DEF TreesInv
<1>2. CASE Step
  <2>1. walk' = walk
    BY <1>2 DEF Step, StartChain, FollowChain, ChainRefused, TakePage, StartDescent, Descend,
                DescentRefused, DescendOneLevel, SearchLeaf, FirstLeaf, ScanLeaf, Finish
  <2>2. CASE InSoundTree
    <3>1. ~StartChain /\ ~FollowChain
      BY <2>2 DEF StartChain, FollowChain, TreesInv, TypesInv, IInv, StagesAreApart,
                  InSoundTree, ChainKinds, TreeKinds
    <3>2. SoundProgress'
      BY <1>2, <2>2, <3>1, DescentProgresses, ScanProgresses DEF Step
    <3>3. QED
      BY <1>1, <3>2 DEF SoundProgress, TreesInv
  <2>3. CASE ~InSoundTree
    BY <1>1, <2>1, <2>3 DEF InSoundTree, TreesInv, SearchesAgreeWithScans, ScansAreComplete, TreeKinds
  <2>4. QED
    BY <2>2, <2>3
<1>3. CASE UNCHANGED vars
  <2>1. OnTheWayDown' <=> OnTheWayDown
    BY <1>3 DEF vars, OnTheWayDown, Framed, LeastKey, Content
  <2>2. LeavesInTurn' <=> LeavesInTurn
    BY <1>3 DEF vars, LeavesInTurn
  <2>3. SearchesAgreeWithScans' /\ ScansAreComplete'
    BY <1>3 DEF vars, TreesInv, SearchesAgreeWithScans, ScansAreComplete, KeysAlong, page
  <2>4. QED
    BY <1>1, <1>3, <2>1, <2>2, <2>3 DEF vars, TreesInv
<1>4. QED
  BY <1>2, <1>3 DEF Next, Done

LEMMA TreesInvAlways == Spec => []TreesInv
<1>1. Init => TreesInv
  <2>1. SUFFICES ASSUME Init PROVE TreesInv
    OBVIOUS
  <2>2. TypesInv
    <3>1. IInv
      BY <2>1, InitEstablishesIInv
    <3>2. TypeOK /\ walk \in Walks
      BY <2>1, LinksAssumption DEF Init, TypeOK
    <3>3. QED
      BY <3>1, <3>2 DEF TypesInv
  <2>3. stage = "start" /\ depth = 0 /\ next = walk.first
    BY <2>1 DEF Init
  <2>4. ASSUME InSoundTree PROVE OnTheWayDown
    <3>1. WellFormed(walk) /\ \A p \in DOMAIN walk.tree : walk.tree[p].height \in Nat
      BY <2>2, <2>4, SoundTreeFacts
    <3>2. /\ next \in DOMAIN walk.tree /\ walk.tree[next].height < MaxTreeDepth
          /\ walk.tree[next].from = 1 /\ walk.tree[next].to = Len(walk.leaves)
      BY <2>3, <3>1 DEF WellFormed
    <3>3. Len(walk.leaves) \in Nat
      BY <2>2, <2>4, SoundTreeFacts, LeavesAreSorted DEF InSoundTree
    <3>4. depth + walk.tree[next].height < MaxTreeDepth
      BY <2>3, <3>1, <3>2
    <3>5. QED
      BY <3>2, <3>3, <3>4 DEF OnTheWayDown, Framed
  <2>5. QED
    BY <2>2, <2>3, <2>4 DEF TreesInv, InSoundTree, SearchesAgreeWithScans, ScansAreComplete
<1>2. QED
  BY <1>1, StepsKeepTrees, PTL DEF Spec

\* In any tree as the engine builds it, searchTree finds a key exactly if some leaf has
\* it: halving may look at the first separator, whose value means nothing, and equal
\* keys may be spread over several leaves.
THEOREM SearchesAreExact == Spec => []SearchesAgreeWithScans
<1>1. TreesInv => SearchesAgreeWithScans
  BY DEF TreesInv
<1>2. QED
  BY <1>1, TreesInvAlways, PTL

\* In any such tree scanLeaves returns the leaves from the first to the last, in order.
THEOREM ScansReadEveryLeaf == Spec => []ScansAreComplete
<1>1. TreesInv => ScansAreComplete
  BY DEF TreesInv
<1>2. QED
  BY <1>1, TreesInvAlways, PTL

-----------------------------------------------------------------------------
(* Chains that are whole.                                                  *)

PathStep(w, f, i) ==
  IF i = 1 THEN w.first ELSE IF InFile(f[i - 1]) THEN w.pages[f[i - 1]].next ELSE f[i - 1]

\* The page numbers met are determined one by one.
LEMMA PathIsFollowed ==
  ASSUME NEW w
  PROVE  Path(w) = [i \in 1..PageCount + 1 |-> PathStep(w, Path(w), i)]
<1> DEFINE Follows(f, n) == f = [i \in 1..n |-> PathStep(w, f, i)]
           Lengths == {n \in Nat : \E f : Follows(f, n)}
<1>1. 0 \in Lengths
  <2> DEFINE f == [i \in 1..0 |-> 0]
  <2>1. f = [i \in 1..0 |-> PathStep(w, f, i)]
    OBVIOUS
  <2>2. QED
    BY <2>1
<1>2. ASSUME NEW n \in Nat, n \in Lengths PROVE n + 1 \in Lengths
  <2>1. PICK f : Follows(f, n)
    BY <1>2
  <2> DEFINE g == [i \in 1..n + 1 |-> PathStep(w, f, i)]
  <2>2. ASSUME NEW i \in 1..n PROVE g[i] = f[i]
    <3>1. i \in 1..n + 1
      OBVIOUS
    <3>2. QED
      BY <2>1, <3>1
  <2>3. ASSUME NEW i \in 1..n + 1 PROVE PathStep(w, g, i) = PathStep(w, f, i)
    <3>1. i = 1 \/ i - 1 \in 1..n
      OBVIOUS
    <3>2. i = 1 \/ g[i - 1] = f[i - 1]
      BY <2>2, <3>1
    <3> HIDE DEF g
    <3>3. QED
      BY <3>2 DEF PathStep
  <2>4. Follows(g, n + 1)
    <3> HIDE DEF g
    <3>1. g = [i \in 1..n + 1 |-> PathStep(w, f, i)]
      BY DEF g
    <3>2. QED
      BY <2>3, <3>1
  <2>5. n + 1 \in Nat /\ \E h : Follows(h, n + 1)
    <3> HIDE DEF Follows, g
    <3> QED BY <2>4
  <2>6. QED
    BY <2>5
<1>3. PageCount + 1 \in Lengths
  <2>1. \A n \in Nat : n \in Lengths
    <3> HIDE DEF Lengths
    <3> QED BY <1>1, <1>2, NumbersByInduction
  <2>2. QED
    BY <2>1
<1>4. \E f : f = [i \in 1..PageCount + 1 |-> PathStep(w, f, i)]
  BY <1>3
<1> DEFINE p == CHOOSE f : f = [i \in 1..PageCount + 1 |-> PathStep(w, f, i)]
<1>5. p = [i \in 1..PageCount + 1 |-> PathStep(w, p, i)]
  BY <1>4, Zenon
<1>6. Path(w) = p
  BY DEF Path, PathStep
<1>7. QED
  BY <1>5, <1>6

\* Along a whole chain each page names the next, and no page comes twice.
LEMMA WholeChainFacts ==
  ASSUME NEW w, NEW n \in WholeLengths(w)
  PROVE  /\ n \in 1..PageCount
         /\ Path(w)[1] = w.first
         /\ \A i \in 1..n : /\ Path(w)[i] \in Pages
                            /\ w.pages[Path(w)[i]].header
                            /\ Path(w)[i + 1] = w.pages[Path(w)[i]].next
         /\ Path(w)[n + 1] < 0
         /\ \A i, j \in 1..n : Path(w)[i] = Path(w)[j] => i = j
<1> DEFINE P == Path(w)
<1>1. /\ n \in 1..PageCount
      /\ \A i \in 1..n : P[i] \in Pages /\ w.pages[P[i]].header
      /\ P[n + 1] < 0
  BY DEF WholeLengths, InFile
<1>2. \A i \in 1..PageCount + 1 : P[i] = PathStep(w, P, i)
  BY PathIsFollowed
<1> HIDE DEF P
<1>3. P[1] = w.first
  BY <1>2 DEF PathStep
<1>4. ASSUME NEW i \in 1..n PROVE P[i + 1] = w.pages[P[i]].next
  <2>1. i + 1 \in 1..PageCount + 1 /\ i + 1 # 1 /\ (i + 1) - 1 = i
    BY <1>1
  <2>2. P[i + 1] = PathStep(w, P, i + 1)
    BY <1>2, <2>1
  <2>3. InFile(P[i])
    BY <1>1 DEF InFile
  <2>4. QED
    BY <2>1, <2>2, <2>3 DEF PathStep
<1>5. ASSUME NEW i \in 1..n, NEW j \in 1..n, i < j, P[i] = P[j] PROVE FALSE
  <2> DEFINE G == {t \in Nat : j + t <= n + 1 => P[i + t] = P[j + t]}
  <2>1. 0 \in G
    BY <1>5
  <2>2. ASSUME NEW t \in Nat, t \in G PROVE t + 1 \in G
    <3>1. SUFFICES ASSUME j + (t + 1) <= n + 1 PROVE P[i + (t + 1)] = P[j + (t + 1)]
      BY <2>2
    <3>2. /\ i + t \in 1..n /\ j + t \in 1..n /\ j + t <= n + 1
          /\ i + (t + 1) = (i + t) + 1 /\ j + (t + 1) = (j + t) + 1
      BY <1>1, <1>5, <3>1
    <3>3. P[i + t] = P[j + t]
      BY <2>2, <3>2
    <3>4. P[(i + t) + 1] = w.pages[P[i + t]].next /\ P[(j + t) + 1] = w.pages[P[j + t]].next
      BY <1>4, <3>2
    <3>5. QED
      BY <3>2, <3>3, <3>4
  <2>3. (n + 1) - j \in G
    <3>1. (n + 1) - j \in Nat
      BY <1>1
    <3> HIDE DEF G
    <3>2. QED
      BY <2>1, <2>2, <3>1, NumbersByInduction
  <2>4. j + ((n + 1) - j) = n + 1 /\ i + ((n + 1) - j) \in 1..n
    BY <1>1, <1>5
  <2>5. P[i + ((n + 1) - j)] = P[n + 1]
    BY <1>1, <2>3, <2>4
  <2>6. P[n + 1] \in Pages
    BY <1>1, <2>4, <2>5
  <2>7. QED
    BY <1>1, <2>6 DEF Pages
<1>6. \A i, j \in 1..n : P[i] = P[j] => i = j
  <2>1. \A i, j \in 1..n : i < j \/ j < i \/ i = j
    BY <1>1
  <2>2. QED
    BY <1>5, <2>1
<1>7. QED
  BY <1>1, <1>3, <1>4, <1>6 DEF P

\* Pages of u units hold m units as soon as there are that many divided by u, rounded
\* up.
LEMMA PagesForUnits ==
  ASSUME NEW u \in Nat \ {0}, NEW m \in Nat, NEW k \in Nat
  PROVE  u * k < m <=> k < (m + u - 1) \div u
<1> DEFINE a == m + u - 1
           q == a \div u
<1>1. a \in Nat /\ q \in Nat /\ u * q <= a /\ a < u * q + u
  <2>1. a \in Nat
    OBVIOUS
  <2> HIDE DEF a
  <2>2. QED
    BY <2>1
<1>2. a = m + u - 1
  OBVIOUS
<1> HIDE DEF a, q
<1>3. ASSUME k < q PROVE u * k < m
  <2>1. PICK d \in Nat : q = k + 1 + d
    <3>1. q - k - 1 \in Nat /\ q = k + 1 + (q - k - 1)
      BY <1>1, <1>3
    <3>2. QED
      BY <3>1
  <2>2. u * q = u * k + u + u * d /\ u * k \in Nat /\ u * d \in Nat /\ u * q \in Nat
    BY <2>1
  <2>3. QED
    BY <1>1, <1>2, <2>2
<1>4. ASSUME q <= k PROVE m <= u * k
  <2>1. PICK d \in Nat : k = q + d
    <3>1. k - q \in Nat /\ k = q + (k - q)
      BY <1>1, <1>4
    <3>2. QED
      BY <3>1
  <2>2. u * k = u * q + u * d /\ u * k \in Nat /\ u * d \in Nat /\ u * q \in Nat
    BY <1>1, <2>1
  <2>3. QED
    BY <1>1, <1>2, <2>2
<1>5. u * k \in Nat
  OBVIOUS
<1>6. k < q <=> ~(q <= k)
  BY <1>1
<1>7. QED
  BY <1>3, <1>4, <1>5, <1>6 DEF a, q

\* In a chain that is whole, a page more is read as long as one is needed.
LEMMA MissingMeansNeeded ==
  ASSUME TypesInv, walk.kind \in ChainKinds, NEW n \in WholeLengths(walk),
         Len(read) \in 1..n
  PROVE  /\ PagesNeeded \in Nat /\ 1 <= PagesNeeded
         /\ walk.kind = "edit" => Missing /\ n <= PagesNeeded
         /\ walk.kind # "edit" => (Missing <=> Len(read) < PagesNeeded)
         /\ walk.kind # "edit" => (Got(read) >= walk.want <=> ~Missing)
<1>1. n \in 1..PageCount /\ Len(read) \in Nat /\ 1 <= Len(read) /\ PageCount \in Nat
  BY DEF WholeLengths
<1>2. CASE walk.kind = "edit"
  BY <1>1, <1>2 DEF PagesNeeded, Missing
<1>3. CASE walk.kind # "edit"
  <2> DEFINE m == walk.want + HeaderUnits
             q == (m + PageUnits - 1) \div PageUnits
  <2>1. HeaderUnits \in {0, 1} /\ walk.want \in Nat /\ m \in Nat
    BY LinksAssumption DEF TypesInv, HeaderUnits
  <2>2. PagesNeeded = Larger(1, q)
    BY <1>3 DEF PagesNeeded
  <2>3. PageUnits \in Nat \ {0}
    OBVIOUS
  <2>4. PageUnits * Len(read) < m <=> Len(read) < q
    <3> HIDE DEF m
    <3> QED BY <1>1, <2>1, <2>3, PagesForUnits
  <2>5. q \in Int
    <3> HIDE DEF m
    <3> QED BY <2>1, <2>3
  <2>6. PageUnits * Len(read) \in Int
    BY <1>1, <2>3
  <2>7. Missing <=> PageUnits * Len(read) - HeaderUnits < walk.want
    BY <1>3 DEF Missing, Got
  <2>8. Got(read) >= walk.want <=> ~Missing
    BY <1>3, <2>1, <2>6, <2>7 DEF Got
  <2>9. Missing <=> PageUnits * Len(read) < m
    BY <2>1, <2>6, <2>7
  <2> HIDE DEF q, m
  <2>10. PagesNeeded \in Nat /\ 1 <= PagesNeeded /\ (Len(read) < PagesNeeded <=> Len(read) < q)
    BY <1>1, <2>2, <2>5 DEF Larger
  <2>11. QED
    BY <1>3, <2>4, <2>8, <2>9, <2>10
<1>4. QED
  BY <1>2, <1>3

\* While a chain is followed its pages are taken from first to last, and no more of
\* them than are needed.
TakenFromFirst(n) ==
  /\ Len(read) \in 1..n
  /\ Len(read) <= PagesNeeded
  /\ \A i \in 1..Len(read) : read[i] = Path(walk)[i]
  /\ next = Path(walk)[Len(read) + 1]

\* What a chain that is whole for n pages comes to.
ReadWhole(n) ==
  LET k == Smaller(PagesNeeded, n)
  IN  \/ walk.kind = "blob" /\ (~page(walk.first).blob \/ SizeRefused)
      \/ k > MaxChainPages /\ outcome = "too long"
      \/ /\ k <= MaxChainPages
         /\ read = [i \in 1..k |-> Path(walk)[i]]
         /\ (k = PagesNeeded \/ walk.kind = "edit") => outcome = "ok"

ChainProgress ==
  walk.kind \in ChainKinds =>
    /\ stage = "start" => next = walk.first
    /\ stage = "chain" => \A n \in WholeLengths(walk) : TakenFromFirst(n)
    /\ stage = "done" /\ outcome # "null" => \A n \in WholeLengths(walk) : ReadWhole(n)

ChainsInv == TypesInv /\ ChainProgress

\* The page a page of a whole chain leads to.
LEMMA WholeChainGoesOn ==
  ASSUME TypesInv, walk.kind \in ChainKinds, NEW n \in WholeLengths(walk), NEW i \in 1..n
  PROVE  Successor(Path(walk)[i]) = Path(walk)[i + 1]
BY WholeChainFacts DEF Successor, page

LEMMA StartTakesTheFirst ==
  ASSUME ChainsInv, StartChain
  PROVE  ChainProgress'
<1>1. /\ stage = "start" /\ walk.kind \in ChainKinds /\ next = walk.first
  BY DEF StartChain, ChainsInv, ChainProgress
<1>2. CASE NullReference /\ Finish("null")
  BY <1>1, <1>2 DEF Finish, ChainProgress
<1>3. CASE /\ ~InFile(next) \/ (walk.kind = "blob" /\ BlobRefused)
           /\ Finish("not found")
  <2>1. walk' = walk /\ stage' = "done" /\ outcome' = "not found" /\ read' = read
    BY <1>3 DEF Finish
  <2>2. ASSUME NEW n \in WholeLengths(walk)
        PROVE  walk.kind = "blob" /\ (~page(walk.first).blob \/ SizeRefused)
    <3>1. 1 \in 1..n /\ Path(walk)[1] = walk.first /\ next \in Pages /\ page(next).header
      BY <1>1, WholeChainFacts DEF page
    <3>2. QED
      BY <1>1, <1>3, <3>1 DEF InFile, BlobRefused
  <2>3. ASSUME NEW n \in WholeLengths(walk) PROVE ReadWhole(n)'
    BY <2>1, <2>2, <2>3 DEF ReadWhole, page, SizeRefused
  <2>4. QED
    BY <2>1, <2>3 DEF ChainProgress
<1>4. CASE /\ InFile(next)
           /\ stage' = "chain"
           /\ read' = <<next>>
           /\ next' = Successor(next)
           /\ UNCHANGED <<walk, depth, outcome>>
  <2>1. ASSUME NEW n \in WholeLengths(walk) PROVE TakenFromFirst(n)'
    <3>1. n \in Nat /\ 1 \in 1..n /\ Path(walk)[1] = walk.first
      BY WholeChainFacts
    <3>2. next' = Path(walk)[1 + 1]
      BY <1>1, <1>4, <3>1, WholeChainGoesOn DEF ChainsInv
    <3>3. Len(read') = 1 /\ read'[1] = Path(walk)[1]
      BY <1>1, <1>4, <3>1
    <3>4. 1 <= PagesNeeded
      <4>1. CASE walk.kind = "edit"
        BY <4>1 DEF PagesNeeded
      <4>2. CASE walk.kind # "edit"
        <5>1. HeaderUnits \in {0, 1} /\ walk.want \in Nat /\ PageUnits \in Nat \ {0}
          BY <1>1, LinksAssumption DEF ChainsInv, TypesInv, HeaderUnits
        <5>2. (walk.want + HeaderUnits + PageUnits - 1) \div PageUnits \in Int
          BY <5>1
        <5>3. QED
          BY <4>2, <5>2 DEF PagesNeeded, Larger
      <4>3. QED
        BY <4>1, <4>2
    <3>5. PagesNeeded' = PagesNeeded
      BY <1>4 DEF PagesNeeded, HeaderUnits
    <3>6. QED
      BY <1>4, <3>1, <3>2, <3>3, <3>4, <3>5 DEF TakenFromFirst
  <2>2. QED
    BY <1>4, <2>1 DEF ChainProgress
<1>5. QED
  BY <1>2, <1>3, <1>4 DEF StartChain

LEMMA FollowingTakesTheRest ==
  ASSUME ChainsInv, FollowChain
  PROVE  ChainProgress'
<1> USE DEF ChainsInv
<1>1. /\ stage = "chain" /\ walk.kind \in ChainKinds /\ read \in Seq(Pages)
      /\ Len(read) <= MaxChainPages
      /\ \A n \in WholeLengths(walk) : TakenFromFirst(n)
  BY DEF FollowChain, TypesInv, IInv, StagesAreApart, ChainProgress
<1>2. walk' = walk /\ (stage' = "done" \/ stage' = "chain")
  BY <1>1 DEF FollowChain, ChainRefused, TakePage, Finish
<1>3. SUFFICES ASSUME NEW n \in WholeLengths(walk)
               PROVE  /\ stage' = "chain" => TakenFromFirst(n)'
                      /\ stage' = "done" /\ outcome' # "null" => ReadWhole(n)'
  BY <1>2 DEF ChainProgress
<1> DEFINE r == Len(read)
           P == Path(walk)
<1>4. /\ n \in 1..PageCount
      /\ \A i \in 1..n : P[i] \in Pages /\ walk.pages[P[i]].header
      /\ P[n + 1] < 0
      /\ \A i, j \in 1..n : P[i] = P[j] => i = j
  BY WholeChainFacts
<1>5. /\ r \in 1..n /\ r <= PagesNeeded /\ DOMAIN read = 1..r
      /\ \A i \in 1..r : read[i] = P[i]
      /\ next = P[r + 1]
  BY <1>1 DEF TakenFromFirst
<1>6. /\ PagesNeeded \in Nat /\ 1 <= PagesNeeded
      /\ walk.kind = "edit" => Missing /\ n <= PagesNeeded
      /\ walk.kind # "edit" => (Missing <=> r < PagesNeeded)
      /\ walk.kind # "edit" => (Got(read) >= walk.want <=> ~Missing)
  BY <1>1, <1>5, MissingMeansNeeded
<1>13. r \in Nat /\ n \in Nat /\ 1 <= r /\ r <= n
  BY <1>4, <1>5
<1>7. next >= 0 <=> r < n
  <2>1. ASSUME r < n PROVE next \in Pages
    BY <1>4, <1>5, <2>1
  <2>2. ASSUME ~(r < n) PROVE next < 0 /\ ~(next >= 0)
    <3>1. r = n
      <4> HIDE DEF r
      <4> QED BY <1>13, <2>2
    <3>2. next \in Int
      BY DEF TypesInv, TypeOK
    <3>3. QED
      BY <1>4, <1>5, <3>1, <3>2
  <2>3. QED
    BY <2>1, <2>2 DEF Pages
<1>8. r < n => next \in Pages /\ page(next).header
  BY <1>4, <1>5 DEF page
<1>9. PagesNeeded' = PagesNeeded /\ (SizeRefused <=> SizeRefused') /\ Path(walk)' = P
  BY <1>2 DEF PagesNeeded, HeaderUnits, SizeRefused
<1> HIDE DEF P, r
<1>10. CASE ~MoreToRead /\ Finish(ChainEnds)
  <2>1. /\ stage' = "done" /\ outcome' = ChainEnds /\ read' = read
    BY <1>10 DEF Finish
  <2>2. ~Missing \/ r = n
    BY <1>7, <1>10, <1>13 DEF MoreToRead
  <2>3. r = Smaller(PagesNeeded, n)
    BY <1>5, <1>6, <1>13, <2>2 DEF Smaller
  <2>4. read = [i \in 1..r |-> P[i]]
    BY <1>1, <1>5 DEF r
  <2>5. r = PagesNeeded \/ walk.kind = "edit" => ChainEnds = "ok"
    BY <1>5, <1>6, <1>13, <2>2 DEF ChainEnds
  <2>6. ReadWhole(n)'
    BY <1>1, <1>2, <1>9, <2>1, <2>3, <2>4, <2>5 DEF ReadWhole, r
  <2>7. QED
    BY <2>1, <2>6
<1>11. CASE MoreToRead
  <2>1. r < n /\ Missing
    BY <1>7, <1>11 DEF MoreToRead
  <2>2. next \in Pages /\ InFile(next) /\ page(next).header
    BY <1>8, <2>1 DEF InFile
  <2>3. ~Seen(next)
    <3>1. SUFFICES ASSUME NEW i \in 1..r, read[i] = next PROVE FALSE
      BY <1>5 DEF Seen, ToSet
    <3>2. i \in 1..n /\ r + 1 \in 1..n /\ P[i] = P[r + 1]
      BY <1>4, <1>5, <2>1, <3>1
    <3>3. i = r + 1
      BY <1>4, <3>2
    <3>4. QED
      BY <1>5, <3>3
  <2>4. r + 1 <= PagesNeeded /\ r + 1 <= n
    BY <1>5, <1>6, <1>13, <2>1
  <2>5. CASE TooLong
    <3>1. Finish("too long")
      BY <1>11, <2>2, <2>3, <2>5 DEF FollowChain, ChainRefused, TakePage
    <3>2. Smaller(PagesNeeded, n) > MaxChainPages
      BY <1>1, <1>6, <1>13, <2>4, <2>5 DEF TooLong, Smaller, r
    <3>3. QED
      BY <1>2, <1>9, <3>1, <3>2 DEF Finish, ReadWhole
  <2>6. CASE ~TooLong
    <3>1. TakePage
      BY <1>11, <2>2, <2>3, <2>6 DEF FollowChain, ChainRefused
    <3>2. read' = Append(read, next) /\ next' = Successor(next) /\ stage' = "chain"
      BY <1>1, <3>1 DEF TakePage
    <3>3. /\ Len(read') = r + 1
          /\ \A i \in 1..r : read'[i] = read[i]
          /\ read'[r + 1] = next
      BY <1>1, <1>5, <2>2, <3>2 DEF r
    <3>4. r + 1 \in 1..n
      BY <1>13, <2>1
    <3>5. next' = P[(r + 1) + 1]
      BY <1>1, <1>5, <3>2, <3>4, WholeChainGoesOn DEF P
    <3>6. \A i \in 1..r + 1 : read'[i] = P[i]
      BY <1>5, <3>3
    <3>7. TakenFromFirst(n)'
      BY <1>9, <2>4, <3>3, <3>4, <3>5, <3>6 DEF TakenFromFirst, P
    <3>8. QED
      BY <3>2, <3>7
  <2>7. QED
    BY <2>5, <2>6
<1>12. QED
  BY <1>10, <1>11 DEF FollowChain

LEMMA StepsKeepChains == ChainsInv /\ [Next]_vars => ChainsInv'
<1> SUFFICES ASSUME ChainsInv, [Next]_vars PROVE ChainsInv'
  OBVIOUS
<1>1. TypesInv'
  BY StepsKeepTypes DEF ChainsInv
<1>2. CASE StartChain \/ FollowChain
  BY <1>1, <1>2, StartTakesTheFirst, FollowingTakesTheRest DEF ChainsInv
<1>3. CASE StartDescent \/ Descend \/ ScanLeaf
  <2>1. walk.kind \notin ChainKinds /\ walk' = walk
    BY <1>3 DEF ChainsInv, TypesInv, IInv, StagesAreApart, ChainKinds, TreeKinds, StartDescent,
                Descend, DescentRefused, DescendOneLevel, SearchLeaf, FirstLeaf, ScanLeaf, Finish
  <2>2. QED
    BY <1>1, <2>1 DEF ChainsInv, ChainProgress
<1>4. CASE UNCHANGED vars
  <2>1. \A n : TakenFromFirst(n)' <=> TakenFromFirst(n)
    BY <1>4 DEF vars, TakenFromFirst, PagesNeeded, HeaderUnits
  <2>2. \A n : ReadWhole(n)' <=> ReadWhole(n)
    BY <1>4 DEF vars, ReadWhole, PagesNeeded, HeaderUnits, SizeRefused, page
  <2>3. QED
    BY <1>1, <1>4, <2>1, <2>2 DEF vars, ChainsInv, ChainProgress
<1>5. QED
  BY <1>2, <1>3, <1>4 DEF Next, Step, Done

\* A chain that is whole is read to where its data ends, and no page further, whichever
\* of the readers reads it; only a limit that it exceeds keeps it from being read.
THEOREM WholeChainsStayWhole == Spec => []WholeChainsAreRead
<1>1. Init => ChainsInv
  <2>1. Init => IInv
    BY InitEstablishesIInv
  <2>2. Init => TypeOK /\ walk \in Walks
    BY LinksAssumption DEF Init, TypeOK
  <2>3. Init => ChainProgress
    BY DEF Init, ChainProgress
  <2>4. QED
    BY <2>1, <2>2, <2>3 DEF ChainsInv, TypesInv
<1>2. ChainsInv => WholeChainsAreRead
  BY DEF ChainsInv, ChainProgress, WholeChainsAreRead, ReadWhole
<1>3. QED
  BY <1>1, <1>2, StepsKeepChains, PTL DEF Spec
=============================================================================
