------------------------------ MODULE PageWalks ------------------------------
(***************************************************************************)
(* The loops that follow page numbers through a file: the chain of an      *)
(* internal file (catalog.go), the chain of a BLOB (blob.go), the descent  *)
(* of an index tree and the scan along its leaves (index.go).  The links   *)
(* are read from the file and may say anything: name a page that does not  *)
(* exist, a page already read, or no page where one is needed.             *)
(*                                                                         *)
(* A step reads one page.  The file does not change under a walk.  Bytes   *)
(* are counted in units, of which a page carries PageUnits.                *)
(***************************************************************************)
EXTENDS Integers, Sequences, FiniteSets, SequencesExt

CONSTANTS
  PageCount,     \* pages of the file, numbered from 0
  PageUnits,     \* units of data on a page
  MaxChainPages, \* maxCatalogPages, maxBlobChainPages
  MaxTreeDepth,  \* maxTreeDepth
  Walks          \* the files and the walks on them that are looked at

ASSUME PageWalksAssumption ==
  /\ PageCount \in Nat \ {0}
  /\ PageUnits \in Nat \ {0, 1}
  /\ MaxChainPages \in Nat \ {0}
  /\ MaxTreeDepth \in Nat \ {0}

Pages == 0..PageCount - 1

(* A walk: its kind, the page it starts at, the units the file's header    *)
(* declares or the key that is searched for, and the pages of the file; a  *)
(* BLOB's reference names an item of the first page beside the page.  A    *)
(* page of a chain is [header, blob, next], a page of a tree               *)
(* [leaf, entries, right] with entries [key, page].  A walk in a tree says *)
(* whether the tree is sound; of a sound one `leaves` lists the leaves and *)
(* `tree` has, of each page, the first and the last of them below it and   *)
(* its height.                                                             *)
ChainKinds == {"file", "edit", "blob"}
TreeKinds == {"scan", "search"}

Content(w, i) == w.pages[w.leaves[i]].entries
LeastKey(w, i) == Content(w, i)[1].key

\* The leaves are linked in the order of their keys, and none is empty.
LeavesInOrder(w) ==
  /\ w.leaves \in Seq(Pages) /\ w.leaves # <<>>
  /\ \A i, j \in DOMAIN w.leaves : w.leaves[i] = w.leaves[j] => i = j
  /\ \A i \in DOMAIN w.leaves :
       /\ w.pages[w.leaves[i]].leaf
       /\ w.pages[w.leaves[i]].right = IF i = Len(w.leaves) THEN -1 ELSE w.leaves[i + 1]
       /\ Content(w, i) # <<>>
       /\ \A j \in i..Len(w.leaves) :
            \A k \in DOMAIN Content(w, i), l \in DOMAIN Content(w, j) :
              i < j \/ k <= l => Content(w, i)[k].key <= Content(w, j)[l].key

\* The children of a page divide its leaves.  The separator of a child is its
\* smallest key, but for the first, which has any (docs/format/indexes.md).
LeadsToItsLeaves(w, p) ==
  LET entries == w.pages[p].entries
  IN  /\ entries # <<>>
      /\ w.tree[entries[1].page].from = w.tree[p].from
      /\ w.tree[entries[Len(entries)].page].to = w.tree[p].to
      /\ \A i \in DOMAIN entries :
           /\ entries[i].page \in DOMAIN w.tree
           /\ w.tree[entries[i].page].height < w.tree[p].height
      /\ \A i \in 1..Len(entries) - 1 :
           /\ w.tree[entries[i + 1].page].from = w.tree[entries[i].page].to + 1
           /\ entries[i + 1].key = LeastKey(w, w.tree[entries[i + 1].page].from)

WellFormed(w) ==
  /\ LeavesInOrder(w)
  /\ DOMAIN w.tree \subseteq Pages
  /\ \A p \in DOMAIN w.tree :
       /\ w.tree[p] \in [from : DOMAIN w.leaves, to : DOMAIN w.leaves, height : Nat]
       /\ w.pages[p].leaf => w.tree[p].to = w.tree[p].from /\ w.leaves[w.tree[p].from] = p
       /\ ~w.pages[p].leaf => LeadsToItsLeaves(w, p)
  /\ w.first \in DOMAIN w.tree
  /\ w.tree[w.first].from = 1 /\ w.tree[w.first].to = Len(w.leaves)
  /\ w.tree[w.first].height < MaxTreeDepth

\* A link is any 32-bit number, and a header may declare any length.
ASSUME LinksAssumption ==
  \A w \in Walks :
    /\ w.kind \in ChainKinds \cup TreeKinds
    /\ w.first \in Int
    /\ w.kind \in ChainKinds => w.want \in Nat /\ \A p \in Pages : w.pages[p].next \in Int
    /\ w.kind = "blob" => w.item \in Nat
    /\ w.kind \in TreeKinds =>
         /\ w.key \in Int
         /\ w.sound => WellFormed(w)
         /\ \A p \in Pages : /\ w.pages[p].entries \in Seq([key : Int, page : Int])
                             /\ w.pages[p].right \in Int

VARIABLES
  walk,    \* one of Walks
  stage,   \* "start", "chain", "descend", "leaves" or "done"
  next,    \* the page to read next
  depth,   \* pages the descent has looked at
  read,    \* pages whose data was taken, in order
  outcome  \* "ok" or the reason of a refusal, once done

vars == <<walk, stage, next, depth, read, outcome>>

page(p) == walk.pages[p]
InFile(p) == p \in Pages

-----------------------------------------------------------------------------
Init ==
  /\ walk \in Walks
  /\ stage = "start"
  /\ next = walk.first
  /\ depth = 0
  /\ read = <<>>
  /\ outcome = "none"

Finish(o) ==
  /\ stage' = "done"
  /\ outcome' = o
  /\ UNCHANGED <<walk, next, depth, read>>

-----------------------------------------------------------------------------
(* Chains.  The BLOB header takes one unit of the first page.              *)

HeaderUnits == IF walk.kind = "blob" THEN 1 ELSE 0
Got(pages) == PageUnits * Len(pages) - HeaderUnits

\* nextPageNo: no successor without a header; an edit takes the bytes it finds.
Successor(p) == IF page(p).header \/ walk.kind = "edit" THEN page(p).next ELSE -1

\* BlobRef.IsNull
NullReference == walk.kind = "blob" /\ next = 0 /\ walk.item = 0

\* validateBlobHeader: more than the file could hold.
SizeRefused == walk.want > PageCount * PageUnits

\* ReadBlob, before any data is taken.
BlobRefused == ~page(next).header \/ ~page(next).blob \/ SizeRefused

StartChain ==
  /\ stage = "start"
  /\ walk.kind \in ChainKinds
  /\ IF NullReference THEN Finish("null")
     ELSE IF ~InFile(next) \/ (walk.kind = "blob" /\ BlobRefused) THEN Finish("not found")
     ELSE /\ stage' = "chain"
          /\ read' = <<next>>
          /\ next' = Successor(next)
          /\ UNCHANGED <<walk, depth, outcome>>

\* Only an edit wants the chain for its own sake.
MissingOrExact == walk.kind = "edit" \/ Got(read) <= walk.want
Missing == walk.kind = "edit" \/ Got(read) < walk.want
MoreToRead == Missing /\ next >= 0

SeenBefore(p) == p \in ToSet(Front(read))
Seen(p) == p \in ToSet(read)
TooLong == Len(read) >= MaxChainPages

ChainEndsUnchecked == "ok"

\* decompressInternalFile and the end of readBlobChain refuse a short chain;
\* blobPayload returns what one page has if nothing is chained to it.
ChainEnds ==
  IF walk.kind = "edit" \/ Got(read) >= walk.want THEN "ok"
  ELSE IF walk.kind = "blob" /\ Len(read) = 1 THEN "ok"
  ELSE "truncated"

ChainRefused ==
  \/ Seen(next) /\ Finish("cycle")
  \/ ~Seen(next) /\ TooLong /\ Finish("too long")
  \/ ~Seen(next) /\ ~TooLong /\ ~InFile(next) /\ Finish("not found")
  \/ /\ ~Seen(next) /\ ~TooLong /\ InFile(next)
     /\ walk.kind = "blob" /\ ~page(next).header
     /\ Finish("malformed")

TakePage ==
  /\ ~Seen(next) /\ ~TooLong /\ InFile(next)
  /\ walk.kind = "blob" => page(next).header
  /\ read' = Append(read, next)
  /\ next' = Successor(next)
  /\ UNCHANGED <<walk, stage, depth, outcome>>

FollowChain ==
  /\ stage = "chain"
  /\ \/ ~MoreToRead /\ Finish(ChainEnds)
     \/ MoreToRead /\ (ChainRefused \/ TakePage)

-----------------------------------------------------------------------------
(* Trees.                                                                  *)

\* sort.Search over the places 0..n-1: a place that is in the set, or n, with
\* none in the set just before it, found by halving.
Bisect(places, n) ==
  LET search[w \in (0..n) \X (0..n)] ==
        IF w[1] >= w[2] THEN w[1]
        ELSE LET mid == (w[1] + w[2]) \div 2
             IN  IF mid \in places THEN search[<<w[1], mid>>] ELSE search[<<mid + 1, w[2]>>]
  IN  search[<<0, n>>]

NotBelow(entries, key) == {i \in 0..Len(entries) - 1 : entries[i + 1].key >= key}
Above(entries, key) == {i \in 0..Len(entries) - 1 : entries[i + 1].key > key}

ChildAtOrBehind(entries, key) ==
  LET at == Bisect(NotBelow(entries, key), Len(entries))
  IN  entries[IF at = 0 THEN 1 ELSE at].page

\* childPageNo; places are counted from 0 there.
ChildBehind(entries, key) ==
  LET at == Bisect(Above(entries, key), Len(entries))
  IN  entries[IF at = 0 THEN 1 ELSE at].page

LastChild(entries) == Last(entries).page

\* findLeftmostLeaf takes the first child.
Child(entries) ==
  IF walk.kind = "scan" THEN entries[1].page ELSE ChildBehind(entries, walk.key)

\* findInLeaf
InLeaf(entries, key) ==
  LET at == Bisect(NotBelow(entries, key), Len(entries))
  IN  at < Len(entries) /\ entries[at + 1].key = key

\* The loop over maxTreeDepth counts the pages it looks at.
DeeperOnLeaves(d) == IF page(next).leaf THEN d + 1 ELSE d
Deeper(d) == d + 1
TooDeepLate == depth > MaxTreeDepth
TooDeep == depth >= MaxTreeDepth

StartDescent ==
  /\ stage = "start"
  /\ walk.kind \in TreeKinds
  /\ stage' = "descend"
  /\ UNCHANGED <<walk, next, depth, read, outcome>>

\* Both loops: what ends them before a leaf is reached.
DescentRefused ==
  \/ TooDeep /\ Finish("too deep")
  \/ ~TooDeep /\ ~InFile(next) /\ Finish("not found")
  \/ /\ ~TooDeep /\ InFile(next) /\ ~page(next).leaf /\ page(next).entries = <<>>
     /\ Finish("malformed")

DescendOneLevel ==
  /\ ~TooDeep /\ InFile(next) /\ ~page(next).leaf /\ page(next).entries # <<>>
  /\ next' = Child(page(next).entries)
  /\ depth' = Deeper(depth)
  /\ UNCHANGED <<walk, stage, read, outcome>>

AtLeaf == ~TooDeep /\ InFile(next) /\ page(next).leaf

\* The end of searchTree
SearchLeaf ==
  /\ AtLeaf /\ walk.kind = "search"
  /\ stage' = "done"
  /\ read' = <<next>>
  /\ outcome' = IF InLeaf(page(next).entries, walk.key) THEN "ok" ELSE "no key"
  /\ UNCHANGED <<walk, next, depth>>

\* The end of findLeftmostLeaf
FirstLeaf ==
  /\ AtLeaf /\ walk.kind = "scan"
  /\ stage' = "leaves"
  /\ UNCHANGED <<walk, next, depth, read, outcome>>

Descend ==
  /\ stage = "descend"
  /\ DescentRefused \/ DescendOneLevel \/ SearchLeaf \/ FirstLeaf

\* scanLeaves
ScanLeaf ==
  /\ stage = "leaves"
  /\ \/ next < 0 /\ Finish("ok")
     \/ next >= 0 /\ Seen(next) /\ Finish("cycle")
     \/ next >= 0 /\ ~Seen(next) /\ ~InFile(next) /\ Finish("not found")
     \/ /\ next >= 0 /\ ~Seen(next) /\ InFile(next) /\ ~page(next).leaf
        /\ Finish("malformed")
     \/ /\ ~Seen(next) /\ InFile(next) /\ page(next).leaf
        /\ read' = Append(read, next)
        /\ next' = page(next).right
        /\ UNCHANGED <<walk, stage, depth, outcome>>

Done == stage = "done" /\ UNCHANGED vars

Step == StartChain \/ FollowChain \/ StartDescent \/ Descend \/ ScanLeaf
Next == Step \/ Done

\* A walk is a loop of one goroutine: it goes on until it returns.
Spec == Init /\ [][Next]_vars /\ WF_vars(Step)

-----------------------------------------------------------------------------
(* What the walks are for.                                                 *)

TypeOK ==
  /\ walk.kind \in ChainKinds \cup TreeKinds
  /\ stage \in {"start", "chain", "descend", "leaves", "done"}
  /\ next \in Int
  /\ depth \in 0..MaxTreeDepth
  /\ read \in Seq(Pages)
  /\ outcome \in {"none", "ok", "null", "no key", "not found", "malformed", "truncated",
                 "cycle", "too long", "too deep"}
  /\ (outcome = "none") <=> (stage # "done")

(* Every walk returns, whatever the links of the file say: a cycle among   *)
(* children, along leaves or in a chain is left again.                     *)
WalksReturn == <>(stage = "done")

(* No walk takes the data of a page twice, and none but the leaf scan,     *)
(* which the length of the file bounds, takes more pages than its limit.   *)
NoPageReadTwice ==
  /\ \A i, j \in DOMAIN read : read[i] = read[j] => i = j
  /\ walk.kind \in ChainKinds => Len(read) <= MaxChainPages

\* The page numbers met from the first page on, as far as they are pages.
Path(w) ==
  LET f[i \in 1..(PageCount + 1)] ==
        IF i = 1 THEN w.first ELSE IF InFile(f[i - 1]) THEN w.pages[f[i - 1]].next ELSE f[i - 1]
  IN  f

\* Lengths n such that the first n of them are all of a chain that ends.
WholeLengths(w) ==
  {n \in 1..PageCount :
     /\ \A i \in 1..n : InFile(Path(w)[i]) /\ w.pages[Path(w)[i]].header
     /\ Path(w)[n + 1] < 0}

Smaller(a, b) == IF a < b THEN a ELSE b
Larger(a, b) == IF a < b THEN b ELSE a

\* The first page is read whatever is declared.
PagesNeeded == IF walk.kind = "edit" THEN PageCount
               ELSE Larger(1, (walk.want + HeaderUnits + PageUnits - 1) \div PageUnits)

(* A chain that is whole is read to where its data ends and no page        *)
(* further: the readers agree with each other on what a file holds, and    *)
(* the limits refuse no chain that is within them.                         *)
WholeChainsAreRead ==
  (stage = "done" /\ walk.kind \in ChainKinds /\ outcome # "null") =>
    \A n \in WholeLengths(walk) :
      LET k == Smaller(PagesNeeded, n)
      IN  \/ walk.kind = "blob" /\ (~page(walk.first).blob \/ SizeRefused)
          \/ k > MaxChainPages /\ outcome = "too long"
          \/ /\ k <= MaxChainPages
             /\ read = [i \in 1..k |-> Path(walk)[i]]
             /\ (k = PagesNeeded \/ walk.kind = "edit") => outcome = "ok"

(* What is delivered is all that was declared: a walk that ends well has   *)
(* the units the header asks for.  The one exception is a BLOB on a single *)
(* page that declares more than the page holds (blob.go, blobPayload).     *)
NothingIsMissing ==
  (outcome = "ok" /\ walk.kind \in {"file", "blob"}) =>
    \/ Got(read) >= walk.want
    \/ walk.kind = "blob" /\ Len(read) = 1 /\ Successor(read[1]) < 0

\* What a scan of the leaves holds.
KeysAlong == UNION {{e.key : e \in ToSet(page(p).entries)} : p \in ToSet(walk.leaves)}

(* In a well-formed tree the descent for a key ends on a leaf that holds   *)
(* it whenever any leaf does, wherever equal keys are spread and whatever  *)
(* stands in place of the first separator, which the format fills with a   *)
(* zero that need not be below its neighbour.                              *)
SearchesAgreeWithScans ==
  (stage = "done" /\ walk.kind = "search" /\ walk.sound) =>
    outcome = IF walk.key \in KeysAlong THEN "ok" ELSE "no key"

(* A scan of a well-formed tree passes every leaf once, in key order.      *)
ScansAreComplete ==
  (stage = "done" /\ walk.kind = "scan" /\ walk.sound) =>
    outcome = "ok" /\ read = walk.leaves
=============================================================================
