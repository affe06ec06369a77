---------------------------- MODULE MCPageWalks ----------------------------
(* Every file of four pages as a chain, every tree of three pages, and the  *)
(* well-formed trees of two and three levels.                               *)
EXTENDS PageWalks

CONSTANTS ChainPages, TreePages

Keys == {-2, -1, 1}

Pad(f, default) == [p \in Pages |-> IF p \in DOMAIN f THEN f[p] ELSE default]

-----------------------------------------------------------------------------
(* Chains.  The last number is past the end of the file.                     *)
Links == {-1} \cup (0..ChainPages - 1) \cup {PageCount}

ChainPage == [header : {TRUE}, blob : {TRUE}, next : Links]
             \cup [header : {FALSE}, blob : {FALSE}, next : {2}]
Alone == [header |-> TRUE, blob |-> FALSE, next |-> -1]

Starts == (({"file", "edit"} \X {0}) \cup {<<"blob", 1>>}) \X {0, 1, 4, 6, 7}
OddStarts == {<<<<"blob", 0>>, 1>>, <<<<"blob", PageCount>>, 1>>, <<<<"blob", 1>>, PageCount * PageUnits + 1>>}
Items == {0, 1} \* only item 0 of page 0 is the null reference

Chains == [0..(ChainPages - 1) -> ChainPage]
ChainWalk(s, c, item) ==
  [kind |-> s[1][1], first |-> s[1][2], item |-> item, want |-> s[2], pages |-> Pad(c, Alone)]

ChainWalks ==
  {ChainWalk(s, c, 0) : s \in Starts, c \in Chains}
  \cup {ChainWalk(s, c, i) : s \in OddStarts, c \in {d \in Chains : d[0] = d[1]}, i \in Items}

-----------------------------------------------------------------------------
(* Trees that are anything.  Page p holds the key p.                         *)
TreeLinks == {-1} \cup (0..TreePages - 1) \cup {PageCount}
Targets == TreeLinks \ {-1}

Leaf(entries, right) == [leaf |-> TRUE, entries |-> entries, right |-> right]
Inner(entries) == [leaf |-> FALSE, entries |-> entries, right |-> -1]
To(key, child) == [key |-> key, page |-> child]

TreePage ==
  {Leaf(<<To(1, 0)>>, r) : r \in TreeLinks}
  \cup {Inner(e) : e \in {<<>>} \cup {<<To(1, c)>> : c \in Targets}
                         \cup {<<To(0, c), To(1, c + 1)>> : c \in {0, 1}}}

AnyTrees ==
  {[kind |-> k, first |-> 0, key |-> n, sound |-> FALSE,
    pages |-> Pad(t, Leaf(<<>>, -1))] :
     k \in TreeKinds, n \in {1}, t \in [0..(TreePages - 1) -> TreePage]}

-----------------------------------------------------------------------------
(* Trees as the engine builds them: the separator of a child is its smallest *)
(* key, except the first, which is 0 (docs/format/indexes.md).               *)
Sorted(s) == \A i, j \in DOMAIN s : i < j => s[i] <= s[j]
LeafKeys == {s \in UNION {[1..n -> Keys] : n \in 1..2} : Sorted(s)}
Entries(keys) == [i \in DOMAIN keys |-> To(keys[i], 9)]

Fan(a, b, c) ==
  << Inner(<<To(0, 1), To(b[1], 2), To(c[1], 3)>>),
     Leaf(Entries(a), 2), Leaf(Entries(b), 3), Leaf(Entries(c), -1) >>

\* The scan order differs from the page order.
Tall(a, b, c) ==
  << Inner(<<To(0, 1), To(c[1], 2)>>), Inner(<<To(0, 4), To(b[1], 3)>>), Inner(<<To(0, 5)>>),
     Leaf(Entries(b), 5), Leaf(Entries(a), 3), Leaf(Entries(c), -1) >>

FromZero(s) == [p \in 0..(Len(s) - 1) |-> s[p + 1]]
Below(from, to, height) == [from |-> from, to |-> to, height |-> height]

Shape(t, leaves, tree) ==
  [pages |-> Pad(FromZero(t), Inner(<<>>)), leaves |-> leaves, tree |-> FromZero(tree)]
FanShape(x) ==
  Shape(Fan(x[1], x[2], x[3]), <<1, 2, 3>>,
        <<Below(1, 3, 1), Below(1, 1, 0), Below(2, 2, 0), Below(3, 3, 0)>>)
TallShape(x) ==
  Shape(Tall(x[1], x[2], x[3]), <<4, 3, 5>>,
        <<Below(1, 3, 2), Below(1, 2, 1), Below(3, 3, 1), Below(2, 2, 0), Below(1, 1, 0), Below(3, 3, 0)>>)

Contents == {x \in LeafKeys \X LeafKeys \X LeafKeys : Sorted(x[1] \o x[2] \o x[3])}

SoundTrees ==
  {[kind |-> k, first |-> 0, key |-> n, sound |-> TRUE,
    pages |-> t.pages, leaves |-> t.leaves, tree |-> t.tree] :
     k \in TreeKinds, n \in Keys \cup {7},
     t \in {FanShape(x) : x \in Contents} \cup {TallShape(x) : x \in Contents}}

MCWalks == ChainWalks \cup AnyTrees \cup SoundTrees
=============================================================================
