-------------------------- MODULE IndexLeafProofs --------------------------
(***************************************************************************)
(* Proofs about IndexLeaf, for any indexes over the two columns, records,  *)
(* truncation, capacity and number of changes: the order of keys is one,   *)
(* leaves spliced entry by entry stay sorted and complete, and the         *)
(* bisection finds what they hold.                                         *)
(***************************************************************************)
EXTENDS IndexLeaf, Extrema

\* A sequence is a function on 1 .. Len, and such a function a sequence.
LEMMA SequenceFacts ==
  ASSUME NEW S, NEW s \in Seq(S)
  PROVE  Len(s) \in Nat /\ DOMAIN s = 1 .. Len(s) /\ \A p \in 1 .. Len(s) : s[p] \in S
OBVIOUS

-----------------------------------------------------------------------------
(* The order of keys.                                                      *)

Signs == {-1, 0, 1}

\* a ends inside b, or differs from it first where it has the smaller number.
Under(a, b) ==
  \E m \in 1 .. Len(b) : /\ \A p \in 1 .. m - 1 : p <= Len(a) /\ a[p] = b[p]
                         /\ m <= Len(a) => a[m] < b[m]

\* What compares as smaller lies under the other.
LEMMA SequencesByFirstDifference ==
  ASSUME NEW a \in Seq(Nat), NEW b \in Seq(Nat)
  PROVE  LET c == CompareSequences(a, b)
         IN  /\ c \in Signs
             /\ c = -1 => Under(a, b)
             /\ c = 1 => Under(b, a)
             /\ c = 0 => a = b
<1> DEFINE differ == {p \in DOMAIN a \cap DOMAIN b : a[p] # b[p]}
<1>1. differ \subseteq Nat /\ Len(a) \in Nat /\ Len(b) \in Nat
      /\ DOMAIN a = 1 .. Len(a) /\ DOMAIN b = 1 .. Len(b)
  OBVIOUS
<1>2. CASE differ = {}
  <2>1. CompareSequences(a, b) = CompareNumbers(Len(a), Len(b))
    BY <1>2 DEF CompareSequences
  <2>2. \A p \in 1 .. Len(a) : p <= Len(b) => a[p] = b[p]
    BY <1>1, <1>2
  <2>3. CASE Len(a) < Len(b)
    <3>1. Under(a, b)
      <4> DEFINE m == Len(a) + 1
      <4>1. m \in 1 .. Len(b) /\ ~(m <= Len(a))
        BY <1>1, <2>3
      <4>2. \A p \in 1 .. m - 1 : p <= Len(a) /\ a[p] = b[p]
        BY <1>1, <2>2, <2>3
      <4> HIDE DEF m
      <4>3. QED
        BY ONLY <4>1, <4>2 DEF Under
    <3>2. QED
      BY <1>1, <2>1, <2>3, <3>1 DEF CompareNumbers, Signs
  <2>4. CASE Len(a) > Len(b)
    <3>1. Under(b, a)
      <4> DEFINE m == Len(b) + 1
      <4>1. m \in 1 .. Len(a) /\ ~(m <= Len(b))
        BY <1>1, <2>4
      <4>2. \A p \in 1 .. m - 1 : p <= Len(b) /\ b[p] = a[p]
        BY <1>1, <2>2, <2>4
      <4> HIDE DEF m
      <4>3. QED
        BY ONLY <4>1, <4>2 DEF Under
    <3>2. QED
      BY <1>1, <2>1, <2>4, <3>1 DEF CompareNumbers, Signs
  <2>5. CASE Len(a) = Len(b)
    <3>1. a = b
      BY <1>1, <2>2, <2>5
    <3>2. QED
      BY <1>1, <2>1, <2>5, <3>1 DEF CompareNumbers, Signs
  <2>6. Len(a) < Len(b) \/ Len(a) > Len(b) \/ Len(a) = Len(b)
    <3>1. \A m, n \in Nat : m < n \/ m > n \/ m = n
      OBVIOUS
    <3>2. QED
      BY ONLY <1>1, <3>1
  <2>7. QED
    BY <2>3, <2>4, <2>5, <2>6
<1>3. CASE differ # {}
  <2> DEFINE m == Min(differ)
  <2>1. m \in differ /\ \A p \in differ : m <= p
    <3> HIDE DEF differ
    <3> QED BY <1>1, <1>3, MinOfBounded
  <2>2. CompareSequences(a, b) = CompareNumbers(a[m], b[m])
    BY <1>3 DEF CompareSequences
  <2> HIDE DEF m
  <2>3. m \in 1 .. Len(a) /\ m \in 1 .. Len(b) /\ a[m] # b[m] /\ a[m] \in Nat /\ b[m] \in Nat
    BY <1>1, <2>1
  <2>4. \A p \in 1 .. m - 1 : p <= Len(a) /\ p <= Len(b) /\ a[p] = b[p]
    <3>1. ASSUME NEW p \in 1 .. m - 1 PROVE p <= Len(a) /\ p <= Len(b) /\ a[p] = b[p]
      <4>1. p \in DOMAIN a /\ p \in DOMAIN b /\ ~(m <= p)
        BY <1>1, <2>3
      <4>2. QED
        BY <1>1, <2>1, <4>1
    <3>2. QED
      BY <3>1
  <2>5. CASE a[m] < b[m]
    <3>1. Under(a, b)
      BY <2>3, <2>4, <2>5 DEF Under
    <3>2. QED
      BY <2>2, <2>3, <2>5, <3>1 DEF CompareNumbers, Signs
  <2>6. CASE a[m] > b[m]
    <3>1. b[m] < a[m]
      BY <2>3, <2>6
    <3>2. Under(b, a)
      BY <2>3, <2>4, <3>1 DEF Under
    <3>3. QED
      BY <2>2, <2>3, <3>1, <3>2 DEF CompareNumbers, Signs
  <2>7. QED
    BY <2>3, <2>5, <2>6
<1>4. QED
  BY <1>2, <1>3

\* Lying under is transitive, and nothing lies under itself.
LEMMA UnderIsAnOrder ==
  ASSUME NEW a \in Seq(Nat), NEW b \in Seq(Nat)
  PROVE  /\ ~Under(a, a)
         /\ \A c \in Seq(Nat) : Under(a, b) /\ Under(b, c) => Under(a, c)
<1>1. ~Under(a, a)
  <2>1. \A m \in 1 .. Len(a) : a[m] \in Nat /\ Len(a) \in Nat
    OBVIOUS
  <2>2. QED
    BY <2>1 DEF Under
<1>2. ASSUME NEW c \in Seq(Nat), Under(a, b), Under(b, c) PROVE Under(a, c)
  <2>1. PICK m \in 1 .. Len(b) : /\ \A p \in 1 .. m - 1 : p <= Len(a) /\ a[p] = b[p]
                                 /\ m <= Len(a) => a[m] < b[m]
    BY <1>2 DEF Under
  <2>2. PICK n \in 1 .. Len(c) : /\ \A p \in 1 .. n - 1 : p <= Len(b) /\ b[p] = c[p]
                                 /\ n <= Len(b) => b[n] < c[n]
    BY <1>2 DEF Under
  <2>3. /\ Len(a) \in Nat /\ Len(b) \in Nat /\ Len(c) \in Nat
        /\ m \in Nat /\ n \in Nat /\ m >= 1 /\ n >= 1 /\ m <= Len(b) /\ n <= Len(c)
    BY <2>1, <2>2
  <2>4. /\ \A p \in 1 .. Len(a) : a[p] \in Nat
        /\ \A p \in 1 .. Len(b) : b[p] \in Nat
        /\ \A p \in 1 .. Len(c) : c[p] \in Nat
    OBVIOUS
  <2>5. CASE m < n
    <3>1. m \in 1 .. n - 1 /\ m \in 1 .. Len(c)
      BY <2>3, <2>5
    <3>2. \A p \in 1 .. m - 1 : p <= Len(a) /\ a[p] = c[p]
      BY <2>1, <2>2, <2>3, <2>5
    <3>3. m <= Len(a) => a[m] < c[m]
      BY <2>1, <2>2, <3>1
    <3>4. QED
      BY <3>1, <3>2, <3>3 DEF Under
  <2>6. CASE n < m
    <3>1. n \in 1 .. m - 1
      BY <2>3, <2>6
    <3>2. \A p \in 1 .. n - 1 : p <= Len(a) /\ a[p] = c[p]
      BY <2>1, <2>2, <2>3, <2>6
    <3>3. n <= Len(a) => a[n] < c[n]
      BY <2>1, <2>2, <2>3, <3>1
    <3>4. QED
      BY <2>2, <3>2, <3>3 DEF Under
  <2>7. CASE n = m
    <3>1. \A p \in 1 .. n - 1 : p <= Len(a) /\ a[p] = c[p]
      BY <2>1, <2>2, <2>3, <2>7
    <3>2. n <= Len(a) => a[n] < c[n]
      <4>1. ASSUME n <= Len(a) PROVE a[n] < c[n]
        <5>1. n \in 1 .. Len(a) /\ n \in 1 .. Len(b) /\ n \in 1 .. Len(c)
          BY <2>3, <2>7, <4>1
        <5>2. a[n] < b[n] /\ b[n] < c[n]
          BY <2>1, <2>2, <2>3, <2>7, <4>1
        <5>3. a[n] \in Nat /\ b[n] \in Nat /\ c[n] \in Nat
          BY <2>4, <5>1
        <5>4. QED
          BY <5>2, <5>3
      <4>2. QED
        BY <4>1
    <3>3. QED
      BY <2>2, <3>1, <3>2 DEF Under
  <2>8. QED
    BY <2>3, <2>5, <2>6, <2>7
<1>3. QED
  BY <1>1, <1>2

\* CompareSequences is a total order: antisymmetric and transitive.
LEMMA SequencesAreOrdered ==
  ASSUME NEW a \in Seq(Nat), NEW b \in Seq(Nat)
  PROVE  /\ CompareSequences(a, b) \in Signs
         /\ CompareSequences(b, a) = 0 - CompareSequences(a, b)
         /\ \A c \in Seq(Nat) :
              CompareSequences(a, b) <= 0 /\ CompareSequences(b, c) <= 0
                => CompareSequences(a, c) <= 0
<1>1. \A x, y \in Seq(Nat) :
        /\ CompareSequences(x, y) \in Signs
        /\ CompareSequences(x, y) = -1 <=> Under(x, y)
        /\ CompareSequences(x, y) = 1 <=> Under(y, x)
  <2>1. ASSUME NEW x \in Seq(Nat), NEW y \in Seq(Nat)
        PROVE  /\ CompareSequences(x, y) \in Signs
               /\ CompareSequences(x, y) = -1 <=> Under(x, y)
               /\ CompareSequences(x, y) = 1 <=> Under(y, x)
    <3>1. ~Under(x, x) /\ ~(Under(x, y) /\ Under(y, x))
      BY UnderIsAnOrder
    <3>2. QED
      BY <3>1, SequencesByFirstDifference DEF Signs
  <2>2. QED
    BY <2>1
<1>2. CompareSequences(a, b) \in Signs /\ CompareSequences(b, a) = 0 - CompareSequences(a, b)
  BY <1>1 DEF Signs
<1>3. ASSUME NEW c \in Seq(Nat), CompareSequences(a, b) <= 0, CompareSequences(b, c) <= 0
      PROVE  CompareSequences(a, c) <= 0
  <2>1. a = b \/ Under(a, b)
    BY <1>3, SequencesByFirstDifference DEF Signs
  <2>2. b = c \/ Under(b, c)
    BY <1>3, SequencesByFirstDifference DEF Signs
  <2>3. a = c \/ Under(a, c)
    BY <2>1, <2>2, UnderIsAnOrder
  <2>4. ~Under(a, c) => ~Under(c, a)
    BY <2>3, UnderIsAnOrder
  <2>5. CompareSequences(a, c) # 1
    BY <1>1, <2>3, <2>4, UnderIsAnOrder
  <2>6. QED
    BY <1>1, <2>5 DEF Signs
<1>4. QED
  BY <1>2, <1>3

\* The letters and the cases of a string are strings of numbers as long as it.
LEMMA LettersAndCases ==
  ASSUME NEW t \in Seq(Nat)
  PROVE  Letters(t) \in Seq(Nat) /\ Cases(t) \in Seq(Nat)
<1>1. \A p \in DOMAIN t : t[p] \div 2 \in Nat /\ t[p] % 2 \in Nat
  <2>1. \A x \in Nat : x \div 2 \in Nat /\ x % 2 \in Nat
    OBVIOUS
  <2>2. \A p \in DOMAIN t : t[p] \in Nat
    OBVIOUS
  <2>3. QED
    BY <2>1, <2>2
<1>2. DOMAIN t = 1 .. Len(t) /\ Len(t) \in Nat
  OBVIOUS
<1>3. \A f : DOMAIN f = 1 .. Len(t) /\ (\A p \in 1 .. Len(t) : f[p] \in Nat)
              /\ f = [p \in DOMAIN f |-> f[p]] => f \in Seq(Nat)
  BY <1>2
<1>4. QED
  BY <1>1, <1>2, <1>3 DEF Letters, Cases

\* So is the order of names, letters before cases, a total order.
LEMMA TextsAreOrdered ==
  ASSUME NEW a \in Seq(Nat), NEW b \in Seq(Nat), NEW nocase \in BOOLEAN
  PROVE  /\ CompareTexts(a, b, nocase) \in Signs
         /\ CompareTexts(b, a, nocase) = 0 - CompareTexts(a, b, nocase)
         /\ \A c \in Seq(Nat) :
              CompareTexts(a, b, nocase) <= 0 /\ CompareTexts(b, c, nocase) <= 0
                => CompareTexts(a, c, nocase) <= 0
<1> DEFINE L(x, y) == CompareSequences(Letters(x), Letters(y))
           K(x, y) == CompareSequences(Cases(x), Cases(y))
<1>1. \A x, y \in Seq(Nat) :
        /\ L(x, y) \in Signs /\ L(y, x) = 0 - L(x, y)
        /\ \A z \in Seq(Nat) : L(x, y) <= 0 /\ L(y, z) <= 0 => L(x, z) <= 0
  BY LettersAndCases, SequencesAreOrdered
<1>2. \A x, y \in Seq(Nat) :
        /\ K(x, y) \in Signs /\ K(y, x) = 0 - K(x, y)
        /\ \A z \in Seq(Nat) : K(x, y) <= 0 /\ K(y, z) <= 0 => K(x, z) <= 0
  BY LettersAndCases, SequencesAreOrdered
<1>3. \A x, y \in Seq(Nat) :
        CompareTexts(x, y, nocase) = IF L(x, y) # 0 \/ nocase THEN L(x, y) ELSE K(x, y)
  BY DEF CompareTexts
<1> HIDE DEF L, K
<1>4. /\ CompareTexts(a, b, nocase) \in Signs
      /\ CompareTexts(b, a, nocase) = 0 - CompareTexts(a, b, nocase)
  BY <1>1, <1>2, <1>3 DEF Signs
<1>5. ASSUME NEW c \in Seq(Nat), CompareTexts(a, b, nocase) <= 0, CompareTexts(b, c, nocase) <= 0
      PROVE  CompareTexts(a, c, nocase) <= 0
  <2>1. L(a, b) <= 0 /\ L(b, c) <= 0
    <3>1. /\ L(a, b) # 0 => CompareTexts(a, b, nocase) = L(a, b)
          /\ L(b, c) # 0 => CompareTexts(b, c, nocase) = L(b, c)
      BY <1>3
    <3>2. L(a, b) \in Int /\ L(b, c) \in Int
      BY <1>1 DEF Signs
    <3>3. QED
      BY <1>5, <3>1, <3>2
  <2>2. L(a, c) <= 0
    BY <1>1, <2>1
  <2>3. CASE L(a, c) # 0 \/ nocase
    BY <1>3, <2>2, <2>3
  <2>4. CASE L(a, c) = 0 /\ ~nocase
    <3>1. L(c, a) <= 0
      BY <1>1, <2>4 DEF Signs
    <3>2. L(c, b) <= 0 /\ L(b, a) <= 0
      BY <1>1, <2>1, <3>1
    <3>3. L(a, b) = 0 /\ L(b, c) = 0
      <4>1. /\ L(a, b) \in Int /\ L(b, c) \in Int
            /\ L(b, a) = 0 - L(a, b) /\ L(c, b) = 0 - L(b, c)
        BY <1>1 DEF Signs
      <4>2. QED
        BY <2>1, <3>2, <4>1
    <3>4. K(a, b) <= 0 /\ K(b, c) <= 0
      BY <1>3, <1>5, <2>4, <3>3
    <3>5. QED
      BY <1>2, <1>3, <2>4, <3>4
  <2>5. QED
    BY <2>3, <2>4
<1>6. QED
  BY <1>4, <1>5

\* What a part of a key over column c may be.
Values(c) == IF c.column = "t" THEN Seq(Nat) \cup {Null} ELSE Int \cup {Null}

LEMMA PartsAreOrdered ==
  ASSUME NEW c \in [column : {"n", "t"}, nocase : BOOLEAN], NEW x \in Values(c), NEW y \in Values(c)
  PROVE  /\ CompareParts(x, y, c) \in Signs
         /\ CompareParts(y, x, c) = 0 - CompareParts(x, y, c)
         /\ \A z \in Values(c) :
              CompareParts(x, y, c) <= 0 /\ CompareParts(y, z, c) <= 0 => CompareParts(x, z, c) <= 0
<1>1. CASE c.column = "t"
  <2>1. c.nocase \in BOOLEAN /\ Values(c) = Seq(Nat) \cup {Null}
    BY <1>1 DEF Values
  <2>2. \A u, v \in Values(c) :
          CompareParts(u, v, c) = IF u = Null /\ v = Null THEN 0
                                  ELSE IF u = Null THEN -1
                                  ELSE IF v = Null THEN 1 ELSE CompareTexts(u, v, c.nocase)
    BY <1>1 DEF CompareParts
  <2>3. \A u, v \in Seq(Nat) :
          /\ CompareTexts(u, v, c.nocase) \in Signs
          /\ CompareTexts(v, u, c.nocase) = 0 - CompareTexts(u, v, c.nocase)
          /\ \A w \in Seq(Nat) : CompareTexts(u, v, c.nocase) <= 0 /\ CompareTexts(v, w, c.nocase) <= 0
                                   => CompareTexts(u, w, c.nocase) <= 0
    BY <2>1, TextsAreOrdered
  <2>4. /\ CompareParts(x, y, c) \in Signs
        /\ CompareParts(y, x, c) = 0 - CompareParts(x, y, c)
    <3>1. CASE x = Null \/ y = Null
      BY <2>2, <3>1 DEF Signs
    <3>2. CASE x # Null /\ y # Null
      BY <2>1, <2>2, <2>3, <3>2
    <3>3. QED
      BY <3>1, <3>2
  <2>5. ASSUME NEW z \in Values(c), CompareParts(x, y, c) <= 0, CompareParts(y, z, c) <= 0
        PROVE  CompareParts(x, z, c) <= 0
    <3>1. CASE x = Null
      BY <2>2, <3>1
    <3>2. CASE x # Null
      <4>1. y # Null /\ x \in Seq(Nat) /\ y \in Seq(Nat)
        BY <2>1, <2>2, <2>5, <3>2
      <4>2. z # Null /\ z \in Seq(Nat)
        BY <2>1, <2>2, <2>5, <4>1
      <4>3. CompareTexts(x, y, c.nocase) <= 0 /\ CompareTexts(y, z, c.nocase) <= 0
        BY <2>2, <2>5, <3>2, <4>1, <4>2
      <4>4. QED
        BY <2>2, <2>3, <3>2, <4>1, <4>2, <4>3
    <3>3. QED
      BY <3>1, <3>2
  <2>6. QED
    BY <2>4, <2>5
<1>2. CASE c.column # "t"
  <2>1. Values(c) = Int \cup {Null}
    BY <1>2 DEF Values
  <2>2. \A u, v \in Values(c) :
          CompareParts(u, v, c) = IF u = Null /\ v = Null THEN 0
                                  ELSE IF u = Null THEN -1
                                  ELSE IF v = Null THEN 1 ELSE CompareNumbers(u, v)
    BY <1>2 DEF CompareParts
  <2>3. \A u, v \in Int :
          /\ CompareNumbers(u, v) \in Signs
          /\ CompareNumbers(v, u) = 0 - CompareNumbers(u, v)
          /\ \A w \in Int : CompareNumbers(u, v) <= 0 /\ CompareNumbers(v, w) <= 0
                              => CompareNumbers(u, w) <= 0
    BY DEF CompareNumbers, Signs
  <2>4. /\ CompareParts(x, y, c) \in Signs
        /\ CompareParts(y, x, c) = 0 - CompareParts(x, y, c)
    <3>1. CASE x = Null \/ y = Null
      BY <2>2, <3>1 DEF Signs
    <3>2. CASE x # Null /\ y # Null
      BY <2>1, <2>2, <2>3, <3>2
    <3>3. QED
      BY <3>1, <3>2
  <2>5. ASSUME NEW z \in Values(c), CompareParts(x, y, c) <= 0, CompareParts(y, z, c) <= 0
        PROVE  CompareParts(x, z, c) <= 0
    <3>1. CASE x = Null
      BY <2>2, <3>1
    <3>2. CASE x # Null
      <4>1. y # Null /\ x \in Int /\ y \in Int
        BY <2>1, <2>2, <2>5, <3>2
      <4>2. z # Null /\ z \in Int
        BY <2>1, <2>2, <2>5, <4>1
      <4>3. CompareNumbers(x, y) <= 0 /\ CompareNumbers(y, z) <= 0
        BY <2>2, <2>5, <3>2, <4>1, <4>2
      <4>4. QED
        BY <2>2, <2>3, <3>2, <4>1, <4>2, <4>3
    <3>3. QED
      BY <3>1, <3>2
  <2>6. QED
    BY <2>4, <2>5
<1>3. QED
  BY <1>1, <1>2

\* The keys of index i.
IsKey(k, i) ==
  /\ DOMAIN k = DOMAIN Indexes[i].components
  /\ \A p \in DOMAIN k : k[p] \in Values(Indexes[i].components[p])

USE IndexLeafAssumption

LEMMA RowsHaveKeys ==
  ASSUME NEW i \in DOMAIN Indexes, NEW row \in Rows
  PROVE  IsKey(KeyOf(row, i), i)
<1> DEFINE cs == Indexes[i].components
<1>1. cs \in Seq([column : {"n", "t"}, nocase : BOOLEAN])
  OBVIOUS
<1>2. row.n \in Int \cup {Null} /\ row.t \in Seq(Nat) \cup {Null}
  OBVIOUS
<1>3. \A t \in Seq(Nat) : KeyText(t) \in Seq(Nat)
  BY DEF KeyText
<1>4. ASSUME NEW p \in DOMAIN cs PROVE KeyPart(row, cs[p]) \in Values(cs[p])
  <2>1. cs[p].column \in {"n", "t"}
    <3>1. cs[p] \in [column : {"n", "t"}, nocase : BOOLEAN]
      <4>1. p \in DOMAIN cs
        OBVIOUS
      <4> HIDE DEF cs
      <4>2. QED
        BY ONLY <1>1, <4>1, SequenceFacts, Zenon
    <3>2. QED
      BY <3>1
  <2> HIDE DEF cs
  <2>2. CASE cs[p].column = "t"
    BY <1>2, <1>3, <2>2 DEF KeyPart, Values
  <2>3. CASE cs[p].column = "n"
    BY <1>2, <2>3 DEF KeyPart, Values
  <2>4. QED
    BY <2>1, <2>2, <2>3
<1>5. KeyOf(row, i) = [p \in DOMAIN cs |-> KeyPart(row, cs[p])]
  BY DEF KeyOf
<1> HIDE DEF cs
<1>6. DOMAIN KeyOf(row, i) = DOMAIN cs /\ \A p \in DOMAIN cs : KeyOf(row, i)[p] \in Values(cs[p])
  BY <1>4, <1>5
<1>7. QED
  BY <1>6 DEF IsKey, cs

\* The comparison of two parts of keys of index i.
Part(a, b, i, p) == CompareParts(a[p], b[p], Indexes[i].components[p])

\* Two keys compare as their first parts that differ do.
LEMMA FirstPartDecides ==
  ASSUME NEW i \in DOMAIN Indexes, NEW a, NEW b
  PROVE  \/ /\ Compare(a, b, i) = 0
            /\ \A p \in DOMAIN Indexes[i].components : Part(a, b, i, p) = 0
         \/ \E m \in DOMAIN Indexes[i].components :
              /\ Part(a, b, i, m) # 0 /\ Compare(a, b, i) = Part(a, b, i, m)
              /\ \A p \in DOMAIN Indexes[i].components : p < m => Part(a, b, i, p) = 0
<1> DEFINE D == DOMAIN Indexes[i].components
           differ == {p \in D : Part(a, b, i, p) # 0}
<1>1. Compare(a, b, i) = IF differ = {} THEN 0 ELSE Part(a, b, i, Min(differ))
  BY DEF Compare, Part
<1>2. D \subseteq Nat
  BY SequenceFacts
<1>3. CASE differ = {}
  BY <1>1, <1>3
<1>4. CASE differ # {}
  <2>1. Min(differ) \in differ /\ \A p \in differ : Min(differ) <= p
    <3>1. differ \subseteq Nat
      BY <1>2
    <3> HIDE DEF differ
    <3>2. QED
      BY <1>4, <3>1, MinOfBounded
  <2>2. \A p \in D : p < Min(differ) => p \notin differ
    <3>1. Min(differ) \in Nat
      BY <1>2, <2>1
    <3> HIDE DEF differ
    <3>2. QED
      BY <1>2, <2>1, <3>1
  <2>3. QED
    BY <1>1, <1>4, <2>1, <2>2
<1>5. QED
  BY <1>3, <1>4

\* compareIndexKeys orders the keys of an index: antisymmetric and transitive, with
\* NULLs, case, truncation and several columns.
THEOREM KeysAreOrdered ==
  ASSUME NEW i \in DOMAIN Indexes, NEW a, NEW b, IsKey(a, i), IsKey(b, i)
  PROVE  /\ Compare(a, b, i) \in Signs
         /\ Compare(b, a, i) = 0 - Compare(a, b, i)
         /\ \A c : IsKey(c, i) /\ Compare(a, b, i) <= 0 /\ Compare(b, c, i) <= 0
                     => Compare(a, c, i) <= 0
<1> DEFINE D == DOMAIN Indexes[i].components
<1>1. D \subseteq Nat
  BY SequenceFacts
<1>2. \A x, y, z : IsKey(x, i) /\ IsKey(y, i) /\ IsKey(z, i) =>
        \A p \in D : /\ Part(x, y, i, p) \in Signs
                     /\ Part(y, x, i, p) = 0 - Part(x, y, i, p)
                     /\ Part(x, y, i, p) <= 0 /\ Part(y, z, i, p) <= 0 => Part(x, z, i, p) <= 0
  <2>1. ASSUME NEW x, NEW y, NEW z, IsKey(x, i), IsKey(y, i), IsKey(z, i), NEW p \in D
        PROVE  /\ Part(x, y, i, p) \in Signs
               /\ Part(y, x, i, p) = 0 - Part(x, y, i, p)
               /\ Part(x, y, i, p) <= 0 /\ Part(y, z, i, p) <= 0 => Part(x, z, i, p) <= 0
    <3> DEFINE c == Indexes[i].components[p]
    <3>1. c \in [column : {"n", "t"}, nocase : BOOLEAN]
      <4> DEFINE cs == Indexes[i].components
      <4>1. cs \in Seq([column : {"n", "t"}, nocase : BOOLEAN]) /\ p \in DOMAIN cs
        OBVIOUS
      <4> HIDE DEF cs
      <4>2. cs[p] \in [column : {"n", "t"}, nocase : BOOLEAN]
        BY ONLY <4>1, SequenceFacts, Zenon
      <4>3. QED
        BY <4>2 DEF cs
    <3>2. x[p] \in Values(c) /\ y[p] \in Values(c) /\ z[p] \in Values(c)
      BY <2>1 DEF IsKey
    <3> HIDE DEF c
    <3>3. /\ CompareParts(x[p], y[p], c) \in Signs
          /\ CompareParts(y[p], x[p], c) = 0 - CompareParts(x[p], y[p], c)
          /\ CompareParts(x[p], y[p], c) <= 0 /\ CompareParts(y[p], z[p], c) <= 0
               => CompareParts(x[p], z[p], c) <= 0
      BY <3>1, <3>2, PartsAreOrdered
    <3>4. QED
      BY <3>3 DEF Part, c
  <2>2. QED
    BY <2>1
\* Parts that do not differ may be put for one another.
<1>3. \A x, y, z : IsKey(x, i) /\ IsKey(y, i) /\ IsKey(z, i) =>
        \A p \in D : /\ Part(x, y, i, p) = 0 => Part(x, z, i, p) = Part(y, z, i, p)
                     /\ Part(y, z, i, p) = 0 => Part(x, z, i, p) = Part(x, y, i, p)
                     /\ Part(x, y, i, p) < 0 /\ Part(y, z, i, p) < 0 => Part(x, z, i, p) < 0
  <2>1. ASSUME NEW x, NEW y, NEW z, IsKey(x, i), IsKey(y, i), IsKey(z, i), NEW p \in D
        PROVE  /\ Part(x, y, i, p) = 0 => Part(x, z, i, p) = Part(y, z, i, p)
               /\ Part(y, z, i, p) = 0 => Part(x, z, i, p) = Part(x, y, i, p)
               /\ Part(x, y, i, p) < 0 /\ Part(y, z, i, p) < 0 => Part(x, z, i, p) < 0
    <3> DEFINE xy == Part(x, y, i, p)  yx == Part(y, x, i, p)
               yz == Part(y, z, i, p)  zy == Part(z, y, i, p)
               xz == Part(x, z, i, p)  zx == Part(z, x, i, p)
    <3>1. /\ xy \in Signs /\ yz \in Signs /\ xz \in Signs
          /\ yx = 0 - xy /\ zy = 0 - yz /\ zx = 0 - xz
          /\ xy <= 0 /\ yz <= 0 => xz <= 0
          /\ yx <= 0 /\ xz <= 0 => yz <= 0
          /\ yz <= 0 /\ zx <= 0 => yx <= 0
          /\ zx <= 0 /\ xy <= 0 => zy <= 0
          /\ xz <= 0 /\ zy <= 0 => xy <= 0
          /\ zy <= 0 /\ yx <= 0 => zx <= 0
      BY <1>2, <2>1
    <3> HIDE DEF xy, yx, yz, zy, xz, zx
    <3>2. /\ xy = 0 => xz = yz
          /\ yz = 0 => xz = xy
          /\ xy < 0 /\ yz < 0 => xz < 0
      BY <3>1 DEF Signs
    <3>3. QED
      BY <3>2 DEF xy, yz, xz
  <2>2. QED
    BY <2>1
<1>4. Compare(a, b, i) \in Signs /\ Compare(b, a, i) = 0 - Compare(a, b, i)
  <2>1. \A p \in D : /\ Part(a, b, i, p) \in Signs /\ Part(b, a, i, p) \in Signs
                     /\ Part(b, a, i, p) = 0 - Part(a, b, i, p)
    BY <1>2
  <2>2. CASE Compare(a, b, i) = 0 /\ \A p \in D : Part(a, b, i, p) = 0
    <3>1. \A p \in D : Part(b, a, i, p) = 0
      BY <2>1, <2>2
    <3>2. Compare(b, a, i) = 0
      BY <3>1, FirstPartDecides
    <3>3. Compare(a, b, i) = 0
      BY <2>2
    <3>4. QED
      BY <3>2, <3>3 DEF Signs
  <2>3. ASSUME NEW m \in D, Part(a, b, i, m) # 0, Compare(a, b, i) = Part(a, b, i, m),
               \A p \in D : p < m => Part(a, b, i, p) = 0
        PROVE  Compare(a, b, i) \in Signs /\ Compare(b, a, i) = 0 - Compare(a, b, i)
    <3>1. Part(b, a, i, m) # 0 /\ \A p \in D : p < m => Part(b, a, i, p) = 0
      BY <2>1, <2>3 DEF Signs
    <3>2. PICK n \in D : /\ Part(b, a, i, n) # 0 /\ Compare(b, a, i) = Part(b, a, i, n)
                         /\ \A p \in D : p < n => Part(b, a, i, p) = 0
      BY <3>1, FirstPartDecides
    <3>3. n = m
      BY <1>1, <3>1, <3>2
    <3>4. QED
      BY <2>1, <2>3, <3>2, <3>3
  <2>4. QED
    BY <2>2, <2>3, FirstPartDecides
<1>5. ASSUME NEW c, IsKey(c, i), Compare(a, b, i) <= 0, Compare(b, c, i) <= 0
      PROVE  Compare(a, c, i) <= 0
  <2>1. \A p \in D : /\ Part(a, b, i, p) \in Signs /\ Part(b, c, i, p) \in Signs
                     /\ Part(a, b, i, p) = 0 => Part(a, c, i, p) = Part(b, c, i, p)
                     /\ Part(b, c, i, p) = 0 => Part(a, c, i, p) = Part(a, b, i, p)
                     /\ Part(a, b, i, p) < 0 /\ Part(b, c, i, p) < 0 => Part(a, c, i, p) < 0
    BY <1>2, <1>3, <1>5
  <2>2. CASE Compare(a, c, i) = 0
    BY <2>2
  <2>3. ASSUME NEW m \in D, Part(a, c, i, m) # 0, Compare(a, c, i) = Part(a, c, i, m),
               \A p \in D : p < m => Part(a, c, i, p) = 0
        PROVE  Part(a, c, i, m) < 0 /\ Part(a, c, i, m) \in Signs
    <3> SUFFICES Part(a, c, i, m) < 0
      BY <1>2, <1>5
    <3>1. CASE \A p \in D : Part(a, b, i, p) = 0
      <4>1. Part(a, c, i, m) = Part(b, c, i, m) /\ \A p \in D : p < m => Part(b, c, i, p) = 0
        BY <2>1, <2>3, <3>1
      <4>2. PICK n \in D : /\ Part(b, c, i, n) # 0 /\ Compare(b, c, i) = Part(b, c, i, n)
                           /\ \A p \in D : p < n => Part(b, c, i, p) = 0
        BY <2>3, <4>1, FirstPartDecides
      <4>3. n = m
        BY <1>1, <2>3, <4>1, <4>2
      <4>4. QED
        BY <1>5, <2>1, <4>1, <4>2, <4>3 DEF Signs
    <3>2. ASSUME NEW k \in D, Part(a, b, i, k) # 0, Compare(a, b, i) = Part(a, b, i, k),
                 \A p \in D : p < k => Part(a, b, i, p) = 0
          PROVE  Part(a, c, i, m) < 0
      <4>1. Part(a, b, i, k) < 0
        BY <1>5, <2>1, <3>2 DEF Signs
      <4>2. CASE \A p \in D : Part(b, c, i, p) = 0
        <5>1. Part(a, c, i, k) = Part(a, b, i, k) /\ \A p \in D : p < k => Part(a, c, i, p) = 0
          BY <2>1, <3>2, <4>2
        <5>2. k = m
          BY <1>1, <2>3, <3>2, <5>1
        <5>3. QED
          BY <4>1, <5>1, <5>2
      <4>3. ASSUME NEW n \in D, Part(b, c, i, n) # 0, Compare(b, c, i) = Part(b, c, i, n),
                   \A p \in D : p < n => Part(b, c, i, p) = 0
            PROVE  Part(a, c, i, m) < 0
        <5>1. Part(b, c, i, n) < 0
          BY <1>5, <2>1, <4>3 DEF Signs
        <5>2. CASE k <= n
          <6>1. \A p \in D : p < k => Part(a, c, i, p) = 0
            BY <1>1, <2>1, <3>2, <4>3, <5>2
          <6>2. Part(a, c, i, k) < 0
            <7>1. k = n \/ k < n
              BY <1>1, <5>2
            <7>2. QED
              BY <2>1, <4>1, <4>3, <5>1, <7>1
          <6>3. k = m
            BY <1>1, <2>3, <6>1, <6>2
          <6>4. QED
            BY <6>2, <6>3
        <5>3. CASE n < k
          <6>1. \A p \in D : p < n => Part(a, c, i, p) = 0
            BY <1>1, <2>1, <3>2, <4>3, <5>3
          <6>2. Part(a, c, i, n) < 0
            BY <2>1, <3>2, <5>1, <5>3
          <6>3. n = m
            BY <1>1, <2>3, <6>1, <6>2
          <6>4. QED
            BY <6>2, <6>3
        <5>4. QED
          BY <1>1, <5>2, <5>3
      <4>4. QED
        BY <4>2, <4>3, FirstPartDecides
    <3>3. QED
      BY <3>1, <3>2, FirstPartDecides
  <2>4. Compare(a, c, i) = 0 \/ (Compare(a, c, i) < 0 /\ Compare(a, c, i) \in Signs)
    BY <2>3, FirstPartDecides
  <2>5. QED
    BY <2>4 DEF Signs
<1>6. QED
  BY <1>4, <1>5

-----------------------------------------------------------------------------
(* Splicing.                                                               *)

\* An insertion shifts what is behind it by one.
LEMMA InsertAtLaws ==
  ASSUME NEW S, NEW s \in Seq(S), NEW k \in 1 .. Len(s) + 1, NEW e \in S
  PROVE  LET t == InsertAt(s, k, e)
         IN  /\ t \in Seq(S)
             /\ Len(t) = Len(s) + 1
             /\ \A p \in 1 .. k - 1 : t[p] = s[p]
             /\ t[k] = e
             /\ \A p \in k .. Len(s) : t[p + 1] = s[p]
<1> DEFINE n == Len(s)
           front == SubSeq(s, 1, k - 1)
           back == SubSeq(s, k, n)
           t == front \o <<e>> \o back
<1>1. n \in Nat /\ k \in Nat /\ k >= 1 /\ k <= n + 1
  BY SequenceFacts
<1>2. front \in Seq(S) /\ Len(front) = k - 1 /\ \A p \in 1 .. k - 1 : front[p] = s[p]
  BY <1>1, SequenceFacts
<1>3. /\ back \in Seq(S) /\ Len(back) = n - k + 1
      /\ \A p \in 1 .. n - k + 1 : back[p] = s[p + k - 1]
  BY <1>1, SequenceFacts
<1> HIDE DEF front, back, n
<1> DEFINE u == front \o <<e>>
<1>4. /\ u \in Seq(S) /\ Len(u) = k
      /\ \A p \in 1 .. k - 1 : u[p] = s[p]
      /\ u[k] = e
  <2>1. <<e>> \in Seq(S) /\ Len(<<e>>) = 1 /\ <<e>>[1] = e
    OBVIOUS
  <2>2. /\ u \in Seq(S) /\ Len(u) = (k - 1) + 1
        /\ \A p \in 1 .. k - 1 : u[p] = front[p]
        /\ u[(k - 1) + 1] = e
    <3>1. u \in Seq(S) /\ Len(u) = Len(front) + Len(<<e>>)
      BY <1>2, <2>1
    <3>2. \A p \in 1 .. Len(front) : u[p] = front[p]
      BY <1>2, <2>1
    <3>3. u[Len(front) + 1] = <<e>>[1]
      BY <1>2, <2>1
    <3> HIDE DEF u
    <3>4. QED
      BY <1>1, <1>2, <2>1, <3>1, <3>2, <3>3
  <2>3. (k - 1) + 1 = k
    BY <1>1
  <2> HIDE DEF u
  <2>4. QED
    BY <1>2, <2>2, <2>3
<1> HIDE DEF u
<1>5. /\ u \o back \in Seq(S) /\ Len(u \o back) = n + 1
      /\ \A p \in 1 .. k : (u \o back)[p] = u[p]
      /\ \A p \in k + 1 .. n + 1 : (u \o back)[p] = back[p - k]
  BY <1>1, <1>3, <1>4
<1>6. \A p \in k .. n : p + 1 \in k + 1 .. n + 1 /\ (p + 1) - k \in 1 .. n - k + 1
                        /\ ((p + 1) - k) + k - 1 = p
  BY <1>1
<1>7. \A p \in k .. n : (u \o back)[p + 1] = s[p]
  BY <1>3, <1>5, <1>6
<1>8. InsertAt(s, k, e) = u \o back
  BY DEF InsertAt, u, front, back, n
<1>9. QED
  BY <1>1, <1>4, <1>5, <1>7, <1>8 DEF n

\* A removal shifts what is behind it back.
LEMMA RemovalShifts ==
  ASSUME NEW S, NEW s \in Seq(S), NEW k \in 1 .. Len(s)
  PROVE  LET t == RemoveAt(s, k)
         IN  /\ t \in Seq(S)
             /\ Len(t) = Len(s) - 1
             /\ \A p \in 1 .. k - 1 : t[p] = s[p]
             /\ \A p \in k .. Len(s) - 1 : t[p] = s[p + 1]
<1> DEFINE t == RemoveAt(s, k)
<1>1. Len(s) \in Nat /\ k \in DOMAIN s
  BY SequenceFacts
<1>2. /\ t \in Seq(S) /\ Len(t) = Len(s) - 1
      /\ \A p \in 1 .. Len(s) - 1 : t[p] = IF p < k THEN s[p] ELSE s[p + 1]
  BY <1>1, RemoveAtLaws
<1> HIDE DEF t
<1>3. \A p \in 1 .. k - 1 : p \in 1 .. Len(s) - 1 /\ p < k
  BY <1>1
<1>4. \A p \in k .. Len(s) - 1 : p \in 1 .. Len(s) - 1 /\ ~(p < k)
  BY <1>1
<1>5. (\A p \in 1 .. k - 1 : t[p] = s[p]) /\ \A p \in k .. Len(s) - 1 : t[p] = s[p + 1]
  BY <1>2, <1>3, <1>4
<1>6. QED
  BY <1>2, <1>5 DEF t

-----------------------------------------------------------------------------
(* A leaf beside the rows it is about.                                     *)

Entries(i) == [key : Keys(i), id : RowIDs]

\* The order of a leaf: by key, and by age where keys compare equal.
Before(e, f, i, age) ==
  \/ Compare(e.key, f.key, i) < 0
  \/ Compare(e.key, f.key, i) = 0 /\ age[e.id] < age[f.id]

\* s has an entry for each row of r, with its key, once and in order.
GoodLeaf(s, i, r, age) ==
  /\ s \in Seq(Entries(i))
  /\ \A p \in 1 .. Len(s) : r[s[p].id] # NoRow /\ s[p].key = KeyOf(r[s[p].id], i)
  /\ \A p, q \in 1 .. Len(s) : p < q => s[p].id # s[q].id /\ Before(s[p], s[q], i, age)
  /\ \A id \in RowIDs : r[id] # NoRow => \E p \in 1 .. Len(s) : s[p].id = id

\* Keys of entries are keys.
LEMMA EntriesHaveKeys ==
  ASSUME NEW i \in DOMAIN Indexes, NEW s \in Seq(Entries(i)), NEW p \in 1 .. Len(s)
  PROVE  IsKey(s[p].key, i) /\ s[p].id \in RowIDs
<1>1. s[p] \in Entries(i)
  BY SequenceFacts
<1>2. s[p].key \in Keys(i) /\ s[p].id \in RowIDs
  BY <1>1 DEF Entries
<1>3. QED
  BY <1>2, RowsHaveKeys DEF Keys

\* Taking out the entry of a row that goes leaves a good leaf.
LEMMA RemovalKeepsLeaf ==
  ASSUME NEW i \in DOMAIN Indexes, NEW s, NEW r, NEW age, GoodLeaf(s, i, r, age),
         NEW id \in RowIDs, r[id] # NoRow,
         NEW r2, NEW age2, r2[id] = NoRow,
         \A j \in RowIDs \ {id} : r2[j] = r[j] /\ age2[j] = age[j]
  PROVE  GoodLeaf(Removed(s, id), i, r2, age2) /\ Len(Removed(s, id)) = Len(s) - 1
<1> DEFINE holders == {p \in DOMAIN s : s[p].id = id}
           k == Min(holders)
           t == Removed(s, id)
<1>1. s \in Seq(Entries(i)) /\ Len(s) \in Nat /\ DOMAIN s = 1 .. Len(s)
  BY SequenceFacts DEF GoodLeaf
<1>2. k \in 1 .. Len(s) /\ s[k].id = id
  <2>1. holders \subseteq Nat /\ holders # {}
    BY <1>1 DEF GoodLeaf
  <2>2. k \in holders
    <3> HIDE DEF holders
    <3> QED BY <2>1, MinOfBounded
  <2>3. QED
    BY <1>1, <2>2
<1>3. t = RemoveAt(s, k)
  BY DEF Removed
<1> HIDE DEF k, t, holders
<1>4. /\ t \in Seq(Entries(i))
      /\ Len(t) = Len(s) - 1
      /\ \A p \in 1 .. k - 1 : t[p] = s[p]
      /\ \A p \in k .. Len(s) - 1 : t[p] = s[p + 1]
  <2> DEFINE S == Entries(i)
  <2>1. s \in Seq(S)
    BY <1>1
  <2> HIDE DEF S
  <2>2. LET u == RemoveAt(s, k)
        IN  /\ u \in Seq(S)
            /\ Len(u) = Len(s) - 1
            /\ \A p \in 1 .. k - 1 : u[p] = s[p]
            /\ \A p \in k .. Len(s) - 1 : u[p] = s[p + 1]
    BY <1>2, <2>1, RemovalShifts
  <2>3. QED
    BY <1>3, <2>2 DEF S
<1> DEFINE old(p) == IF p < k THEN p ELSE p + 1
<1>5. \A p \in 1 .. Len(t) : /\ old(p) \in 1 .. Len(s) /\ old(p) # k /\ t[p] = s[old(p)]
  BY <1>1, <1>2, <1>4
<1>6. \A p, q \in 1 .. Len(t) : p < q => old(p) < old(q)
  BY <1>1, <1>2, <1>4
<1>7. \A p \in 1 .. Len(s) : p # k => s[p].id # id
  <2>1. ASSUME NEW p \in 1 .. Len(s), p # k PROVE s[p].id # id
    <3>1. p < k \/ k < p
      BY <1>1, <1>2, <2>1
    <3>2. QED
      BY <1>2, <3>1 DEF GoodLeaf
  <2>2. QED
    BY <2>1
<1>8. \A p \in 1 .. Len(s) : p # k => \E q \in 1 .. Len(t) : old(q) = p
  <2>1. ASSUME NEW p \in 1 .. Len(s), p # k PROVE \E q \in 1 .. Len(t) : old(q) = p
    <3>1. CASE p < k
      <4>1. p \in 1 .. Len(t) /\ old(p) = p
        BY <1>1, <1>2, <1>4, <3>1
      <4>2. QED
        BY <4>1
    <3>2. CASE p > k
      <4>1. p - 1 \in 1 .. Len(t) /\ old(p - 1) = p
        BY <1>1, <1>2, <1>4, <3>2
      <4>2. QED
        BY <4>1
    <3>3. QED
      BY <1>1, <1>2, <2>1, <3>1, <3>2
  <2>2. QED
    BY <2>1
<1> HIDE DEF old
<1>9. \A p \in 1 .. Len(t) : t[p].id \in RowIDs \ {id}
  <2>1. ASSUME NEW p \in 1 .. Len(t) PROVE t[p].id \in RowIDs \ {id}
    <3>1. t[p] = s[old(p)] /\ old(p) \in 1 .. Len(s) /\ old(p) # k
      BY <1>5
    <3>2. s[old(p)].id \in RowIDs
      BY <1>1, <3>1, EntriesHaveKeys
    <3>3. QED
      BY <1>7, <3>1, <3>2
  <2>2. QED
    BY <2>1
<1>10. \A p \in 1 .. Len(t) : r2[t[p].id] # NoRow /\ t[p].key = KeyOf(r2[t[p].id], i)
  BY <1>5, <1>9 DEF GoodLeaf
<1>11. ASSUME NEW p \in 1 .. Len(t), NEW q \in 1 .. Len(t), p < q
       PROVE  t[p].id # t[q].id /\ Before(t[p], t[q], i, age2)
  <2>1. s[old(p)].id # s[old(q)].id /\ Before(s[old(p)], s[old(q)], i, age)
    BY <1>5, <1>6, <1>11 DEF GoodLeaf
  <2>2. t[p] = s[old(p)] /\ t[q] = s[old(q)]
    BY <1>5
  <2>3. age2[t[p].id] = age[t[p].id] /\ age2[t[q].id] = age[t[q].id]
    BY <1>9
  <2>4. QED
    BY <2>1, <2>2, <2>3 DEF Before
<1>12. ASSUME NEW j \in RowIDs, r2[j] # NoRow PROVE \E p \in 1 .. Len(t) : t[p].id = j
  <2>1. j # id /\ r[j] # NoRow
    BY <1>12
  <2>2. PICK p \in 1 .. Len(s) : s[p].id = j
    BY <2>1 DEF GoodLeaf
  <2>3. p # k
    BY <1>2, <2>1, <2>2
  <2>4. PICK q \in 1 .. Len(t) : old(q) = p
    BY <1>8, <2>3
  <2>5. QED
    BY <1>5, <2>2, <2>4
<1>13. GoodLeaf(t, i, r2, age2) /\ Len(t) = Len(s) - 1
  BY <1>4, <1>10, <1>11, <1>12 DEF GoodLeaf
<1>14. QED
  BY <1>13 DEF t

\* A key goes behind the keys that compare as smaller or equal, and these are all in
\* front of it.
LEMMA PositionDivides ==
  ASSUME NEW i \in DOMAIN Indexes, NEW s, NEW r, NEW age, GoodLeaf(s, i, r, age),
         NEW key, IsKey(key, i)
  PROVE  LET k == Position(s, key, i)
         IN  /\ k \in 1 .. Len(s) + 1
             /\ \A p \in 1 .. Len(s) : p < k => Compare(s[p].key, key, i) <= 0
             /\ \A p \in 1 .. Len(s) : k <= p => Compare(key, s[p].key, i) < 0
<1> DEFINE k == Position(s, key, i)
           behind == {p \in DOMAIN s : Compare(s[p].key, key, i) > 0}
<1>1. s \in Seq(Entries(i)) /\ Len(s) \in Nat /\ DOMAIN s = 1 .. Len(s)
  BY SequenceFacts DEF GoodLeaf
<1>2. \A p \in 1 .. Len(s) : IsKey(s[p].key, i)
  BY <1>1, EntriesHaveKeys
<1>3. k = Min(behind \cup {Len(s) + 1})
  BY DEF Position
<1>4. k \in behind \cup {Len(s) + 1} /\ \A p \in behind \cup {Len(s) + 1} : k <= p
  <2>1. behind \cup {Len(s) + 1} \subseteq Nat /\ behind \cup {Len(s) + 1} # {}
    BY <1>1
  <2> HIDE DEF behind, k
  <2>2. QED
    BY <1>3, <2>1, MinOfBounded
<1> HIDE DEF k
<1>5. k \in 1 .. Len(s) + 1
  BY <1>1, <1>4
<1>6. ASSUME NEW p \in 1 .. Len(s), p < k PROVE Compare(s[p].key, key, i) <= 0
  <2>1. p \notin behind
    <3> HIDE DEF behind
    <3> QED BY <1>1, <1>4, <1>5, <1>6
  <2>2. ~(Compare(s[p].key, key, i) > 0)
    BY <1>1, <2>1
  <2>3. Compare(s[p].key, key, i) \in Signs
    BY <1>2, KeysAreOrdered
  <2>4. QED
    BY <2>2, <2>3 DEF Signs
<1>7. ASSUME NEW p \in 1 .. Len(s), k <= p PROVE Compare(key, s[p].key, i) < 0
  <2>1. k \in 1 .. Len(s)
    BY <1>1, <1>5, <1>7
  <2>2. k \in behind
    BY <1>1, <1>4, <2>1
  <2>3. /\ Compare(s[k].key, key, i) \in Signs
        /\ Compare(key, s[k].key, i) = 0 - Compare(s[k].key, key, i)
    BY <1>2, <2>1, KeysAreOrdered
  <2>4. Compare(key, s[k].key, i) = -1 /\ Compare(s[k].key, key, i) = 1
    BY <2>2, <2>3 DEF Signs
  <2>5. k = p \/ Before(s[k], s[p], i, age)
    BY <1>1, <1>7, <2>1 DEF GoodLeaf
  <2>6. k = p \/ Compare(s[k].key, s[p].key, i) <= 0
    <3>1. Compare(s[k].key, s[p].key, i) \in Signs
      BY <1>2, <2>1, KeysAreOrdered
    <3>2. QED
      BY <2>5, <3>1 DEF Before, Signs
  <2>7. CASE k = p
    BY <2>4, <2>7
  <2>8. CASE Compare(s[k].key, s[p].key, i) <= 0
    <3>1. Compare(key, s[p].key, i) <= 0
      BY <1>2, <2>1, <2>4, <2>8, KeysAreOrdered
    <3>2. Compare(key, s[p].key, i) # 0
      <4>1. ASSUME Compare(key, s[p].key, i) = 0 PROVE FALSE
        <5>1. Compare(s[p].key, key, i) = 0
          BY <1>2, <4>1, KeysAreOrdered
        <5>2. Compare(s[k].key, key, i) <= 0
          BY <1>2, <2>1, <2>8, <5>1, KeysAreOrdered
        <5>3. QED
          BY <2>4, <5>2
      <4>2. QED
        BY <4>1
    <3>3. Compare(key, s[p].key, i) \in Signs
      BY <1>2, KeysAreOrdered
    <3>4. QED
      BY <3>1, <3>2, <3>3 DEF Signs
  <2>9. QED
    BY <2>6, <2>7, <2>8
<1>8. QED
  BY <1>5, <1>6, <1>7 DEF k

\* Putting in the entry of a new row leaves a good leaf, with the row as the youngest
\* of those its key equals.
LEMMA InsertionKeepsLeaf ==
  ASSUME NEW i \in DOMAIN Indexes, NEW s, NEW r, NEW age, GoodLeaf(s, i, r, age),
         NEW id \in RowIDs, r[id] = NoRow, NEW row \in Rows,
         NEW r2, NEW age2, r2[id] = row,
         \A j \in RowIDs \ {id} : r2[j] = r[j] /\ age2[j] = age[j],
         \A j \in RowIDs \ {id} : age[j] < age2[id]
  PROVE  LET t == Inserted(s, KeyOf(row, i), id, i)
         IN  GoodLeaf(t, i, r2, age2) /\ Len(t) = Len(s) + 1
<1> DEFINE key == KeyOf(row, i)
           k == Position(s, key, i)
           e == Entry(key, id)
           S == Entries(i)
           t == InsertAt(s, k, e)
<1>1. s \in Seq(S) /\ Len(s) \in Nat /\ DOMAIN s = 1 .. Len(s)
  BY SequenceFacts DEF GoodLeaf
<1>2. IsKey(key, i) /\ e \in S /\ e.key = key /\ e.id = id
  BY RowsHaveKeys DEF Entry, Entries, Keys
<1>3. /\ k \in 1 .. Len(s) + 1
      /\ \A p \in 1 .. Len(s) : p < k => Compare(s[p].key, key, i) <= 0
      /\ \A p \in 1 .. Len(s) : k <= p => Compare(key, s[p].key, i) < 0
  <2> HIDE DEF key
  <2> QED BY <1>2, PositionDivides
<1>4. Inserted(s, key, id, i) = t
  BY DEF Inserted
<1> HIDE DEF key, k, e, S
<1>5. /\ t \in Seq(S)
      /\ Len(t) = Len(s) + 1
      /\ \A p \in 1 .. k - 1 : t[p] = s[p]
      /\ t[k] = e
      /\ \A p \in k .. Len(s) : t[p + 1] = s[p]
  <2> HIDE DEF t
  <2>1. InsertAt(s, k, e) \in Seq(S) /\ Len(InsertAt(s, k, e)) = Len(s) + 1
    BY <1>1, <1>2, <1>3, InsertAtLaws
  <2>2. \A p \in 1 .. k - 1 : InsertAt(s, k, e)[p] = s[p]
    BY <1>1, <1>2, <1>3, InsertAtLaws
  <2>3. InsertAt(s, k, e)[k] = e
    BY <1>1, <1>2, <1>3, InsertAtLaws
  <2>4. \A p \in k .. Len(s) : InsertAt(s, k, e)[p + 1] = s[p]
    BY <1>1, <1>2, <1>3, InsertAtLaws
  <2>5. QED
    BY <2>1, <2>2, <2>3, <2>4 DEF t
<1> HIDE DEF t
<1> DEFINE old(p) == IF p < k THEN p ELSE p - 1
<1>6. \A p \in 1 .. Len(t) : p # k => old(p) \in 1 .. Len(s) /\ t[p] = s[old(p)]
  <2>1. ASSUME NEW p \in 1 .. Len(t), p # k PROVE old(p) \in 1 .. Len(s) /\ t[p] = s[old(p)]
    <3>1. CASE p < k
      BY <1>1, <1>3, <1>5, <3>1
    <3>2. CASE p > k
      <4>1. p - 1 \in k .. Len(s) /\ (p - 1) + 1 = p /\ old(p) = p - 1
        BY <1>1, <1>3, <1>5, <3>2
      <4>2. QED
        BY <1>3, <1>5, <4>1
    <3>3. QED
      BY <1>3, <2>1, <3>1, <3>2
  <2>2. QED
    BY <2>1
<1>7. \A p, q \in 1 .. Len(t) : p < q /\ p # k /\ q # k => old(p) < old(q)
  BY <1>1, <1>3, <1>5
<1>8. \A p \in 1 .. Len(s) : \E q \in 1 .. Len(t) : t[q] = s[p]
  <2>1. ASSUME NEW p \in 1 .. Len(s) PROVE \E q \in 1 .. Len(t) : t[q] = s[p]
    <3>1. CASE p < k
      <4>1. p \in 1 .. Len(t) /\ p \in 1 .. k - 1
        BY <1>1, <1>3, <1>5, <3>1
      <4>2. QED
        BY <1>5, <4>1
    <3>2. CASE p >= k
      <4>1. p + 1 \in 1 .. Len(t) /\ p \in k .. Len(s)
        BY <1>1, <1>3, <1>5, <3>2
      <4>2. QED
        BY <1>5, <4>1
    <3>3. QED
      BY <1>3, <3>1, <3>2
  <2>2. QED
    BY <2>1
<1>9. \A p \in 1 .. Len(s) : s[p].id \in RowIDs \ {id} /\ IsKey(s[p].key, i)
  BY <1>1, EntriesHaveKeys DEF GoodLeaf, S
<1>10. k \in 1 .. Len(t)
  BY <1>1, <1>3, <1>5
<1>11. \A p \in 1 .. Len(t) : p < k => old(p) = p
  OBVIOUS
<1>12. \A p \in 1 .. Len(t) : p > k => old(p) >= k
  BY <1>1, <1>3, <1>5
<1>13. \A p \in 1 .. Len(t) : p < k => old(p) < k
  OBVIOUS
<1> HIDE DEF old
<1>14. ASSUME NEW p \in 1 .. Len(t) PROVE r2[t[p].id] # NoRow /\ t[p].key = KeyOf(r2[t[p].id], i)
  <2>1. CASE p = k
    BY <1>2, <1>5, <2>1 DEF key
  <2>2. CASE p # k
    <3>1. t[p] = s[old(p)] /\ old(p) \in 1 .. Len(s)
      BY <1>6, <2>2
    <3>2. r[s[old(p)].id] # NoRow /\ s[old(p)].key = KeyOf(r[s[old(p)].id], i)
      BY <3>1 DEF GoodLeaf
    <3>3. QED
      BY <1>9, <3>1, <3>2
  <2>3. QED
    BY <2>1, <2>2
<1>15. ASSUME NEW p \in 1 .. Len(t), NEW q \in 1 .. Len(t), p < q
       PROVE  t[p].id # t[q].id /\ Before(t[p], t[q], i, age2)
  <2>1. CASE p # k /\ q # k
    <3>1. /\ t[p] = s[old(p)] /\ t[q] = s[old(q)]
          /\ old(p) \in 1 .. Len(s) /\ old(q) \in 1 .. Len(s) /\ old(p) < old(q)
      BY <1>6, <1>7, <1>15, <2>1
    <3>2. t[p].id # t[q].id /\ Before(t[p], t[q], i, age)
      BY <3>1 DEF GoodLeaf
    <3>3. age2[t[p].id] = age[t[p].id] /\ age2[t[q].id] = age[t[q].id]
      BY <1>9, <3>1
    <3>4. QED
      BY <3>2, <3>3 DEF Before
  <2>2. CASE p = k
    <3>1. q > k /\ q # k
      BY <1>3, <1>15, <2>2
    <3>2. t[q] = s[old(q)] /\ old(q) \in 1 .. Len(s) /\ k <= old(q)
      BY <1>3, <1>6, <1>12, <3>1
    <3>3. Compare(key, s[old(q)].key, i) < 0 /\ s[old(q)].id # id
      BY <1>3, <1>9, <3>2
    <3>4. QED
      BY <1>2, <1>5, <2>2, <3>2, <3>3 DEF Before
  <2>3. CASE q = k
    <3>1. p < k /\ p # k
      BY <1>3, <1>15, <2>3
    <3>2. t[p] = s[old(p)] /\ old(p) \in 1 .. Len(s) /\ old(p) < k
      BY <1>6, <1>13, <3>1
    <3>3. Compare(s[old(p)].key, key, i) <= 0 /\ s[old(p)].id \in RowIDs \ {id}
      BY <1>3, <1>9, <3>2
    <3>4. age2[s[old(p)].id] < age2[id]
      BY <3>3
    <3>5. Compare(s[old(p)].key, key, i) \in Signs
      BY <1>2, <1>9, <3>2, KeysAreOrdered
    <3>6. Compare(s[old(p)].key, key, i) < 0 \/ Compare(s[old(p)].key, key, i) = 0
      BY <3>3, <3>5 DEF Signs
    <3>7. QED
      BY <1>2, <1>5, <2>3, <3>2, <3>3, <3>4, <3>6 DEF Before
  <2>4. QED
    BY <2>1, <2>2, <2>3
<1>16. ASSUME NEW j \in RowIDs, r2[j] # NoRow PROVE \E p \in 1 .. Len(t) : t[p].id = j
  <2>1. CASE j = id
    BY <1>2, <1>5, <1>10, <2>1
  <2>2. CASE j # id
    <3>1. PICK p \in 1 .. Len(s) : s[p].id = j
      BY <1>16, <2>2 DEF GoodLeaf
    <3>2. QED
      BY <1>8, <3>1
  <2>3. QED
    BY <2>1, <2>2
<1>17. GoodLeaf(t, i, r2, age2) /\ Len(t) = Len(s) + 1
  BY <1>5, <1>14, <1>15, <1>16 DEF GoodLeaf, S
<1>18. QED
  BY <1>4, <1>17 DEF key

-----------------------------------------------------------------------------
(* A leaf built from all rows.                                             *)

RowsOK == rows \in [RowIDs -> Rows \cup {NoRow}]

\* Sorting by key and then by place orders the records strictly, so the stable sort
\* of CREATE INDEX has a result, and it lists every record once.
LEMMA SortListsRows ==
  ASSUME NEW i \in DOMAIN Indexes, RowsOK
  PROVE  /\ Cardinality(Live) \in Nat
         /\ SortedIDs(i) \in [1 .. Cardinality(Live) -> Live]
         /\ \A p, q \in 1 .. Cardinality(Live) :
              p < q => Precedes(SortedIDs(i)[p], SortedIDs(i)[q], i)
         /\ \A p, q \in 1 .. Cardinality(Live) : p < q => SortedIDs(i)[p] # SortedIDs(i)[q]
         /\ \A id \in Live : \E p \in 1 .. Cardinality(Live) : SortedIDs(i)[p] = id
<1> DEFINE R == {e \in Live \X Live : Precedes(e[1], e[2], i)}
           n == Cardinality(Live)
<1>1. Live \subseteq RowIDs /\ Live \subseteq Nat
  <2>1. RowIDs \subseteq Nat
    BY FS_CardinalityType
  <2>2. QED
    BY <2>1 DEF Live
<1>2. IsFiniteSet(Live) /\ n \in Nat
  BY <1>1, FS_Subset, FS_CardinalityType
<1>3. \A a \in Live : IsKey(KeyOf(rows[a], i), i)
  BY RowsHaveKeys DEF Live, RowsOK
<1>4. \A a, b \in Live : /\ <<a, b>> \in R <=> Precedes(a, b, i)
                         /\ Precedes(a, b, i) <=>
                              LET c == Compare(KeyOf(rows[a], i), KeyOf(rows[b], i), i)
                              IN  c < 0 \/ (c = 0 /\ a < b)
  BY DEF Precedes
<1>5. \A a, b, c \in Live :
        /\ Compare(KeyOf(rows[a], i), KeyOf(rows[b], i), i) \in Signs
        /\ Compare(KeyOf(rows[b], i), KeyOf(rows[a], i), i)
             = 0 - Compare(KeyOf(rows[a], i), KeyOf(rows[b], i), i)
        /\ Compare(KeyOf(rows[a], i), KeyOf(rows[b], i), i) <= 0
             /\ Compare(KeyOf(rows[b], i), KeyOf(rows[c], i), i) <= 0
             => Compare(KeyOf(rows[a], i), KeyOf(rows[c], i), i) <= 0
  BY <1>3, KeysAreOrdered
<1> HIDE DEF R
<1>6. StrictlyOrders(R, Live)
  <2>1. ASSUME NEW x \in Live, NEW y \in Live
        PROVE  /\ x # y => <<x, y>> \in R \/ <<y, x>> \in R
               /\ <<x, y>> \in R => x # y /\ <<y, x>> \notin R
    <3> DEFINE xy == Compare(KeyOf(rows[x], i), KeyOf(rows[y], i), i)
               yx == Compare(KeyOf(rows[y], i), KeyOf(rows[x], i), i)
    <3>1. xy \in Signs /\ yx \in Signs /\ yx = 0 - xy /\ (x = y => xy = 0 - xy)
      BY <1>5
    <3>2. /\ <<x, y>> \in R <=> (xy < 0 \/ (xy = 0 /\ x < y))
          /\ <<y, x>> \in R <=> (yx < 0 \/ (yx = 0 /\ y < x))
      BY <1>4
    <3>3. x \in Nat /\ y \in Nat
      BY <1>1
    <3> HIDE DEF xy, yx
    <3>4. QED
      BY <3>1, <3>2, <3>3 DEF Signs
  <2>2. ASSUME NEW x \in Live, NEW y \in Live, NEW z \in Live, <<x, y>> \in R, <<y, z>> \in R
        PROVE  <<x, z>> \in R
    <3> DEFINE xy == Compare(KeyOf(rows[x], i), KeyOf(rows[y], i), i)
               yz == Compare(KeyOf(rows[y], i), KeyOf(rows[z], i), i)
               xz == Compare(KeyOf(rows[x], i), KeyOf(rows[z], i), i)
               yx == Compare(KeyOf(rows[y], i), KeyOf(rows[x], i), i)
               zy == Compare(KeyOf(rows[z], i), KeyOf(rows[y], i), i)
               zx == Compare(KeyOf(rows[z], i), KeyOf(rows[x], i), i)
    <3>1. /\ xy \in Signs /\ yz \in Signs /\ xz \in Signs
          /\ yx = 0 - xy /\ zy = 0 - yz /\ zx = 0 - xz
          /\ xy <= 0 /\ yz <= 0 => xz <= 0
          /\ yz <= 0 /\ zx <= 0 => yx <= 0
          /\ zx <= 0 /\ xy <= 0 => zy <= 0
      BY <1>5
    <3>2. /\ xy < 0 \/ (xy = 0 /\ x < y)
          /\ yz < 0 \/ (yz = 0 /\ y < z)
          /\ <<x, z>> \in R <=> (xz < 0 \/ (xz = 0 /\ x < z))
      BY <1>4, <2>2
    <3>3. x \in Nat /\ y \in Nat /\ z \in Nat
      BY <1>1
    <3> HIDE DEF xy, yz, xz, yx, zy, zx
    <3>4. QED
      BY <3>1, <3>2, <3>3 DEF Signs
  <2>3. QED
    BY <2>1, <2>2 DEF StrictlyOrders
<1>7. PICK s \in [1 .. n -> Live] : \A p, q \in 1 .. n : p < q => <<s[p], s[q]>> \in R
  BY <1>2, <1>6, ListedInOrder
<1>8. \E t \in [1 .. Cardinality(Live) -> Live] :
        \A p, q \in DOMAIN t : p < q => Precedes(t[p], t[q], i)
  BY <1>4, <1>7
<1>9. /\ SortedIDs(i) \in [1 .. n -> Live]
      /\ \A p, q \in DOMAIN SortedIDs(i) : p < q => Precedes(SortedIDs(i)[p], SortedIDs(i)[q], i)
  BY <1>8 DEF SortedIDs
<1>10. \A p, q \in 1 .. n : p < q => <<SortedIDs(i)[p], SortedIDs(i)[q]>> \in R
  BY <1>4, <1>9
<1>11. \A p, q \in 1 .. n : p < q => SortedIDs(i)[p] # SortedIDs(i)[q]
  BY <1>6, <1>9, <1>10 DEF StrictlyOrders
<1>12. \A id \in Live : \E p \in 1 .. n : SortedIDs(i)[p] = id
  <2> DEFINE t == SortedIDs(i)
  <2>1. t \in [1 .. Cardinality(Live) -> Live] /\ \A p, q \in 1 .. Cardinality(Live) : p < q => t[p] # t[q]
    BY <1>9, <1>11
  <2> HIDE DEF t
  <2>2. \A id \in Live : \E p \in 1 .. Cardinality(Live) : t[p] = id
    BY <1>2, <2>1, ListingsAreOnto
  <2>3. QED
    BY <2>2 DEF t
<1>13. QED
  BY <1>2, <1>9, <1>11, <1>12

\* What CREATE INDEX builds is a good leaf, with the records as old as their place.
LEMMA BuiltIsGood ==
  ASSUME NEW i \in DOMAIN Indexes, RowsOK, NEW age, \A id \in RowIDs : age[id] = id
  PROVE  GoodLeaf(Built(i), i, rows, age) /\ Len(Built(i)) = Cardinality(Live)
<1> DEFINE n == Cardinality(Live)
           o == SortedIDs(i)
           b == Built(i)
<1>1. /\ n \in Nat /\ o \in [1 .. n -> Live]
      /\ \A p, q \in 1 .. n : p < q => Precedes(o[p], o[q], i) /\ o[p] # o[q]
      /\ \A id \in Live : \E p \in 1 .. n : o[p] = id
  BY SortListsRows
<1>2. b = [p \in 1 .. n |-> Entry(KeyOf(rows[o[p]], i), o[p])]
  BY DEF Built
<1> HIDE DEF n, o, b
<1>3. \A p \in 1 .. n : /\ o[p] \in RowIDs /\ rows[o[p]] # NoRow /\ rows[o[p]] \in Rows
                        /\ b[p].key = KeyOf(rows[o[p]], i) /\ b[p].id = o[p]
                        /\ b[p] = Entry(KeyOf(rows[o[p]], i), o[p])
  BY <1>1, <1>2 DEF Live, Entry, RowsOK
<1>4. \A p \in 1 .. n : b[p] \in Entries(i)
  <2>1. \A p \in 1 .. n : KeyOf(rows[o[p]], i) \in Keys(i)
    BY <1>3 DEF Keys
  <2>2. \A k \in Keys(i), id \in RowIDs : Entry(k, id) \in Entries(i)
    BY DEF Entries, Entry
  <2>3. QED
    BY <1>3, <2>1, <2>2
<1>5. b \in Seq(Entries(i)) /\ Len(b) = n
  <2>1. DOMAIN b = 1 .. n
    BY <1>2
  <2> HIDE DEF Entries
  <2>2. b \in [1 .. n -> Entries(i)]
    BY <1>2, <1>4
  <2>3. QED
    BY <1>1, <2>2
<1>6. ASSUME NEW p \in 1 .. n, NEW q \in 1 .. n, p < q
      PROVE  b[p].id # b[q].id /\ Before(b[p], b[q], i, age)
  <2>1. Precedes(o[p], o[q], i) /\ o[p] # o[q]
    BY <1>1, <1>6
  <2>2. age[b[p].id] = o[p] /\ age[b[q].id] = o[q]
    BY <1>3
  <2>3. QED
    BY <1>3, <2>1, <2>2 DEF Precedes, Before
<1>7. \A id \in RowIDs : rows[id] # NoRow => \E p \in 1 .. n : b[p].id = id
  BY <1>1, <1>3 DEF Live
<1>8. GoodLeaf(b, i, rows, age)
  BY <1>3, <1>5, <1>6, <1>7 DEF GoodLeaf
<1>9. QED
  BY <1>5, <1>8 DEF b, n

\* A good leaf has as many entries as there are rows, and these very entries.
LEMMA GoodLeavesAgree ==
  ASSUME NEW i \in DOMAIN Indexes, RowsOK, NEW s, NEW age, GoodLeaf(s, i, rows, age)
  PROVE  /\ Len(s) = Cardinality(Live)
         /\ ToSet(s) = {Entry(KeyOf(rows[id], i), id) : id \in Live}
<1> DEFINE n == Len(s)
           ids == [p \in 1 .. n |-> s[p].id]
<1>1. s \in Seq(Entries(i)) /\ n \in Nat /\ DOMAIN s = 1 .. n
  BY SequenceFacts DEF GoodLeaf
<1>2. \A p \in 1 .. n : s[p] \in Entries(i) /\ s[p].id \in RowIDs /\ s[p].id \in Live
  BY <1>1, SequenceFacts, EntriesHaveKeys DEF GoodLeaf, Live
<1>3. \A p, q \in 1 .. n : s[p].id = s[q].id => p = q
  <2>1. ASSUME NEW p \in 1 .. n, NEW q \in 1 .. n, s[p].id = s[q].id, p # q PROVE FALSE
    <3>1. p < q \/ q < p
      BY <1>1, <2>1
    <3>2. QED
      BY <2>1, <3>1 DEF GoodLeaf
  <2>2. QED
    BY <2>1
<1>4. \A id \in Live : \E p \in 1 .. n : s[p].id = id
  BY DEF GoodLeaf, Live
<1>5. n = Cardinality(Live)
  <2> HIDE DEF n
  <2>1. ids \in [1 .. n -> Live]
    BY <1>2
  <2>2. \A p \in 1 .. n : ids[p] = s[p].id
    OBVIOUS
  <2> HIDE DEF ids
  <2>3. ids \in Bijection(1 .. n, Live)
    <3>1. \A p, q \in 1 .. n : ids[p] = ids[q] => p = q
      BY <1>3, <2>2
    <3>2. \A id \in Live : \E p \in 1 .. n : ids[p] = id
      BY <1>4, <2>2
    <3>3. QED
      BY ONLY <2>1, <3>1, <3>2 DEF Bijection, Injection, Surjection, IsInjective
  <2>4. ExistsBijection(1 .. n, Live)
    BY <2>3 DEF ExistsBijection
  <2>5. QED
    BY <1>1, <2>4, FS_CountingElements
<1>6. \A p \in 1 .. n : s[p] = Entry(KeyOf(rows[s[p].id], i), s[p].id)
  <2>1. ASSUME NEW p \in 1 .. n PROVE s[p] = Entry(KeyOf(rows[s[p].id], i), s[p].id)
    <3>1. s[p] = [key |-> s[p].key, id |-> s[p].id]
      BY <1>2 DEF Entries
    <3>2. s[p].key = KeyOf(rows[s[p].id], i)
      BY DEF GoodLeaf
    <3>3. QED
      BY <3>1, <3>2 DEF Entry
  <2>2. QED
    BY <2>1
<1> HIDE DEF n
<1>7. ToSet(s) = {s[p] : p \in 1 .. n}
  BY <1>1 DEF ToSet
<1>8. \A p \in 1 .. n : s[p] \in {Entry(KeyOf(rows[id], i), id) : id \in Live}
  BY <1>2, <1>6
<1>9. \A id \in Live : Entry(KeyOf(rows[id], i), id) \in {s[p] : p \in 1 .. n}
  BY <1>4, <1>6
<1>10. QED
  BY <1>5, <1>7, <1>8, <1>9 DEF n

-----------------------------------------------------------------------------
(* The invariant.                                                          *)

\* No two rows of r have keys of index i that compare equal.
RowsDiffer(i, r) ==
  \A a, b \in RowIDs :
    r[a] # NoRow /\ r[b] # NoRow /\ a # b => Compare(KeyOf(r[a], i), KeyOf(r[b], i), i) # 0

\* The oldest and the youngest an entry can be so far.
Ages == 0 .. Cardinality(RowIDs) + ops

LeafInv(i) ==
  /\ GoodLeaf(leaf[i], i, rows, placed[i])
  /\ Len(leaf[i]) <= Capacity
  /\ placed[i] \in [RowIDs -> Ages]
  /\ Indexes[i].unique => RowsDiffer(i, rows)

LeavesInv ==
  /\ RowsOK
  /\ DOMAIN leaf \subseteq DOMAIN Indexes
  /\ DOMAIN placed = DOMAIN leaf
  /\ ops \in 0 .. MaxOps
  /\ \A i \in DOMAIN leaf : LeafInv(i)

\* Before any row and any index there is nothing to be out of order.
LEMMA InitLeaves == Init => LeavesInv
<1>1. \A S : [i \in {} |-> S] = [i \in {} |-> S] /\ DOMAIN [i \in {} |-> S] = {}
  OBVIOUS
<1>2. QED
  BY DEF Init, LeavesInv, RowsOK

\* The numbers ages are compared in.
LEMMA AgesAreNumbers ==
  ASSUME LeavesInv
  PROVE  /\ Cardinality(RowIDs) \in Nat /\ ops \in Nat
         /\ Ages \subseteq Nat
         /\ \A a \in Ages : a < Now
         /\ RowIDs \subseteq Ages
<1>1. Cardinality(RowIDs) \in Nat /\ ops \in Nat
  BY FS_CardinalityType DEF LeavesInv
<1>2. RowIDs \subseteq 1 .. Cardinality(RowIDs)
  OBVIOUS
<1>3. QED
  BY <1>1, <1>2 DEF Ages, Now

\* In a leaf in order, neighbours that differ are enough for all to differ.
LEMMA NeighboursSuffice ==
  ASSUME NEW i \in DOMAIN Indexes, NEW s, NEW r, NEW age, GoodLeaf(s, i, r, age),
         ~HasDuplicates(s, i)
  PROVE  RowsDiffer(i, r)
<1>1. s \in Seq(Entries(i)) /\ Len(s) \in Nat /\ DOMAIN s = 1 .. Len(s)
  BY SequenceFacts DEF GoodLeaf
<1>2. \A p \in 1 .. Len(s) : IsKey(s[p].key, i)
  BY <1>1, EntriesHaveKeys
<1>3. ASSUME NEW p \in 1 .. Len(s), NEW q \in 1 .. Len(s), p < q
      PROVE  Compare(s[p].key, s[q].key, i) # 0 /\ Compare(s[q].key, s[p].key, i) # 0
  <2> DEFINE n == p + 1
  <2>1. n \in 1 .. Len(s) /\ n > 1 /\ n - 1 = p /\ p < n /\ (n = q \/ n < q)
    BY <1>1, <1>3
  <2> HIDE DEF n
  <2>2. Compare(s[p].key, s[n].key, i) # 0
    BY <1>1, <2>1 DEF HasDuplicates
  <2>3. Compare(s[p].key, s[n].key, i) < 0
    BY <2>1, <2>2 DEF GoodLeaf, Before
  <2>4. CASE n = q
    BY <1>2, <2>2, <2>3, <2>4, KeysAreOrdered
  <2>5. CASE n < q
    <3>1. Compare(s[n].key, s[q].key, i) \in Signs
      BY <1>2, <2>1, KeysAreOrdered
    <3>2. Compare(s[n].key, s[q].key, i) <= 0
      BY <2>1, <2>5, <3>1 DEF GoodLeaf, Before, Signs
    <3>3. /\ Compare(s[p].key, s[q].key, i) \in Signs
          /\ Compare(s[q].key, s[p].key, i) = 0 - Compare(s[p].key, s[q].key, i)
      BY <1>2, KeysAreOrdered
    <3>4. ASSUME Compare(s[p].key, s[q].key, i) = 0 PROVE FALSE
      <4>1. Compare(s[q].key, s[p].key, i) <= 0
        BY <3>3, <3>4
      <4>2. Compare(s[n].key, s[p].key, i) <= 0
        BY <1>2, <2>1, <3>2, <4>1, KeysAreOrdered
      <4>3. /\ Compare(s[p].key, s[n].key, i) \in Signs
            /\ Compare(s[n].key, s[p].key, i) = 0 - Compare(s[p].key, s[n].key, i)
        BY <1>2, <2>1, KeysAreOrdered
      <4>4. QED
        BY <2>3, <4>2, <4>3 DEF Signs
    <3>5. QED
      BY <3>3, <3>4 DEF Signs
  <2>6. QED
    BY <2>1, <2>4, <2>5
<1>4. ASSUME NEW a \in RowIDs, NEW b \in RowIDs, r[a] # NoRow, r[b] # NoRow, a # b
      PROVE  Compare(KeyOf(r[a], i), KeyOf(r[b], i), i) # 0
  <2>1. PICK p \in 1 .. Len(s) : s[p].id = a
    BY <1>4 DEF GoodLeaf
  <2>2. PICK q \in 1 .. Len(s) : s[q].id = b
    BY <1>4 DEF GoodLeaf
  <2>3. s[p].key = KeyOf(r[a], i) /\ s[q].key = KeyOf(r[b], i)
    BY <2>1, <2>2 DEF GoodLeaf
  <2>4. p < q \/ q < p
    BY <1>1, <1>4, <2>1, <2>2
  <2>5. QED
    BY <1>3, <2>3, <2>4
<1>5. QED
  BY <1>4 DEF RowsDiffer

\* CREATE INDEX adds a good leaf.
LEMMA CreateIndexKeeps ==
  ASSUME NEW i \in DOMAIN Indexes, LeavesInv, CreateIndex(i)
  PROVE  LeavesInv'
<1> DEFINE age == [id \in RowIDs |-> id]
<1>1. /\ leaf' = [j \in DOMAIN leaf \cup {i} |-> IF j = i THEN Built(i) ELSE leaf[j]]
      /\ placed' = [j \in DOMAIN leaf \cup {i} |-> IF j = i THEN age ELSE placed[j]]
      /\ rows' = rows /\ ops' = ops
      /\ Len(Built(i)) <= Capacity
      /\ Indexes[i].unique => ~HasDuplicates(Built(i), i)
  BY DEF CreateIndex
<1>2. RowsOK /\ \A id \in RowIDs : age[id] = id
  BY DEF LeavesInv
<1>3. age \in [RowIDs -> Ages]
  BY AgesAreNumbers
<1> HIDE DEF age
<1>4. GoodLeaf(Built(i), i, rows, age)
  BY <1>2, BuiltIsGood
<1>5. Indexes[i].unique => RowsDiffer(i, rows)
  BY <1>1, <1>4, NeighboursSuffice
<1>6. ASSUME NEW j \in DOMAIN leaf'
      PROVE  LeafInv(j)'
  <2>1. CASE j = i
    <3>1. leaf'[j] = Built(i) /\ placed'[j] = age
      BY <1>1, <2>1
    <3>2. Ages' = Ages
      BY <1>1 DEF Ages
    <3>3. QED
      BY <1>1, <1>3, <1>4, <1>5, <2>1, <3>1, <3>2 DEF LeafInv
  <2>2. CASE j # i
    <3>1. j \in DOMAIN leaf /\ leaf'[j] = leaf[j] /\ placed'[j] = placed[j]
      BY <1>1, <2>2
    <3>2. LeafInv(j)
      BY <3>1 DEF LeavesInv
    <3>3. Ages' = Ages
      BY <1>1 DEF Ages
    <3>4. QED
      BY <1>1, <3>1, <3>2, <3>3 DEF LeafInv
  <2>3. QED
    BY <2>1, <2>2
<1>7. DOMAIN leaf' \subseteq DOMAIN Indexes /\ DOMAIN placed' = DOMAIN leaf'
  BY <1>1 DEF LeavesInv
<1>8. QED
  BY <1>1, <1>6, <1>7 DEF LeavesInv, RowsOK

\* DROP INDEX takes one away.
LEMMA DropIndexKeeps ==
  ASSUME NEW i \in DOMAIN Indexes, LeavesInv, DropIndex(i)
  PROVE  LeavesInv'
<1>1. /\ leaf' = [j \in DOMAIN leaf \ {i} |-> leaf[j]]
      /\ placed' = [j \in DOMAIN placed \ {i} |-> placed[j]]
      /\ rows' = rows /\ ops' = ops
  BY DEF DropIndex, Restrict
<1>2. DOMAIN placed = DOMAIN leaf /\ DOMAIN leaf \subseteq DOMAIN Indexes
  BY DEF LeavesInv
<1>3. ASSUME NEW j \in DOMAIN leaf'
      PROVE  LeafInv(j)'
  <2>1. j \in DOMAIN leaf /\ leaf'[j] = leaf[j] /\ placed'[j] = placed[j]
    BY <1>1, <1>2
  <2>2. LeafInv(j)
    BY <2>1 DEF LeavesInv
  <2>3. Ages' = Ages
    BY <1>1 DEF Ages
  <2>4. QED
    BY <1>1, <2>1, <2>2, <2>3 DEF LeafInv
<1>4. DOMAIN leaf' \subseteq DOMAIN Indexes /\ DOMAIN placed' = DOMAIN leaf'
  BY <1>1, <1>2
<1>5. QED
  BY <1>1, <1>3, <1>4 DEF LeavesInv, RowsOK

\* A key no entry of the leaf equals equals none of the rows' keys.
LEMMA FreshKeyDiffers ==
  ASSUME NEW i \in DOMAIN leaf, LeavesInv, NEW key, IsKey(key, i), ~HasKey(i, key)
  PROVE  \A a \in Live : /\ Compare(KeyOf(rows[a], i), key, i) # 0
                         /\ Compare(key, KeyOf(rows[a], i), i) # 0
<1>1. GoodLeaf(leaf[i], i, rows, placed[i]) /\ i \in DOMAIN Indexes
  BY DEF LeavesInv, LeafInv
<1>2. ASSUME NEW a \in Live
      PROVE  Compare(KeyOf(rows[a], i), key, i) # 0 /\ Compare(key, KeyOf(rows[a], i), i) # 0
  <2>1. PICK p \in 1 .. Len(leaf[i]) : leaf[i][p].id = a
    BY <1>1 DEF GoodLeaf, Live
  <2>2. leaf[i] \in Seq(Entries(i)) /\ p \in DOMAIN leaf[i]
    BY <1>1, SequenceFacts DEF GoodLeaf
  <2>3. leaf[i][p].key = KeyOf(rows[a], i)
    BY <1>1, <2>1 DEF GoodLeaf
  <2>4. Compare(KeyOf(rows[a], i), key, i) # 0
    BY <2>2, <2>3 DEF HasKey
  <2>5. IsKey(KeyOf(rows[a], i), i)
    BY <1>1, RowsHaveKeys DEF LeavesInv, RowsOK, Live
  <2>6. /\ Compare(KeyOf(rows[a], i), key, i) \in Signs
        /\ Compare(key, KeyOf(rows[a], i), i) = 0 - Compare(KeyOf(rows[a], i), key, i)
    BY <1>1, <2>5, KeysAreOrdered
  <2>7. QED
    BY <2>4, <2>6 DEF Signs
<1>3. QED
  BY <1>2

\* A row with a fresh key may join rows that differ.
LEMMA FreshRowDiffers ==
  ASSUME NEW i, NEW r, NEW r2, NEW id, RowsDiffer(i, r),
         \A j \in RowIDs \ {id} : r2[j] = r[j],
         \A j \in RowIDs \ {id} : r[j] # NoRow =>
           /\ Compare(KeyOf(r[j], i), KeyOf(r2[id], i), i) # 0
           /\ Compare(KeyOf(r2[id], i), KeyOf(r[j], i), i) # 0
  PROVE  RowsDiffer(i, r2)
BY DEF RowsDiffer

\* An insert.
LEMMA InsertKeeps ==
  ASSUME NEW row \in Rows, LeavesInv, Insert(row)
  PROVE  LeavesInv'
<1> DEFINE id == FreeID
<1>1. id \in RowIDs /\ rows[id] = NoRow
  <2>1. RowIDs \ Live \subseteq Nat /\ RowIDs \ Live # {}
    <3>1. RowIDs \subseteq Nat /\ Live \subseteq RowIDs
      BY FS_CardinalityType DEF Live
    <3>2. QED
      BY <3>1 DEF Insert
  <2>2. id \in RowIDs \ Live
    BY <2>1, MinOfBounded DEF FreeID
  <2>3. QED
    BY <2>2 DEF Live
<1>2. /\ rows' = [rows EXCEPT ![id] = row]
      /\ leaf' = [i \in DOMAIN leaf |-> Inserted(leaf[i], KeyOf(row, i), id, i)]
      /\ placed' = [i \in DOMAIN leaf |-> [placed[i] EXCEPT ![id] = Now]]
      /\ ops < MaxOps /\ ops' = ops + 1
      /\ \A i \in DOMAIN leaf : /\ Indexes[i].unique => KeyAccepted(i, KeyOf(row, i))
                                /\ HasRoom(i)
  BY DEF Insert, Count
<1> HIDE DEF id
<1>3. /\ Cardinality(RowIDs) \in Nat /\ ops \in Nat /\ Ages \subseteq Nat
      /\ Now \in Nat /\ \A a \in Ages : a < Now
  BY AgesAreNumbers DEF Now
<1>4. Ages \subseteq Ages' /\ Now \in Ages'
  BY <1>2, <1>3 DEF Ages, Now
<1>5. rows \in [RowIDs -> Rows \cup {NoRow}] /\ DOMAIN leaf \subseteq DOMAIN Indexes
  BY DEF LeavesInv, RowsOK
<1>6. rows'[id] = row /\ \A j \in RowIDs \ {id} : rows'[j] = rows[j]
  BY <1>1, <1>2, <1>5
<1>7. ASSUME NEW i \in DOMAIN leaf
      PROVE  LeafInv(i)'
  <2>1. LeafInv(i) /\ i \in DOMAIN Indexes
    BY <1>5 DEF LeavesInv
  <2>2. /\ GoodLeaf(leaf[i], i, rows, placed[i])
        /\ Len(leaf[i]) <= Capacity
        /\ placed[i] \in [RowIDs -> Ages]
        /\ Indexes[i].unique => RowsDiffer(i, rows)
    BY <2>1 DEF LeafInv
  <2>3. placed'[i] = [placed[i] EXCEPT ![id] = Now]
    BY <1>2
  <2>4. /\ placed'[i][id] = Now
        /\ \A j \in RowIDs \ {id} : placed'[i][j] = placed[i][j] /\ placed[i][j] < placed'[i][id]
    BY <1>1, <1>3, <2>2, <2>3
  <2>5. leaf'[i] = Inserted(leaf[i], KeyOf(row, i), id, i)
    BY <1>2
  <2>6. GoodLeaf(leaf'[i], i, rows', placed'[i]) /\ Len(leaf'[i]) = Len(leaf[i]) + 1
    <3>1. /\ GoodLeaf(Inserted(leaf[i], KeyOf(row, i), id, i), i, rows', placed'[i])
          /\ Len(Inserted(leaf[i], KeyOf(row, i), id, i)) = Len(leaf[i]) + 1
      <4> DEFINE s == leaf[i]  r2 == rows'  age == placed[i]  age2 == placed'[i]
      <4>1. /\ \A j \in RowIDs \ {id} : r2[j] = rows[j] /\ age2[j] = age[j]
            /\ \A j \in RowIDs \ {id} : age[j] < age2[id]
        BY <1>6, <2>4
      <4>2. GoodLeaf(s, i, rows, age) /\ r2[id] = row
        BY <1>6, <2>2
      <4> HIDE DEF s, r2, age, age2
      <4>3. i \in DOMAIN Indexes /\ rows[id] = NoRow
        BY <1>1, <2>1
      <4>4. GoodLeaf(Inserted(s, KeyOf(row, i), id, i), i, r2, age2)
        BY ONLY <1>1, <4>1, <4>2, <4>3, row \in Rows, InsertionKeepsLeaf
      <4>5. Len(Inserted(s, KeyOf(row, i), id, i)) = Len(s) + 1
        BY ONLY <1>1, <4>1, <4>2, <4>3, <4>4, row \in Rows, InsertionKeepsLeaf
      <4>6. QED
        BY <4>4, <4>5 DEF s, r2, age2
    <3>2. QED
      BY <2>5, <3>1
  <2>7. Len(leaf'[i]) <= Capacity
    <3>1. Len(leaf[i]) < Capacity /\ Len(leaf[i]) \in Nat
      BY <1>2, <2>2, SequenceFacts DEF HasRoom, GoodLeaf
    <3>2. QED
      BY <2>6, <3>1
  <2>8. placed'[i] \in [RowIDs -> Ages']
    BY <1>1, <1>4, <2>2, <2>3
  <2>9. ASSUME Indexes[i].unique PROVE RowsDiffer(i, rows')
    <3>1. ~HasKey(i, KeyOf(row, i)) /\ IsKey(KeyOf(row, i), i)
      BY <1>2, <2>1, <2>9, RowsHaveKeys DEF KeyAccepted
    <3>2. \A a \in Live : /\ Compare(KeyOf(rows[a], i), KeyOf(row, i), i) # 0
                          /\ Compare(KeyOf(row, i), KeyOf(rows[a], i), i) # 0
      BY <3>1, FreshKeyDiffers
    <3>3. QED
      BY <1>6, <2>2, <2>9, <3>2, FreshRowDiffers DEF Live
  <2>10. QED
    BY <2>6, <2>7, <2>8, <2>9 DEF LeafInv
<1>8. DOMAIN leaf' = DOMAIN leaf /\ DOMAIN placed' = DOMAIN leaf
  BY <1>2
<1>9. RowsOK'
  BY <1>1, <1>2, <1>5 DEF RowsOK
<1>10. ops' \in 0 .. MaxOps
  BY <1>2, <1>3
<1>11. QED
  BY <1>5, <1>7, <1>8, <1>9, <1>10 DEF LeavesInv

\* A delete.
LEMMA DeleteKeeps ==
  ASSUME NEW id \in RowIDs, LeavesInv, Delete(id)
  PROVE  LeavesInv'
<1>1. /\ rows[id] # NoRow
      /\ rows' = [rows EXCEPT ![id] = NoRow]
      /\ leaf' = [i \in DOMAIN leaf |-> Removed(leaf[i], id)]
      /\ placed' = [i \in DOMAIN leaf |-> [placed[i] EXCEPT ![id] = 0]]
      /\ ops' = ops
  BY DEF Delete, Live
<1>2. rows \in [RowIDs -> Rows \cup {NoRow}] /\ DOMAIN leaf \subseteq DOMAIN Indexes
  BY DEF LeavesInv, RowsOK
<1>3. rows'[id] = NoRow /\ \A j \in RowIDs \ {id} : rows'[j] = rows[j]
  BY <1>1, <1>2
<1>4. Cardinality(RowIDs) \in Nat /\ ops \in Nat /\ Ages' = Ages /\ 0 \in Ages
  BY <1>1, AgesAreNumbers DEF Ages
<1>5. ASSUME NEW i \in DOMAIN leaf
      PROVE  LeafInv(i)'
  <2>1. LeafInv(i) /\ i \in DOMAIN Indexes
    BY <1>2 DEF LeavesInv
  <2>2. /\ GoodLeaf(leaf[i], i, rows, placed[i])
        /\ Len(leaf[i]) <= Capacity
        /\ placed[i] \in [RowIDs -> Ages]
        /\ Indexes[i].unique => RowsDiffer(i, rows)
    BY <2>1 DEF LeafInv
  <2>3. placed'[i] = [placed[i] EXCEPT ![id] = 0] /\ leaf'[i] = Removed(leaf[i], id)
    BY <1>1
  <2>4. \A j \in RowIDs \ {id} : placed'[i][j] = placed[i][j]
    BY <2>2, <2>3
  <2>5. GoodLeaf(leaf'[i], i, rows', placed'[i]) /\ Len(leaf'[i]) = Len(leaf[i]) - 1
    <3>1. /\ GoodLeaf(Removed(leaf[i], id), i, rows', placed'[i])
          /\ Len(Removed(leaf[i], id)) = Len(leaf[i]) - 1
      <4> DEFINE s == leaf[i]  r2 == rows'  age == placed[i]  age2 == placed'[i]
      <4>1. \A j \in RowIDs \ {id} : r2[j] = rows[j] /\ age2[j] = age[j]
        BY <1>3, <2>4
      <4>2. GoodLeaf(s, i, rows, age) /\ r2[id] = NoRow
        BY <1>3, <2>2
      <4> HIDE DEF s, r2, age, age2
      <4>3. GoodLeaf(Removed(s, id), i, r2, age2) /\ Len(Removed(s, id)) = Len(s) - 1
        <5>1. i \in DOMAIN Indexes /\ rows[id] # NoRow
          BY <1>1, <2>1
        <5>2. QED
          BY ONLY <4>1, <4>2, <5>1, id \in RowIDs, RemovalKeepsLeaf
      <4>4. QED
        BY <4>3 DEF s, r2, age2
    <3>2. QED
      BY <2>3, <3>1
  <2>6. Len(leaf'[i]) <= Capacity
    <3>1. Len(leaf[i]) \in Nat
      BY <2>2, SequenceFacts DEF GoodLeaf
    <3>2. QED
      BY <2>2, <2>5, <3>1
  <2>7. placed'[i] \in [RowIDs -> Ages']
    BY <1>4, <2>2, <2>3
  <2>8. Indexes[i].unique => RowsDiffer(i, rows')
    BY <1>3, <2>2 DEF RowsDiffer
  <2>9. QED
    BY <2>5, <2>6, <2>7, <2>8 DEF LeafInv
<1>6. DOMAIN leaf' = DOMAIN leaf /\ DOMAIN placed' = DOMAIN leaf
  BY <1>1
<1>7. RowsOK'
  BY <1>1, <1>2 DEF RowsOK
<1>8. ops' \in 0 .. MaxOps
  BY <1>1 DEF LeavesInv
<1>9. QED
  BY <1>2, <1>5, <1>6, <1>7, <1>8 DEF LeavesInv

\* The leaf of an index whose key an update changes: out with the old entry, in with
\* the new one.
LEMMA MoveKeepsLeaf ==
  ASSUME NEW i \in DOMAIN Indexes, NEW s, NEW r, NEW age, GoodLeaf(s, i, r, age),
         NEW id \in RowIDs, r[id] # NoRow, NEW row \in Rows,
         NEW r2, NEW age2, r2[id] = row,
         \A j \in RowIDs \ {id} : r2[j] = r[j] /\ age2[j] = age[j],
         \A j \in RowIDs \ {id} : age[j] < age2[id]
  PROVE  LET t == Inserted(Removed(s, id), KeyOf(row, i), id, i)
         IN  GoodLeaf(t, i, r2, age2) /\ Len(t) = Len(s)
<1> DEFINE r1 == [j \in RowIDs |-> IF j = id THEN NoRow ELSE r[j]]
           u == Removed(s, id)
           t == Inserted(u, KeyOf(row, i), id, i)
<1>1. r1[id] = NoRow /\ \A j \in RowIDs \ {id} : r1[j] = r[j] /\ age[j] = age[j]
  OBVIOUS
<1>2. \A j \in RowIDs \ {id} : r2[j] = r1[j] /\ age2[j] = age[j]
  OBVIOUS
<1> HIDE DEF r1
<1>3. GoodLeaf(u, i, r1, age) /\ Len(u) = Len(s) - 1
  <2> DEFINE age1 == age
  <2>1. \A j \in RowIDs \ {id} : r1[j] = r[j] /\ age1[j] = age[j]
    BY <1>1
  <2>2. i \in DOMAIN Indexes /\ GoodLeaf(s, i, r, age) /\ r1[id] = NoRow /\ r[id] # NoRow
    BY <1>1
  <2> HIDE DEF age1
  <2>3. GoodLeaf(Removed(s, id), i, r1, age1) /\ Len(Removed(s, id)) = Len(s) - 1
    BY ONLY <2>1, <2>2, id \in RowIDs, RemovalKeepsLeaf
  <2>4. QED
    BY <2>3 DEF age1
<1> HIDE DEF u
<1>4. GoodLeaf(t, i, r2, age2) /\ Len(t) = Len(u) + 1
  <2>1. \A j \in RowIDs \ {id} : age[j] < age2[id]
    OBVIOUS
  <2>2. i \in DOMAIN Indexes /\ GoodLeaf(u, i, r1, age) /\ r1[id] = NoRow /\ r2[id] = row
    BY <1>1, <1>3
  <2> HIDE DEF t
  <2>3. GoodLeaf(Inserted(u, KeyOf(row, i), id, i), i, r2, age2)
    BY ONLY <1>2, <2>1, <2>2, id \in RowIDs, row \in Rows, InsertionKeepsLeaf
  <2>4. Len(Inserted(u, KeyOf(row, i), id, i)) = Len(u) + 1
    BY ONLY <1>2, <2>1, <2>2, <2>3, id \in RowIDs, row \in Rows, InsertionKeepsLeaf
  <2>5. QED
    BY <2>3, <2>4 DEF t
<1>5. Len(s) \in Nat
  BY SequenceFacts DEF GoodLeaf
<1>6. Len(t) = Len(s)
  <2> HIDE DEF t
  <2> QED BY <1>3, <1>4, <1>5
<1>7. QED
  BY <1>4, <1>6 DEF u

\* The leaf of an index whose key it leaves alone.
LEMMA SameKeyKeepsLeaf ==
  ASSUME NEW i, NEW s, NEW r, NEW age, GoodLeaf(s, i, r, age),
         NEW id \in RowIDs, r[id] # NoRow, NEW row \in Rows, KeyOf(r[id], i) = KeyOf(row, i),
         NEW r2, r2[id] = row, \A j \in RowIDs \ {id} : r2[j] = r[j]
  PROVE  GoodLeaf(s, i, r2, age)
<1>1. row # NoRow
  OBVIOUS
<1>2. s \in Seq(Entries(i)) /\ \A p \in 1 .. Len(s) : s[p] \in Entries(i)
  BY SequenceFacts DEF GoodLeaf
<1>3. \A p \in 1 .. Len(s) : s[p].id \in RowIDs
  BY <1>2 DEF Entries
<1>4. \A p \in 1 .. Len(s) : r2[s[p].id] # NoRow /\ s[p].key = KeyOf(r2[s[p].id], i)
  <2>1. ASSUME NEW p \in 1 .. Len(s)
        PROVE  r2[s[p].id] # NoRow /\ s[p].key = KeyOf(r2[s[p].id], i)
    <3>1. r[s[p].id] # NoRow /\ s[p].key = KeyOf(r[s[p].id], i) /\ s[p].id \in RowIDs
      BY <1>3 DEF GoodLeaf
    <3>2. CASE s[p].id = id
      BY <1>1, <3>1, <3>2
    <3>3. CASE s[p].id # id
      BY <3>1, <3>3
    <3>4. QED
      BY <3>2, <3>3
  <2>2. QED
    BY <2>1
<1>5. \A j \in RowIDs : r2[j] # NoRow => r[j] # NoRow
  OBVIOUS
<1>6. QED
  BY <1>4, <1>5 DEF GoodLeaf

\* A row whose key compares as before still differs from the others.
LEMMA EqualKeyDiffers ==
  ASSUME NEW i \in DOMAIN Indexes, RowsOK, RowsDiffer(i, rows), NEW id \in Live, NEW row \in Rows,
         Compare(KeyOf(rows[id], i), KeyOf(row, i), i) = 0
  PROVE  \A a \in Live \ {id} : /\ Compare(KeyOf(rows[a], i), KeyOf(row, i), i) # 0
                                /\ Compare(KeyOf(row, i), KeyOf(rows[a], i), i) # 0
<1> DEFINE new == KeyOf(row, i)
           old == KeyOf(rows[id], i)
<1>1. IsKey(new, i) /\ IsKey(old, i)
  BY RowsHaveKeys DEF Live, RowsOK
<1>2. Compare(old, new, i) = 0 /\ Compare(new, old, i) = 0
  BY <1>1, KeysAreOrdered
<1>3. ASSUME NEW a \in Live \ {id}
      PROVE  Compare(KeyOf(rows[a], i), new, i) # 0 /\ Compare(new, KeyOf(rows[a], i), i) # 0
  <2> DEFINE k == KeyOf(rows[a], i)
  <2>1. IsKey(k, i)
    BY RowsHaveKeys DEF Live, RowsOK
  <2>2. Compare(k, old, i) # 0
    BY DEF RowsDiffer, Live
  <2> HIDE DEF k, new, old
  <2>3. /\ Compare(k, old, i) \in Signs /\ Compare(k, new, i) \in Signs
        /\ Compare(old, k, i) = 0 - Compare(k, old, i)
        /\ Compare(new, k, i) = 0 - Compare(k, new, i)
    BY <1>1, <2>1, KeysAreOrdered
  <2>4. ASSUME Compare(k, new, i) = 0 PROVE FALSE
    <3>1. Compare(k, old, i) <= 0
      BY <1>1, <1>2, <2>1, <2>4, KeysAreOrdered
    <3>2. Compare(old, k, i) <= 0
      BY <1>1, <1>2, <2>1, <2>3, <2>4, KeysAreOrdered
    <3>3. QED
      BY <2>2, <2>3, <3>1, <3>2 DEF Signs
  <2>5. Compare(new, k, i) # 0
    BY <2>3, <2>4 DEF Signs
  <2>6. QED
    BY <2>4, <2>5 DEF k
<1>4. QED
  BY <1>3

\* An update.
LEMMA UpdateKeeps ==
  ASSUME NEW id \in RowIDs, NEW row \in Rows, LeavesInv, Update(id, row)
  PROVE  LeavesInv'
<1>1. /\ rows[id] # NoRow /\ id \in Live
      /\ rows' = [rows EXCEPT ![id] = row]
      /\ leaf' = [i \in DOMAIN leaf |->
                    IF KeyMoved(rows[id], row, i)
                    THEN Inserted(Removed(leaf[i], id), KeyOf(row, i), id, i)
                    ELSE leaf[i]]
      /\ placed' = [i \in DOMAIN leaf |->
                      IF KeyMoved(rows[id], row, i) THEN [placed[i] EXCEPT ![id] = Now]
                      ELSE placed[i]]
      /\ ops < MaxOps /\ ops' = ops + 1
      /\ \A i \in DOMAIN leaf : MustCheck(rows[id], row, i) => KeyAccepted(i, KeyOf(row, i))
  BY DEF Update, Live, Count
<1>2. rows \in [RowIDs -> Rows \cup {NoRow}] /\ DOMAIN leaf \subseteq DOMAIN Indexes /\ RowsOK
  BY DEF LeavesInv, RowsOK
<1>3. rows'[id] = row /\ \A j \in RowIDs \ {id} : rows'[j] = rows[j]
  BY <1>1, <1>2
<1>4. /\ Cardinality(RowIDs) \in Nat /\ ops \in Nat /\ Ages \subseteq Nat
      /\ Now \in Nat /\ \A a \in Ages : a < Now
  BY AgesAreNumbers DEF Now
<1>5. Ages \subseteq Ages' /\ Now \in Ages'
  BY <1>1, <1>4 DEF Ages, Now
<1>6. ASSUME NEW i \in DOMAIN leaf
      PROVE  LeafInv(i)'
  <2>1. LeafInv(i) /\ i \in DOMAIN Indexes
    BY <1>2 DEF LeavesInv
  <2>2. /\ GoodLeaf(leaf[i], i, rows, placed[i])
        /\ Len(leaf[i]) <= Capacity
        /\ placed[i] \in [RowIDs -> Ages]
        /\ Indexes[i].unique => RowsDiffer(i, rows)
    BY <2>1 DEF LeafInv
  <2>3. /\ GoodLeaf(leaf'[i], i, rows', placed'[i]) /\ Len(leaf'[i]) = Len(leaf[i])
        /\ placed'[i] \in [RowIDs -> Ages']
    <3>1. CASE KeyMoved(rows[id], row, i)
      <4>1. /\ placed'[i] = [placed[i] EXCEPT ![id] = Now]
            /\ leaf'[i] = Inserted(Removed(leaf[i], id), KeyOf(row, i), id, i)
        BY <1>1, <3>1
      <4>2. /\ placed'[i][id] = Now
            /\ \A j \in RowIDs \ {id} :
                 placed'[i][j] = placed[i][j] /\ placed[i][j] < placed'[i][id]
        BY <1>4, <2>2, <4>1
      <4> DEFINE s == leaf[i]  r == rows  r2 == rows'  age == placed[i]  age2 == placed'[i]
      <4>3. /\ \A j \in RowIDs \ {id} : r2[j] = r[j] /\ age2[j] = age[j]
            /\ \A j \in RowIDs \ {id} : age[j] < age2[id]
        BY <1>3, <4>2
      <4>4. GoodLeaf(s, i, r, age) /\ r2[id] = row /\ r[id] # NoRow
        BY <1>1, <1>3, <2>2
      <4> HIDE DEF s, r, r2, age, age2
      <4>5. LET t == Inserted(Removed(s, id), KeyOf(row, i), id, i)
            IN  GoodLeaf(t, i, r2, age2) /\ Len(t) = Len(s)
        BY ONLY <2>1, <4>3, <4>4, id \in RowIDs, row \in Rows, MoveKeepsLeaf
      <4>6. GoodLeaf(leaf'[i], i, rows', placed'[i]) /\ Len(leaf'[i]) = Len(leaf[i])
        BY <4>1, <4>5 DEF s, r2, age2
      <4>7. placed'[i] \in [RowIDs -> Ages']
        BY <1>5, <2>2, <4>1
      <4>8. QED
        BY <4>6, <4>7
    <3>2. CASE ~KeyMoved(rows[id], row, i)
      <4>1. placed'[i] = placed[i] /\ leaf'[i] = leaf[i]
        BY <1>1, <3>2
      <4>2. KeyOf(rows[id], i) = KeyOf(row, i)
        BY <3>2 DEF KeyMoved
      <4> DEFINE s == leaf[i]  r == rows  r2 == rows'  age == placed[i]
      <4>3. GoodLeaf(s, i, r, age) /\ KeyOf(r[id], i) = KeyOf(row, i)
        BY <2>2, <4>2
      <4>4. r2[id] = row /\ r[id] # NoRow /\ \A j \in RowIDs \ {id} : r2[j] = r[j]
        BY <1>1, <1>3
      <4> HIDE DEF s, r, r2, age
      <4>5. GoodLeaf(s, i, r2, age)
        BY ONLY <4>3, <4>4, id \in RowIDs, row \in Rows, SameKeyKeepsLeaf
      <4>6. GoodLeaf(leaf'[i], i, rows', placed'[i])
        BY <4>1, <4>5 DEF s, r2, age
      <4>7. placed'[i] \in [RowIDs -> Ages']
        BY <1>5, <2>2, <4>1
      <4>8. QED
        BY <4>1, <4>6, <4>7
    <3>3. QED
      BY <3>1, <3>2
  <2>4. ASSUME Indexes[i].unique PROVE RowsDiffer(i, rows')
    <3>1. \A a \in Live \ {id} : /\ Compare(KeyOf(rows[a], i), KeyOf(row, i), i) # 0
                                 /\ Compare(KeyOf(row, i), KeyOf(rows[a], i), i) # 0
      <4>1. CASE Compare(KeyOf(rows[id], i), KeyOf(row, i), i) = 0
        BY <1>1, <1>2, <2>1, <2>2, <2>4, <4>1, EqualKeyDiffers
      <4>2. CASE Compare(KeyOf(rows[id], i), KeyOf(row, i), i) # 0
        <5>1. ~HasKey(i, KeyOf(row, i)) /\ IsKey(KeyOf(row, i), i)
          BY <1>1, <2>1, <2>4, <4>2, RowsHaveKeys DEF MustCheck, KeyAccepted
        <5>2. QED
          BY <5>1, FreshKeyDiffers
      <4>3. QED
        BY <4>1, <4>2
    <3>2. QED
      BY <1>3, <2>2, <2>4, <3>1, FreshRowDiffers DEF Live
  <2>5. QED
    BY <2>2, <2>3, <2>4 DEF LeafInv
<1>7. DOMAIN leaf' = DOMAIN leaf /\ DOMAIN placed' = DOMAIN leaf
  BY <1>1
<1>8. RowsOK'
  BY <1>1, <1>2 DEF RowsOK
<1>9. ops' \in 0 .. MaxOps
  BY <1>1, <1>4
<1>10. QED
  BY <1>2, <1>6, <1>7, <1>8, <1>9 DEF LeavesInv

LEMMA NextKeepsLeaves == LeavesInv /\ [Next]_vars => LeavesInv'
<1> SUFFICES ASSUME LeavesInv, [Next]_vars PROVE LeavesInv'
  OBVIOUS
<1>1. ASSUME NEW i \in DOMAIN Indexes, CreateIndex(i) PROVE LeavesInv'
  BY <1>1, CreateIndexKeeps
<1>2. ASSUME NEW i \in DOMAIN Indexes, DropIndex(i) PROVE LeavesInv'
  BY <1>2, DropIndexKeeps
<1>3. ASSUME NEW row \in Rows, Insert(row) PROVE LeavesInv'
  BY <1>3, InsertKeeps
<1>4. ASSUME NEW id \in RowIDs, Delete(id) PROVE LeavesInv'
  BY <1>4, DeleteKeeps
<1>5. ASSUME NEW id \in RowIDs, NEW row \in Rows, Update(id, row) PROVE LeavesInv'
  BY <1>5, UpdateKeeps
<1>6. CASE UNCHANGED vars
  BY <1>6 DEF vars, LeavesInv, RowsOK, LeafInv, Ages
<1>7. QED
  BY <1>1, <1>2, <1>3, <1>4, <1>5, <1>6 DEF Next

LEMMA LeavesStaySound == Spec => []LeavesInv
BY InitLeaves, NextKeepsLeaves, PTL DEF Spec

-----------------------------------------------------------------------------
(* The properties.                                                         *)

\* No two rows agree on the key of a unique index, NULLs included, whatever rows,
\* columns and truncation: though an insert looks in one leaf at a time, an update
\* skips indexes whose key compares as before, and CREATE INDEX looks at neighbours.
THEOREM UniqueKeysStayApart == Spec => []UniqueKeysDiffer
<1>1. LeavesInv => UniqueKeysDiffer
  BY DEF LeavesInv, LeafInv, RowsDiffer, UniqueKeysDiffer, Live
<1>2. QED
  BY <1>1, LeavesStaySound, PTL

\* Entries that compare equal stay in the order in which they were put there.
THEOREM EqualKeysStayInOrder == Spec => []EqualKeysKeepOrder
<1>1. ASSUME LeavesInv PROVE EqualKeysKeepOrder
  <2>1. ASSUME NEW i \in DOMAIN leaf, NEW p \in DOMAIN leaf[i], NEW q \in DOMAIN leaf[i],
               p < q, Compare(leaf[i][p].key, leaf[i][q].key, i) = 0
        PROVE  placed[i][leaf[i][p].id] < placed[i][leaf[i][q].id]
    <3>1. GoodLeaf(leaf[i], i, rows, placed[i])
      BY <1>1 DEF LeavesInv, LeafInv
    <3>2. DOMAIN leaf[i] = 1 .. Len(leaf[i])
      BY <3>1, SequenceFacts DEF GoodLeaf
    <3>3. Before(leaf[i][p], leaf[i][q], i, placed[i])
      BY <2>1, <3>1, <3>2 DEF GoodLeaf
    <3>4. QED
      BY <2>1, <3>3 DEF Before
  <2>2. QED
    BY <2>1 DEF EqualKeysKeepOrder
<1>2. QED
  BY <1>1, LeavesStaySound, PTL

\* Every leaf is, up to the order of equal keys, the leaf a rebuild would give.
THEOREM LeavesEqualRebuilds == Spec => []LeafEqualsRebuild
<1>1. ASSUME LeavesInv PROVE LeafEqualsRebuild
  <2>1. ASSUME NEW i \in DOMAIN leaf
        PROVE  /\ leaf[i] \in Seq(Entries(i)) /\ Len(leaf[i]) <= Capacity
               /\ ToSet(leaf[i]) = ToSet(Built(i)) /\ Len(leaf[i]) = Len(Built(i))
               /\ \A p \in DOMAIN leaf[i] : p > 1 => Compare(leaf[i][p - 1].key, leaf[i][p].key, i) <= 0
    <3> DEFINE s == leaf[i]
               age == [id \in RowIDs |-> id]
    <3>1. i \in DOMAIN Indexes /\ RowsOK /\ GoodLeaf(s, i, rows, placed[i]) /\ Len(s) <= Capacity
      BY <1>1 DEF LeavesInv, LeafInv
    <3>2. \A id \in RowIDs : age[id] = id
      OBVIOUS
    <3> HIDE DEF age
    <3>3. GoodLeaf(Built(i), i, rows, age)
      BY <3>1, <3>2, BuiltIsGood
    <3>4. ToSet(s) = ToSet(Built(i)) /\ Len(s) = Len(Built(i))
      <4> HIDE DEF s
      <4>1. /\ Len(s) = Cardinality(Live)
            /\ ToSet(s) = {Entry(KeyOf(rows[id], i), id) : id \in Live}
        BY <3>1, GoodLeavesAgree
      <4> DEFINE b == Built(i)
      <4>2. GoodLeaf(b, i, rows, age)
        BY <3>3
      <4> HIDE DEF b
      <4>3. /\ Len(b) = Cardinality(Live)
            /\ ToSet(b) = {Entry(KeyOf(rows[id], i), id) : id \in Live}
        BY <3>1, <4>2, GoodLeavesAgree
      <4>4. QED
        BY <4>1, <4>3 DEF b
    <3>5. s \in Seq(Entries(i)) /\ DOMAIN s = 1 .. Len(s) /\ Len(s) \in Nat
      BY <3>1, SequenceFacts DEF GoodLeaf
    <3>6. ASSUME NEW p \in DOMAIN s, p > 1 PROVE Compare(s[p - 1].key, s[p].key, i) <= 0
      <4> HIDE DEF s
      <4>1. p \in 1 .. Len(s) /\ p - 1 \in 1 .. Len(s) /\ p - 1 < p
        BY <3>5, <3>6
      <4>2. Before(s[p - 1], s[p], i, placed[i])
        BY <3>1, <4>1 DEF GoodLeaf
      <4>3. Compare(s[p - 1].key, s[p].key, i) \in Signs
        BY <3>1, <3>5, <4>1, EntriesHaveKeys, KeysAreOrdered
      <4>4. QED
        BY <4>2, <4>3 DEF Before, Signs
    <3>7. QED
      BY <3>1, <3>4, <3>5, <3>6
  <2>2. TypeOK
    BY <1>1, <2>1 DEF LeavesInv, TypeOK, RowsOK, Entries
  <2>3. QED
    BY <2>1, <2>2 DEF LeafEqualsRebuild
<1>2. QED
  BY <1>1, LeavesStaySound, PTL

-----------------------------------------------------------------------------
(* Lookups.                                                                *)

\* The windows a bisection of n entries looks at, and a step of it.
Windows(n) == (1 .. n + 1) \X (1 .. n + 1)

Halved(h, n, s, key, i) ==
  [w \in Windows(n) |->
     IF w[1] >= w[2] THEN w[1]
     ELSE LET mid == (w[1] + w[2]) \div 2
          IN  IF AtOrBehind(s, key, i, mid) THEN h[<<w[1], mid>>] ELSE h[<<mid + 1, w[2]>>]]

\* first is where the condition of a bisection turns true, for good.
TurnsAt(first, s, key, i) ==
  /\ first \in 1 .. Len(s) + 1
  /\ \A p \in 1 .. Len(s) : AtOrBehind(s, key, i, p) <=> first <= p

\* The middle of a window that is not empty lies in it, and is not its end.
LEMMA Middle ==
  ASSUME NEW lo \in Nat, NEW hi \in Nat, lo < hi
  PROVE  /\ (lo + hi) \div 2 \in Nat
         /\ lo <= (lo + hi) \div 2 /\ (lo + hi) \div 2 < hi
OBVIOUS

\* Halving ends where the condition turns true: the function that gives that place for
\* every window satisfies the recursion, and by induction over the width of the window
\* no other does.
LEMMA BisectionFinds ==
  ASSUME NEW s, Len(s) \in Nat, NEW key, NEW i, NEW first, TurnsAt(first, s, key, i)
  PROVE  Bisect(s, key, i) = first
<1> DEFINE n == Len(s)
           clamp(w) == IF first < w[1] THEN w[1] ELSE IF first > w[2] THEN w[2] ELSE first
           g == [w \in Windows(n) |-> IF w[1] >= w[2] THEN w[1] ELSE clamp(w)]
           f == CHOOSE h : h = Halved(h, n, s, key, i)
           mid(w) == (w[1] + w[2]) \div 2
<1>1. n \in Nat /\ first \in 1 .. n + 1 /\ \A p \in 1 .. n : AtOrBehind(s, key, i, p) <=> first <= p
  BY DEF TurnsAt
<1>2. \A w \in Windows(n) : /\ w[1] \in Nat /\ w[2] \in Nat /\ w[1] >= 1 /\ w[2] >= 1
                            /\ w[1] <= n + 1 /\ w[2] <= n + 1
  BY <1>1 DEF Windows
<1>3. ASSUME NEW w \in Windows(n), w[1] < w[2]
      PROVE  /\ mid(w) \in 1 .. n /\ w[1] <= mid(w) /\ mid(w) < w[2]
             /\ <<w[1], mid(w)>> \in Windows(n)
             /\ <<mid(w) + 1, w[2]>> \in Windows(n)
  <2>1. mid(w) \in Nat /\ w[1] <= mid(w) /\ mid(w) < w[2]
    BY <1>2, <1>3, Middle
  <2> HIDE DEF mid
  <2>2. /\ mid(w) \in 1 .. n /\ w[1] \in 1 .. n + 1 /\ w[2] \in 1 .. n + 1
        /\ mid(w) \in 1 .. n + 1 /\ mid(w) + 1 \in 1 .. n + 1
    BY <1>1, <1>2, <2>1
  <2>3. QED
    BY <2>1, <2>2 DEF Windows
<1>4. Bisect(s, key, i) = f[<<1, n + 1>>]
  BY DEF Bisect, Halved, Windows
<1>5. ASSUME NEW h
      PROVE  \A w \in Windows(n) :
               Halved(h, n, s, key, i)[w] =
                 IF w[1] >= w[2] THEN w[1]
                 ELSE IF first <= mid(w) THEN h[<<w[1], mid(w)>>] ELSE h[<<mid(w) + 1, w[2]>>]
  <2>1. ASSUME NEW w \in Windows(n)
        PROVE  Halved(h, n, s, key, i)[w] =
                 IF w[1] >= w[2] THEN w[1]
                 ELSE IF first <= mid(w) THEN h[<<w[1], mid(w)>>] ELSE h[<<mid(w) + 1, w[2]>>]
    <3>1. Halved(h, n, s, key, i)[w] =
            IF w[1] >= w[2] THEN w[1]
            ELSE IF AtOrBehind(s, key, i, mid(w)) THEN h[<<w[1], mid(w)>>] ELSE h[<<mid(w) + 1, w[2]>>]
      BY DEF Halved
    <3>2. CASE w[1] >= w[2]
      BY <3>1, <3>2
    <3>3. CASE w[1] < w[2]
      <4>1. mid(w) \in 1 .. n
        BY <1>3, <3>3
      <4> HIDE DEF mid
      <4>2. AtOrBehind(s, key, i, mid(w)) <=> first <= mid(w)
        BY <1>1, <4>1
      <4>3. QED
        BY <3>1, <4>2
    <3>4. QED
      BY <1>2, <3>2, <3>3
  <2>2. QED
    BY <2>1
<1> HIDE DEF mid
<1>6. g = Halved(g, n, s, key, i)
  <2>1. ASSUME NEW w \in Windows(n)
        PROVE  g[w] = Halved(g, n, s, key, i)[w]
    <3>1. CASE w[1] >= w[2]
      BY <1>5, <3>1
    <3>2. CASE w[1] < w[2]
      <4> DEFINE m == mid(w)
                 v == <<w[1], m>>
                 u == <<m + 1, w[2]>>
      <4>1. m \in 1 .. n /\ w[1] <= m /\ m < w[2] /\ v \in Windows(n) /\ u \in Windows(n)
        BY <1>3, <3>2
      <4>2. v[1] = w[1] /\ v[2] = m /\ u[1] = m + 1 /\ u[2] = w[2]
        OBVIOUS
      <4>3. ~(w[1] >= w[2]) /\ w[1] \in Nat /\ w[2] \in Nat /\ m \in Nat /\ first \in Nat
        BY <1>1, <1>2, <3>2, <4>1
      <4> HIDE DEF m, v, u
      <4>4. g[w] = clamp(w)
        BY <4>3
      <4>5. g[v] = (IF w[1] >= m THEN w[1] ELSE clamp(v)) /\ g[u] = (IF m + 1 >= w[2] THEN m + 1 ELSE clamp(u))
        BY <4>1, <4>2
      <4> HIDE DEF g
      <4>6. CASE first <= m
        <5>1. Halved(g, n, s, key, i)[w] = g[v]
          BY <1>5, <4>3, <4>6 DEF m, v, u
        <5>2. g[v] = clamp(w)
          BY <4>1, <4>2, <4>3, <4>5, <4>6
        <5>3. QED
          BY <4>4, <5>1, <5>2
      <4>7. CASE first > m
        <5>1. Halved(g, n, s, key, i)[w] = g[u]
          <6>1. ~(first <= m)
            BY <4>3, <4>7
          <6>2. QED
            BY <1>5, <4>3, <6>1 DEF m, v, u
        <5>2. g[u] = clamp(w)
          BY <4>1, <4>2, <4>3, <4>5, <4>7
        <5>3. QED
          BY <4>4, <5>1, <5>2
      <4>8. QED
        BY <4>3, <4>6, <4>7
    <3>3. QED
      BY <1>2, <3>1, <3>2
  <2>2. g = [w \in Windows(n) |-> g[w]]
    OBVIOUS
  <2> HIDE DEF g
  <2>3. QED
    BY <2>1, <2>2 DEF Halved
<1>7. f = Halved(f, n, s, key, i)
  <2> HIDE DEF g
  <2> QED BY <1>6, Zenon
<1> HIDE DEF f
<1>8. \A w \in Windows(n) : g[w] = IF w[1] >= w[2] THEN w[1] ELSE clamp(w)
  OBVIOUS
<1> HIDE DEF g
\* Nothing is left to look at in an empty window.
<1>9. ASSUME NEW w \in Windows(n), w[1] >= w[2] PROVE f[w] = g[w]
  <2>1. g[w] = w[1]
    BY <1>8, <1>9
  <2>2. Halved(f, n, s, key, i)[w] = w[1]
    BY <1>5, <1>9
  <2>3. QED
    BY ONLY <1>7, <2>1, <2>2
<1> DEFINE Same == {d \in Nat : \A w \in Windows(n) : w[2] <= w[1] + d => f[w] = g[w]}
<1>10. 0 \in Same
  <2>1. ASSUME NEW w \in Windows(n), w[2] <= w[1] + 0 PROVE f[w] = g[w]
    <3>1. w[1] >= w[2]
      BY <1>2, <2>1
    <3>2. QED
      BY <1>9, <3>1
  <2>2. QED
    BY <2>1
<1>11. ASSUME NEW d \in Nat, d \in Same PROVE d + 1 \in Same
  <2>1. ASSUME NEW w \in Windows(n), w[2] <= w[1] + (d + 1) PROVE f[w] = g[w]
    <3>1. CASE w[1] >= w[2]
      BY <1>9, <3>1
    <3>2. CASE w[1] < w[2]
      <4> DEFINE m == mid(w)
                 v == <<w[1], m>>
                 u == <<m + 1, w[2]>>
      <4>1. m \in 1 .. n /\ w[1] <= m /\ m < w[2] /\ v \in Windows(n) /\ u \in Windows(n)
        BY <1>3, <3>2
      <4>2. v[1] = w[1] /\ v[2] = m /\ u[1] = m + 1 /\ u[2] = w[2]
        OBVIOUS
      <4>3. ~(w[1] >= w[2]) /\ w[1] \in Nat /\ w[2] \in Nat /\ m \in Nat
        BY <1>1, <1>2, <3>2, <4>1
      <4>4. /\ f[w] = IF first <= m THEN f[v] ELSE f[u]
            /\ g[w] = IF first <= m THEN g[v] ELSE g[u]
        BY <1>5, <1>6, <1>7, <4>3
      <4> HIDE DEF m, v, u
      <4>5. v[2] <= v[1] + d /\ u[2] <= u[1] + d
        BY <2>1, <4>1, <4>2, <4>3
      <4>6. f[v] = g[v] /\ f[u] = g[u]
        BY <1>11, <4>1, <4>5
      <4>7. QED
        BY <4>4, <4>6
    <3>3. QED
      BY <1>2, <3>1, <3>2
  <2>2. QED
    BY <2>1
<1>12. n \in Same
  <2> HIDE DEF Same
  <2>1. \A d \in Nat : d \in Same
    BY <1>10, <1>11, NumbersByInduction
  <2>2. QED
    BY <1>1, <2>1
<1>13. f[<<1, n + 1>>] = g[<<1, n + 1>>]
  <2> DEFINE w == <<1, n + 1>>
  <2>1. w \in Windows(n) /\ w[2] <= w[1] + n
    BY <1>1 DEF Windows
  <2> HIDE DEF w
  <2>2. f[w] = g[w]
    BY <1>12, <2>1
  <2>3. QED
    BY <2>2 DEF w
<1>14. g[<<1, n + 1>>] = first
  <2> DEFINE w == <<1, n + 1>>
  <2>1. w \in Windows(n) /\ w[1] = 1 /\ w[2] = n + 1
    BY <1>1 DEF Windows
  <2> HIDE DEF w
  <2>2. g[w] = first
    BY <1>1, <1>8, <2>1
  <2>3. QED
    BY <2>2 DEF w
<1>15. QED
  BY <1>4, <1>13, <1>14

\* The keys a lookup may ask for are keys of the index.
LEMMA SearchedKeysAreKeys ==
  ASSUME NEW i \in DOMAIN Indexes, Len(Indexes[i].components) = 1, NEW key \in SearchKeys(i)
  PROVE  IsKey(key, i)
<1> DEFINE cs == Indexes[i].components
<1>1. cs \in Seq([column : {"n", "t"}, nocase : BOOLEAN]) /\ Len(cs) = 1
  OBVIOUS
<1>2. DOMAIN cs = {1}
  <2> HIDE DEF cs
  <2>1. DOMAIN cs = 1 .. 1
    BY <1>1, SequenceFacts
  <2>2. QED
    BY <2>1
<1>3. \A row \in Rows : row.n \in Int \cup {Null} /\ row.t \in Seq(Nat) \cup {Null}
  OBVIOUS
<1>4. \A t \in Texts : KeyText(t) \in Seq(Nat)
  <2>1. \A t \in Texts : t \in Seq(Nat)
    BY <1>3 DEF Texts
  <2>2. \A t \in Seq(Nat) : KeyText(t) \in Seq(Nat)
    BY DEF KeyText
  <2>3. QED
    BY <2>1, <2>2
<1>5. \A n \in Numbers : n \in Int
  BY <1>3 DEF Numbers
<1>6. PICK x : key = <<x>> /\ x \in Values(cs[1])
  <2>1. CASE cs[1].column = "t"
    <3>1. PICK t \in Texts : key = <<KeyText(t)>>
      BY <2>1 DEF SearchKeys
    <3>2. QED
      BY <1>4, <2>1, <3>1 DEF Values
  <2>2. CASE cs[1].column # "t"
    <3>1. PICK n \in Numbers : key = <<n>>
      BY <2>2 DEF SearchKeys
    <3>2. QED
      BY <1>5, <2>2, <3>1 DEF Values
  <2>3. QED
    BY <2>1, <2>2
<1>7. DOMAIN key = {1} /\ key[1] = x
  BY <1>6
<1>8. QED
  BY <1>2, <1>6, <1>7 DEF IsKey

\* A bisection finds a row exactly if some row has a key that compares equal to the
\* one looked for, and then the first of the run.
THEOREM LookupsStayExact == Spec => []LookupsAreExact
<1>1. ASSUME LeavesInv, NEW i \in Searchable, NEW key \in SearchKeys(i)
      PROVE  LET hits == {p \in DOMAIN leaf[i] : Compare(leaf[i][p].key, key, i) = 0}
             IN  FindInLeaf(i, key) = IF hits = {} THEN NotFound ELSE leaf[i][Min(hits)].id
  <2> DEFINE s == leaf[i]
             hits == {p \in DOMAIN s : Compare(s[p].key, key, i) = 0}
             behind == {p \in 1 .. Len(s) : AtOrBehind(s, key, i, p)}
             first == Min(behind \cup {Len(s) + 1})
  <2>1. /\ i \in DOMAIN Indexes /\ i \in DOMAIN leaf /\ Len(Indexes[i].components) = 1
        /\ GoodLeaf(s, i, rows, placed[i])
    BY <1>1 DEF Searchable, LeavesInv, LeafInv
  <2>2. IsKey(key, i)
    BY <1>1, <2>1, SearchedKeysAreKeys
  <2>3. s \in Seq(Entries(i)) /\ Len(s) \in Nat /\ DOMAIN s = 1 .. Len(s)
    BY <2>1, SequenceFacts DEF GoodLeaf
  <2>4. \A p \in 1 .. Len(s) : IsKey(s[p].key, i)
    BY <2>1, <2>3, EntriesHaveKeys
  <2>5. FindInLeaf(i, key) = LET p == Bisect(s, key, i)
                             IN  IF p <= Len(s) /\ Compare(s[p].key, key, i) = 0 THEN s[p].id ELSE NotFound
    BY DEF FindInLeaf
  <2> HIDE DEF s
  <2>6. \A p \in 1 .. Len(s) : /\ Compare(s[p].key, key, i) \in Signs
                               /\ Compare(key, s[p].key, i) = 0 - Compare(s[p].key, key, i)
                               /\ AtOrBehind(s, key, i, p) <=> Compare(s[p].key, key, i) >= 0
    BY <2>1, <2>2, <2>4, KeysAreOrdered DEF AtOrBehind
  <2>7. ASSUME NEW p \in 1 .. Len(s), NEW q \in 1 .. Len(s), p < q
        PROVE  Compare(s[p].key, s[q].key, i) <= 0
    <3>1. Before(s[p], s[q], i, placed[i])
      BY <2>1, <2>7 DEF GoodLeaf
    <3>2. Compare(s[p].key, s[q].key, i) \in Signs
      BY <2>1, <2>4, KeysAreOrdered
    <3>3. QED
      BY <3>1, <3>2 DEF Before, Signs
  \* The condition stays true once it is.
  <2>8. ASSUME NEW p \in 1 .. Len(s), NEW q \in 1 .. Len(s), p < q, AtOrBehind(s, key, i, p)
        PROVE  AtOrBehind(s, key, i, q)
    <3>1. Compare(key, s[p].key, i) <= 0 /\ Compare(s[p].key, s[q].key, i) <= 0
      BY <2>6, <2>7, <2>8 DEF Signs
    <3>2. Compare(key, s[q].key, i) <= 0
      BY <2>1, <2>2, <2>4, <3>1, KeysAreOrdered
    <3>3. QED
      BY <2>6, <3>2 DEF Signs
  <2>9. first \in behind \cup {Len(s) + 1} /\ \A p \in behind \cup {Len(s) + 1} : first <= p
    <3>1. behind \cup {Len(s) + 1} \subseteq Nat /\ behind \cup {Len(s) + 1} # {}
      BY <2>3
    <3> HIDE DEF behind
    <3>2. QED
      BY <3>1, MinOfBounded
  <2> HIDE DEF first
  <2>10. first \in 1 .. Len(s) + 1 /\ first \in Nat
    BY <2>3, <2>9
  <2>11. TurnsAt(first, s, key, i)
    <3>1. ASSUME NEW p \in 1 .. Len(s) PROVE AtOrBehind(s, key, i, p) <=> first <= p
      <4>1. CASE AtOrBehind(s, key, i, p)
        BY <2>9, <4>1
      <4>2. ASSUME first <= p PROVE AtOrBehind(s, key, i, p)
        <5>1. first \in 1 .. Len(s) /\ first # Len(s) + 1
          BY <2>3, <2>10, <4>2
        <5>2. AtOrBehind(s, key, i, first)
          BY <2>9, <5>1
        <5>3. first = p \/ first < p
          BY <2>10, <4>2
        <5>4. QED
          BY <2>8, <5>1, <5>2, <5>3
      <4>3. QED
        BY <4>1, <4>2
    <3>2. QED
      BY <2>10, <3>1 DEF TurnsAt
  <2>12. Bisect(s, key, i) = first
    BY <2>3, <2>11, BisectionFinds
  <2>13. CASE hits = {}
    <3>1. ~(first <= Len(s) /\ Compare(s[first].key, key, i) = 0)
      BY <2>3, <2>10, <2>13
    <3>2. FindInLeaf(i, key) = NotFound
      BY <2>5, <2>12, <3>1
    <3>3. QED
      BY <2>13, <3>2 DEF s
  <2>14. CASE hits # {}
    <3> DEFINE h == Min(hits)
    <3>1. h \in hits /\ \A p \in hits : h <= p
      <4>1. hits \subseteq Nat
        BY <2>3
      <4> HIDE DEF hits
      <4>2. QED
        BY <2>14, <4>1, MinOfBounded
    <3> HIDE DEF h
    <3>2. h \in 1 .. Len(s) /\ Compare(s[h].key, key, i) = 0
      BY <2>3, <3>1
    <3>3. AtOrBehind(s, key, i, h)
      BY <2>6, <3>2
    <3>4. first <= h /\ first \in 1 .. Len(s)
      <4>1. first <= h
        BY <2>11, <3>2, <3>3 DEF TurnsAt
      <4>2. QED
        BY <2>3, <2>10, <3>2, <4>1
    <3>5. Compare(s[first].key, key, i) = 0
      <4>1. AtOrBehind(s, key, i, first)
        BY <2>10, <2>11, <3>4 DEF TurnsAt
      <4>2. first = h \/ Compare(s[first].key, s[h].key, i) <= 0
        BY <2>7, <2>10, <3>2, <3>4
      <4>3. CASE first = h
        BY <3>2, <4>3
      <4>4. CASE Compare(s[first].key, s[h].key, i) <= 0
        <5>1. Compare(s[h].key, key, i) <= 0
          BY <3>2
        <5>2. Compare(s[first].key, key, i) <= 0
          BY <2>1, <2>2, <2>4, <3>2, <3>4, <4>4, <5>1, KeysAreOrdered
        <5>3. QED
          BY <2>6, <3>4, <4>1, <5>2 DEF Signs
      <4>5. QED
        BY <4>2, <4>3, <4>4
    <3>6. first = h
      <4>1. first \in hits
        BY <2>3, <3>4, <3>5
      <4>2. h <= first
        BY <3>1, <4>1
      <4>3. QED
        BY <2>10, <3>2, <3>4, <4>2
    <3>7. FindInLeaf(i, key) = s[h].id
      BY <2>5, <2>12, <3>4, <3>5, <3>6
    <3>8. QED
      BY <2>14, <3>7 DEF h, s
  <2>15. QED
    BY <2>13, <2>14
<1>2. LeavesInv => LookupsAreExact
  BY <1>1 DEF LookupsAreExact
<1>3. QED
  BY <1>2, LeavesStaySound, PTL
=============================================================================
