------------------------- MODULE SchemaStreamProofs -------------------------
(***************************************************************************)
(* Schema streams say what was declared, for any tables, columns, indexes  *)
(* and constraints, any size of a page and any number of operations.       *)
(***************************************************************************)
EXTENDS SchemaStream, Extrema

-----------------------------------------------------------------------------
(* Sequences one behind the other.                                         *)

LEMMA SameSequences ==
  ASSUME NEW T, NEW U, NEW s \in Seq(T), NEW t \in Seq(U), Len(s) = Len(t),
         \A i \in 1 .. Len(s) : s[i] = t[i]
  PROVE  s = t
OBVIOUS

LEMMA Associative ==
  ASSUME NEW T, NEW a \in Seq(T), NEW b \in Seq(T), NEW c \in Seq(T)
  PROVE  (a \o b) \o c = a \o (b \o c)
<1> DEFINE ab == a \o b
           bc == b \o c
           l == ab \o c
           r == a \o bc
           m == Len(a)
           n == Len(b)
           k == Len(c)
<1>1. m \in Nat /\ n \in Nat /\ k \in Nat
  OBVIOUS
<1>2. /\ ab \in Seq(T) /\ Len(ab) = m + n
      /\ \A i \in 1 .. m : ab[i] = a[i]
      /\ \A i \in 1 .. n : ab[i + m] = b[i]
  BY ConcatenationLaws
<1>3. /\ bc \in Seq(T) /\ Len(bc) = n + k
      /\ \A i \in 1 .. n : bc[i] = b[i]
      /\ \A i \in 1 .. k : bc[i + n] = c[i]
  BY ConcatenationLaws
<1> HIDE DEF ab, bc
<1>4. /\ l \in Seq(T) /\ Len(l) = Len(ab) + k
      /\ \A i \in 1 .. Len(ab) : l[i] = ab[i]
      /\ \A i \in 1 .. k : l[i + Len(ab)] = c[i]
  <2>1. ab \in Seq(T)
    BY <1>2
  <2>2. QED
    BY ONLY <2>1, c \in Seq(T), ConcatenationLaws
<1>5. /\ r \in Seq(T) /\ Len(r) = m + Len(bc)
      /\ \A i \in 1 .. m : r[i] = a[i]
      /\ \A i \in 1 .. Len(bc) : r[i + m] = bc[i]
  <2>1. bc \in Seq(T)
    BY <1>3
  <2>2. QED
    BY ONLY <2>1, a \in Seq(T), ConcatenationLaws
<1> HIDE DEF l, r, m, n, k
<1>6. ASSUME NEW i \in 1 .. m + n + k
      PROVE  l[i] = r[i]
  <2>1. CASE i <= m
    BY ONLY <1>1, <1>2, <1>4, <1>5, <2>1, i \in 1 .. m + n + k
  <2>2. CASE m < i /\ i <= m + n
    <3>1. PICK j \in 1 .. n : i = j + m
      <4>1. i - m \in 1 .. n /\ i = (i - m) + m
        BY ONLY <1>1, <2>2, i \in 1 .. m + n + k
      <4>2. QED
        BY ONLY <4>1
    <3>2. l[j + m] = b[j]
      BY ONLY <1>1, <1>2, <1>4, <3>1, <2>2, i \in 1 .. m + n + k
    <3>3. r[j + m] = b[j]
      BY ONLY <1>1, <1>3, <1>5, <3>1
    <3>4. QED
      BY ONLY <3>1, <3>2, <3>3
  <2>3. CASE m + n < i
    <3>1. PICK j \in 1 .. k : i = j + (m + n) /\ i = (j + n) + m /\ j + n \in 1 .. n + k
      <4>1. i - (m + n) \in 1 .. k /\ i = (i - (m + n)) + (m + n) /\ i = ((i - (m + n)) + n) + m
            /\ (i - (m + n)) + n \in 1 .. n + k
        BY ONLY <1>1, <2>3, i \in 1 .. m + n + k
      <4>2. QED
        BY ONLY <4>1
    <3>2. l[i] = c[j]
      BY ONLY <1>2, <1>4, <3>1
    <3>3. r[i] = bc[j + n]
      BY ONLY <1>3, <1>5, <3>1
    <3>4. bc[j + n] = c[j]
      BY ONLY <1>3, <3>1
    <3>5. QED
      BY ONLY <3>2, <3>3, <3>4
  <2>4. QED
    BY ONLY <1>1, <2>1, <2>2, <2>3, i \in 1 .. m + n + k
<1>7. Len(l) = m + n + k /\ Len(r) = Len(l)
  BY ONLY <1>1, <1>2, <1>3, <1>4, <1>5
<1>8. \A i \in 1 .. Len(l) : l[i] = r[i]
  BY ONLY <1>6, <1>7
<1>9. l = r
  BY ONLY <1>4, <1>5, <1>7, <1>8, SameSequences
<1>10. QED
  BY <1>9 DEF l, r, ab, bc

\* A sequence is its front and its last element.
LEMMA LastAppended ==
  ASSUME NEW T, NEW s \in Seq(T), s # <<>>
  PROVE  \E t \in Seq(T) : \E x \in T : s = Append(t, x) /\ Len(s) = Len(t) + 1
<1> DEFINE m == Len(s)
           n == m - 1
           t == [i \in 1 .. n |-> s[i]]
           x == s[m]
<1>1. m \in Nat /\ m # 0
  OBVIOUS
<1>2. n \in Nat /\ m = n + 1
  BY <1>1
<1> HIDE DEF n
<1>3. t \in Seq(T) /\ x \in T /\ Len(t) = n
  BY <1>2
<1>4. s = Append(t, x)
  <2>1. /\ Append(t, x) \in Seq(T) /\ Len(Append(t, x)) = n + 1
        /\ (\A i \in 1 .. n : Append(t, x)[i] = t[i]) /\ Append(t, x)[n + 1] = x
    <3> HIDE DEF t, x
    <3> QED BY <1>3, AppendLaws
  <2>2. ASSUME NEW i \in 1 .. m PROVE s[i] = Append(t, x)[i]
    <3>1. i \in 1 .. n \/ i = n + 1
      BY <1>2
    <3>2. QED
      BY <1>2, <2>1, <3>1
  <2> HIDE DEF t, x
  <2>3. QED
    BY ONLY s \in Seq(T), <1>2, <2>1, <2>2, SameSequences DEF m
<1> HIDE DEF t, x
<1>5. QED
  BY <1>2, <1>3, <1>4 DEF m

\* What the empty sequence has and one more element keeps, every sequence has.
LEMMA SequencesByInduction ==
  ASSUME NEW R, NEW G, <<>> \in G, \A d \in Seq(R) : d \in G => \A r \in R : Append(d, r) \in G
  PROVE  \A s \in Seq(R) : s \in G
<1> DEFINE Long(n) == \A c \in Seq(R) : Len(c) = n => c \in G
           N == {n \in Nat : Long(n)}
<1>1. 0 \in N
  <2>1. \A c \in Seq(R) : Len(c) = 0 => c = <<>>
    OBVIOUS
  <2>2. QED
    BY <2>1
<1>2. ASSUME NEW n \in Nat, n \in N PROVE n + 1 \in N
  <2>1. ASSUME NEW c \in Seq(R), Len(c) = n + 1 PROVE c \in G
    <3>1. PICK d \in Seq(R) : \E x \in R : c = Append(d, x) /\ Len(c) = Len(d) + 1
      <4>1. c # <<>>
        BY <2>1
      <4>2. QED
        BY ONLY <4>1, c \in Seq(R), LastAppended
    <3>2. PICK r \in R : c = Append(d, r) /\ Len(c) = Len(d) + 1
      BY ONLY <3>1
    <3>3. Len(d) = n
      <4>1. Len(d) \in Nat
        OBVIOUS
      <4>2. QED
        BY ONLY <3>2, <4>1, n \in Nat, Len(c) = n + 1
    <3>4. d \in G
      BY <1>2, <3>3
    <3>5. QED
      BY <3>2, <3>4
  <2>2. QED
    BY <2>1
<1> HIDE DEF N
<1>3. \A n \in Nat : n \in N
  BY ONLY <1>1, <1>2, NumbersByInduction
<1>4. ASSUME NEW s \in Seq(R) PROVE s \in G
  <2>1. Len(s) \in N
    BY <1>3
  <2>2. QED
    BY <2>1 DEF N
<1>5. QED
  BY <1>4

\* The partial results of Concat, h[k] of the first k sequences.
Joins(seqs, h) ==
  h[0] = <<>> /\ \A k \in 1 .. Len(seqs) : h[k] = h[k - 1] \o seqs[k]

LEMMA JoinsExist ==
  ASSUME NEW T, NEW seqs \in Seq(Seq(T))
  PROVE  \E h \in [0 .. Len(seqs) -> Seq(T)] : Joins(seqs, h)
<1> DEFINE n == Len(seqs)
           Joined(m) == \E h \in [0 .. m -> Seq(T)] :
                          h[0] = <<>> /\ \A k \in 1 .. m : h[k] = h[k - 1] \o seqs[k]
           G == {m \in Nat : m <= n => Joined(m)}
<1>1. n \in Nat /\ \A k \in 1 .. n : seqs[k] \in Seq(T)
  OBVIOUS
<1> HIDE DEF n, Joined
<1>2. 0 \in G
  <2> DEFINE h == [k \in 0 .. 0 |-> <<>>]
  <2>1. h \in [0 .. 0 -> Seq(T)] /\ h[0] = <<>> /\ \A k \in 1 .. 0 : h[k] = h[k - 1] \o seqs[k]
    OBVIOUS
  <2> HIDE DEF h
  <2>2. Joined(0)
    BY <2>1 DEF Joined
  <2>3. QED
    BY <2>2
<1>3. ASSUME NEW m \in Nat, m \in G PROVE m + 1 \in G
  <2> SUFFICES ASSUME m + 1 <= n PROVE Joined(m + 1)
    OBVIOUS
  <2>1. PICK g \in [0 .. m -> Seq(T)] : g[0] = <<>> /\ \A k \in 1 .. m : g[k] = g[k - 1] \o seqs[k]
    <3>1. Joined(m)
      BY <1>1, <1>3
    <3>2. QED
      BY <3>1 DEF Joined
  <2> DEFINE x == g[m] \o seqs[m + 1]
             h == [k \in 0 .. m + 1 |-> IF k <= m THEN g[k] ELSE x]
  <2>2. x \in Seq(T)
    <3>1. g[m] \in Seq(T) /\ seqs[m + 1] \in Seq(T)
      BY <1>1
    <3>2. QED
      BY ONLY <3>1
  <2>3. h \in [0 .. m + 1 -> Seq(T)] /\ h[0] = <<>>
    <3> HIDE DEF x
    <3> QED BY <2>1, <2>2
  <2>4. ASSUME NEW k \in 1 .. m + 1 PROVE h[k] = h[k - 1] \o seqs[k]
    <3>1. CASE k <= m
      <4>1. k \in 1 .. m /\ k \in 0 .. m + 1 /\ k - 1 \in 0 .. m + 1 /\ k - 1 <= m
        BY <3>1
      <4>2. h[k] = g[k] /\ h[k - 1] = g[k - 1]
        <5> HIDE DEF x
        <5> QED BY <3>1, <4>1
      <4>3. QED
        <5> HIDE DEF h
        <5> QED BY <2>1, <4>1, <4>2
    <3>2. CASE ~(k <= m)
      <4>1. k = m + 1 /\ k - 1 = m /\ m \in 0 .. m + 1 /\ k \in 0 .. m + 1
        BY <3>2
      <4>2. h[k] = x /\ h[m] = g[m]
        <5> HIDE DEF x
        <5> QED BY <3>2, <4>1
      <4>3. QED
        <5> HIDE DEF h
        <5> QED BY <4>1, <4>2
    <3>3. QED
      BY <3>1, <3>2
  <2> HIDE DEF h
  <2>5. QED
    BY <2>3, <2>4 DEF Joined
<1>4. n \in G
  <2> HIDE DEF G
  <2> QED BY <1>1, <1>2, <1>3, NumbersByInduction
<1>5. QED
  <2>1. Joined(n)
    BY <1>1, <1>4
  <2>2. QED
    BY <2>1 DEF Joined, Joins, n

LEMMA JoinsEndInConcat ==
  ASSUME NEW T, NEW seqs \in Seq(Seq(T)), NEW h \in [0 .. Len(seqs) -> Seq(T)], Joins(seqs, h)
  PROVE  Concat(seqs) = h[Len(seqs)]
<1> DEFINE n == Len(seqs)
           Step(f) == [i \in 1 .. Len(seqs) |-> IF i = 1 THEN seqs[i] ELSE f[i - 1] \o seqs[i]]
           f == CHOOSE f : f = Step(f)
           g == [i \in 1 .. n |-> h[i]]
<1>1. n \in Nat /\ (\A k \in 1 .. n : seqs[k] \in Seq(T)) /\ (\A k \in 0 .. n : h[k] \in Seq(T))
      /\ h[0] = <<>> /\ \A k \in 1 .. n : h[k] = h[k - 1] \o seqs[k]
  <2>1. /\ n \in Nat /\ (\A k \in 1 .. n : seqs[k] \in Seq(T))
        /\ \A k \in 0 .. n : h[k] \in Seq(T)
    OBVIOUS
  <2>2. h[0] = <<>> /\ \A k \in 1 .. n : h[k] = h[k - 1] \o seqs[k]
    BY DEF Joins
  <2>3. QED
    BY ONLY <2>1, <2>2
<1>2. CASE n = 0
  <2>1. seqs = <<>>
    BY <1>2
  <2>2. Concat(seqs) = seqs
    BY <1>2 DEF Concat, FlattenSeq
  <2>3. QED
    BY <1>1, <1>2, <2>1, <2>2
<1>3. CASE n # 0
  <2>1. Concat(seqs) = f[n]
    BY <1>3 DEF Concat, FlattenSeq
  <2>2. 1 \in 1 .. n /\ h[1] = seqs[1]
    <3>1. 1 \in 1 .. n /\ h[1] = h[0] \o seqs[1] /\ seqs[1] \in Seq(T)
      <4> HIDE DEF n
      <4>1. 1 \in 1 .. n /\ 1 - 1 = 0
        BY ONLY <1>1, <1>3
      <4>2. QED
        BY ONLY <1>1, <4>1
    <3>2. <<>> \o seqs[1] = seqs[1]
      BY ONLY <3>1
    <3>3. QED
      BY ONLY <1>1, <3>1, <3>2
  <2>3. g = Step(g)
    <3>1. ASSUME NEW i \in 1 .. n PROVE g[i] = IF i = 1 THEN seqs[i] ELSE g[i - 1] \o seqs[i]
      <4>1. CASE i = 1
        BY <2>2, <4>1
      <4>2. CASE i # 1
        <5>1. i - 1 \in 1 .. n /\ h[i] = h[i - 1] \o seqs[i]
          <6>1. i - 1 \in 1 .. n
            BY <4>2
          <6>2. QED
            BY ONLY <1>1, <6>1, i \in 1 .. n
        <5>2. g[i] = h[i] /\ g[i - 1] = h[i - 1]
          BY <5>1
        <5>3. QED
          BY ONLY <4>2, <5>1, <5>2
      <4>3. QED
        BY <4>1, <4>2
    <3>2. QED
      BY <3>1
  <2>4. f = Step(f)
    <3> HIDE DEF g, Step
    <3> QED BY <2>3
  <2> DEFINE G == {m \in Nat : m + 1 <= n => f[m + 1] = h[m + 1]}
  <2>5. \A i \in 1 .. n : f[i] = IF i = 1 THEN seqs[i] ELSE f[i - 1] \o seqs[i]
    <3> HIDE DEF f
    <3> QED BY <2>4
  <2> HIDE DEF f
  <2>6. 0 \in G
    BY <2>2, <2>5
  <2>7. ASSUME NEW m \in Nat, m \in G PROVE m + 1 \in G
    <3> SUFFICES ASSUME (m + 1) + 1 <= n PROVE f[(m + 1) + 1] = h[(m + 1) + 1]
      OBVIOUS
    <3> DEFINE i == (m + 1) + 1
    <3>1. i \in 1 .. n /\ i # 1 /\ i - 1 = m + 1 /\ m + 1 <= n
      BY <1>1
    <3>2. f[m + 1] = h[m + 1]
      BY <2>7, <3>1
    <3> HIDE DEF i
    <3>3. f[i] = f[i - 1] \o seqs[i] /\ h[i] = h[i - 1] \o seqs[i]
      BY ONLY <1>1, <2>5, <3>1
    <3>4. f[i] = h[i]
      BY ONLY <3>1, <3>2, <3>3
    <3>5. QED
      BY <3>4 DEF i
  <2>8. PICK m \in Nat : n = m + 1
    <3>1. n - 1 \in Nat /\ n = (n - 1) + 1
      BY <1>1, <1>3
    <3>2. QED
      BY <3>1
  <2>9. m \in G
    <3> HIDE DEF G, n
    <3> QED BY <2>6, <2>7, NumbersByInduction
  <2>10. f[n] = h[n]
    BY ONLY <2>8, <2>9, n \in Nat, <1>1
  <2>11. QED
    BY ONLY <2>1, <2>10
<1>4. QED
  BY <1>2, <1>3

LEMMA ConcatTyped ==
  ASSUME NEW T, NEW seqs \in Seq(Seq(T))
  PROVE  Concat(seqs) \in Seq(T)
<1>1. PICK h \in [0 .. Len(seqs) -> Seq(T)] : Joins(seqs, h)
  BY JoinsExist
<1>2. Concat(seqs) = h[Len(seqs)]
  BY <1>1, JoinsEndInConcat
<1>3. Len(seqs) \in 0 .. Len(seqs)
  OBVIOUS
<1>4. QED
  BY <1>2, <1>3

LEMMA ConcatOfNone == Concat(<<>>) = <<>>
BY DEF Concat, FlattenSeq

LEMMA ConcatAppended ==
  ASSUME NEW T, NEW seqs \in Seq(Seq(T)), NEW x \in Seq(T)
  PROVE  Concat(Append(seqs, x)) = Concat(seqs) \o x
<1> DEFINE n == Len(seqs)
           more == Append(seqs, x)
<1>1. PICK h \in [0 .. n -> Seq(T)] : Joins(seqs, h)
  BY JoinsExist
<1>2. Concat(seqs) = h[n]
  BY <1>1, JoinsEndInConcat
<1>3. /\ more \in Seq(Seq(T)) /\ Len(more) = n + 1 /\ n \in Nat
      /\ (\A i \in 1 .. n : more[i] = seqs[i]) /\ more[n + 1] = x
  <2>1. x \in Seq(T) /\ n \in Nat
    OBVIOUS
  <2>2. QED
    BY <2>1, AppendLaws
<1> HIDE DEF more
<1> DEFINE g == [k \in 0 .. n + 1 |-> IF k <= n THEN h[k] ELSE h[n] \o x]
<1>4. h[n] \in Seq(T) /\ h[n] \o x \in Seq(T) /\ h[0] = <<>> /\ n \in Nat
      /\ \A k \in 1 .. n : h[k] = h[k - 1] \o seqs[k]
  <2>1. h[n] \in Seq(T) /\ n \in Nat
    OBVIOUS
  <2>2. h[n] \o x \in Seq(T)
    BY ONLY <2>1, x \in Seq(T)
  <2>3. QED
    BY <1>1, <2>1, <2>2 DEF Joins
<1> HIDE DEF n
<1>5. g \in [0 .. Len(more) -> Seq(T)]
  BY <1>3, <1>4
<1>6. Joins(more, g)
  <2>1. g[0] = <<>>
    BY <1>4
  <2>2. ASSUME NEW k \in 1 .. n + 1 PROVE g[k] = g[k - 1] \o more[k]
    <3>1. CASE k <= n
      <4>1. k \in 1 .. n /\ k \in 0 .. n + 1 /\ k - 1 \in 0 .. n + 1 /\ k - 1 <= n
        BY <1>4, <3>1
      <4>2. g[k] = h[k] /\ g[k - 1] = h[k - 1]
        BY <3>1, <4>1
      <4>3. QED
        <5> HIDE DEF g
        <5> QED BY <1>3, <1>4, <4>1, <4>2
    <3>2. CASE ~(k <= n)
      <4>1. k = n + 1 /\ k - 1 = n /\ n \in 0 .. n + 1 /\ k \in 0 .. n + 1
        BY <1>4, <3>2
      <4>2. g[k] = h[n] \o x /\ g[n] = h[n]
        BY <1>4, <3>2, <4>1
      <4>3. QED
        <5> HIDE DEF g
        <5> QED BY <1>3, <4>1, <4>2
    <3>3. QED
      BY <3>1, <3>2
  <2> HIDE DEF g
  <2>3. QED
    BY <1>3, <2>1, <2>2 DEF Joins
<1>7. Concat(more) = g[Len(more)]
  <2> HIDE DEF g
  <2> QED BY <1>3, <1>5, <1>6, JoinsEndInConcat
<1>8. g[n + 1] = h[n] \o x
  BY <1>4, SMTT(60)
<1> HIDE DEF g
<1>9. QED
  BY <1>2, <1>3, <1>7, <1>8 DEF more, n

-----------------------------------------------------------------------------
(* Records one behind the other, f[r] for every record r.                  *)

All(f, recs) == Concat([i \in DOMAIN recs |-> f[recs[i]]])

LEMMA AllTyped ==
  ASSUME NEW R, NEW T, NEW f \in [R -> Seq(T)], NEW recs \in Seq(R)
  PROVE  All(f, recs) \in Seq(T)
<1> DEFINE s == [i \in DOMAIN recs |-> f[recs[i]]]
<1>1. s \in [1 .. Len(recs) -> Seq(T)] /\ Len(recs) \in Nat
  OBVIOUS
<1> HIDE DEF s
<1>2. s \in Seq(Seq(T))
  BY <1>1, FunctionsAreSequences
<1>3. QED
  BY <1>2, ConcatTyped DEF All, s

LEMMA AllOfNone ==
  ASSUME NEW f
  PROVE  All(f, <<>>) = <<>>
<1>1. [i \in DOMAIN <<>> |-> f[<<>>[i]]] = <<>>
  OBVIOUS
<1>2. QED
  BY <1>1, ConcatOfNone DEF All

LEMMA AllAppended ==
  ASSUME NEW R, NEW T, NEW f \in [R -> Seq(T)], NEW recs \in Seq(R), NEW r \in R
  PROVE  All(f, Append(recs, r)) = All(f, recs) \o f[r]
<1> DEFINE s == [i \in DOMAIN recs |-> f[recs[i]]]
           more == Append(recs, r)
           u == [i \in DOMAIN more |-> f[more[i]]]
           n == Len(recs)
           v == Append(s, f[r])
<1>1. s \in [1 .. n -> Seq(T)] /\ n \in Nat /\ f[r] \in Seq(T) /\ \A i \in 1 .. n : s[i] = f[recs[i]]
  OBVIOUS
<1>2. /\ more \in Seq(R) /\ DOMAIN more = 1 .. n + 1
      /\ (\A i \in 1 .. n : more[i] = recs[i]) /\ more[n + 1] = r
  BY AppendLaws
<1> HIDE DEF more
<1>3. u \in [1 .. n + 1 -> Seq(T)] /\ \A i \in 1 .. n + 1 : u[i] = f[more[i]]
  BY <1>2
<1> HIDE DEF s, u
<1>4. s \in Seq(Seq(T)) /\ Len(s) = n
  BY ONLY <1>1, FunctionsAreSequences
<1>5. u \in Seq(Seq(T)) /\ Len(u) = n + 1
  <2>1. n + 1 \in Nat
    BY <1>1
  <2> HIDE DEF n
  <2>2. QED
    BY ONLY <1>3, <2>1, FunctionsAreSequences
<1>6. /\ v \in Seq(Seq(T)) /\ Len(v) = Len(s) + 1
      /\ (\A i \in 1 .. Len(s) : v[i] = s[i]) /\ v[Len(s) + 1] = f[r]
  <2>1. s \in Seq(Seq(T)) /\ f[r] \in Seq(T)
    BY <1>1, <1>4
  <2>2. QED
    BY ONLY <2>1, AppendLaws
<1> HIDE DEF v, n
<1>7. ASSUME NEW i \in 1 .. n + 1 PROVE u[i] = v[i]
  <2>1. i \in 1 .. n \/ i = n + 1
    BY ONLY <1>1, i \in 1 .. n + 1
  <2>2. u[i] = f[more[i]]
    BY ONLY <1>3, i \in 1 .. n + 1
  <2>3. CASE i \in 1 .. n
    <3>1. more[i] = recs[i] /\ s[i] = f[recs[i]] /\ v[i] = s[i]
      BY ONLY <1>1, <1>2, <1>4, <1>6, <2>3
    <3>2. QED
      BY ONLY <2>2, <3>1
  <2>4. CASE i = n + 1
    <3>1. more[i] = r /\ v[i] = f[r]
      BY ONLY <1>2, <1>4, <1>6, <2>4
    <3>2. QED
      BY ONLY <2>2, <3>1
  <2>5. QED
    BY ONLY <2>1, <2>3, <2>4
<1>8. u = v
  BY ONLY <1>4, <1>5, <1>6, <1>7, SameSequences
<1>9. Concat(v) = Concat(s) \o f[r]
  BY <1>1, <1>4, ConcatAppended DEF v
<1>10. QED
  BY <1>8, <1>9 DEF All, u, s, more

LEMMA AllOfOne ==
  ASSUME NEW R, NEW T, NEW f \in [R -> Seq(T)], NEW r \in R
  PROVE  All(f, <<r>>) = f[r]
<1>1. <<r>> = Append(<<>>, r) /\ <<>> \in Seq(R) /\ f[r] \in Seq(T)
  OBVIOUS
<1>2. All(f, Append(<<>>, r)) = All(f, <<>>) \o f[r]
  BY <1>1, AllAppended
<1>3. <<>> \o f[r] = f[r]
  BY ONLY <1>1
<1>4. QED
  BY <1>1, <1>2, <1>3, AllOfNone

\* f gives the records of R their tokens of T.
Texts(f, R, T) == f \in [R -> Seq(T)]

LEMMA AllJoined ==
  ASSUME NEW R, NEW T, NEW f, Texts(f, R, T), NEW a \in Seq(R), NEW b \in Seq(R)
  PROVE  All(f, a \o b) = All(f, a) \o All(f, b)
<1>0. f \in [R -> Seq(T)]
  BY DEF Texts
<1> DEFINE Joined(c) == All(f, a \o c) = All(f, a) \o All(f, c)
           G == {c \in Seq(R) : Joined(c)}
<1>1. All(f, a) \in Seq(T)
  BY <1>0, AllTyped
<1>2. <<>> \in G
  <2>1. <<>> \in Seq(R) /\ a \o <<>> = a /\ All(f, a) \o <<>> = All(f, a)
    BY <1>1
  <2>2. QED
    BY <2>1, AllOfNone
<1>3. ASSUME NEW d \in Seq(R), d \in G, NEW r \in R
      PROVE  Append(d, r) \in G
  <2>1. a \o Append(d, r) = Append(a \o d, r) /\ a \o d \in Seq(R) /\ Append(d, r) \in Seq(R)
    BY ONLY a \in Seq(R), d \in Seq(R), r \in R
  <2>2. All(f, Append(a \o d, r)) = All(f, a \o d) \o f[r]
    BY <1>0, <2>1, AllAppended
  <2>3. All(f, Append(d, r)) = All(f, d) \o f[r]
    BY <1>0, AllAppended
  <2>4. All(f, d) \in Seq(T) /\ f[r] \in Seq(T)
    BY <1>0, AllTyped
  <2>5. (All(f, a) \o All(f, d)) \o f[r] = All(f, a) \o (All(f, d) \o f[r])
    <3> DEFINE x == All(f, a)
               y == All(f, d)
               z == f[r]
    <3>1. x \in Seq(T)
      BY <1>1
    <3>2. y \in Seq(T)
      BY <2>4
    <3>3. z \in Seq(T)
      BY <2>4
    <3> HIDE DEF x, y, z
    <3>4. (x \o y) \o z = x \o (y \o z)
      BY ONLY <3>1, <3>2, <3>3, Associative
    <3>5. QED
      BY <3>4 DEF x, y, z
  <2>6. Joined(Append(d, r))
    BY ONLY <1>3, <2>1, <2>2, <2>3, <2>5
  <2>7. QED
    BY <2>1, <2>6
<1> HIDE DEF G
<1>4. b \in G
  BY <1>2, <1>3, SequencesByInduction
<1>5. QED
  BY <1>4 DEF G

\* Records of at least one token each are not more than their tokens.
LEMMA AllLength ==
  ASSUME NEW R, NEW T, NEW f \in [R -> Seq(T)], NEW recs \in Seq(R), \A r \in R : Len(f[r]) >= 1
  PROVE  Len(All(f, recs)) \in Nat /\ Len(recs) <= Len(All(f, recs))
<1> DEFINE Long(c) == Len(c) <= Len(All(f, c))
           G == {c \in Seq(R) : Long(c)}
<1>1. <<>> \in G
  <2>1. Len(<<>>) = 0 /\ <<>> \in Seq(R)
    OBVIOUS
  <2>2. QED
    BY <2>1, AllOfNone
<1>2. ASSUME NEW d \in Seq(R), d \in G, NEW r \in R
      PROVE  Append(d, r) \in G
  <2>1. All(f, Append(d, r)) = All(f, d) \o f[r]
    BY AllAppended
  <2>2. All(f, d) \in Seq(T) /\ f[r] \in Seq(T) /\ Len(f[r]) >= 1
    BY AllTyped
  <2>3. Len(All(f, d) \o f[r]) = Len(All(f, d)) + Len(f[r]) /\ Len(All(f, d)) \in Nat /\ Len(f[r]) \in Nat
    BY ONLY <2>2
  <2>4. Append(d, r) \in Seq(R) /\ Len(Append(d, r)) = Len(d) + 1 /\ Len(d) \in Nat
    BY ONLY d \in Seq(R), r \in R
  <2>5. Len(d) <= Len(All(f, d))
    BY <1>2
  <2>6. Len(Append(d, r)) <= Len(All(f, Append(d, r)))
    BY ONLY <2>1, <2>2, <2>3, <2>4, <2>5
  <2>7. QED
    BY <2>4, <2>6
<1> HIDE DEF G
<1>3. recs \in G
  BY <1>1, <1>2, SequencesByInduction
<1>4. All(f, recs) \in Seq(T)
  BY AllTyped
<1>5. QED
  BY <1>3, <1>4 DEF G

\* One record as a sequence.
One(x) == <<x>>

LEMMA OneLaws ==
  ASSUME NEW T, NEW x \in T
  PROVE  One(x) \in Seq(T) /\ Len(One(x)) = 1 /\ One(x)[1] = x
BY DEF One

\* The tokens of the records before one, of that one and of those behind it.
Parted(f, T, a, x, b) ==
  /\ All(f, a) \in Seq(T) /\ f[x] \in Seq(T) /\ All(f, b) \in Seq(T)
  /\ All(f, (a \o One(x)) \o b) = (All(f, a) \o f[x]) \o All(f, b)
  /\ All(f, a \o One(x)) = All(f, a) \o f[x]
  /\ All(f, a \o b) = All(f, a) \o All(f, b)

LEMMA AllParted ==
  ASSUME NEW R, NEW T, NEW f, Texts(f, R, T), NEW a \in Seq(R), NEW x \in R, NEW b \in Seq(R)
  PROVE  Parted(f, T, a, x, b)
<1> DEFINE o == One(x)
           h == a \o o
<1>1. o \in Seq(R) /\ h \in Seq(R)
  BY DEF One
<1>2. f \in [R -> Seq(T)]
  BY DEF Texts
<1>3. All(f, a) \in Seq(T) /\ f[x] \in Seq(T) /\ All(f, b) \in Seq(T) /\ All(f, o) = f[x]
  BY <1>2, AllTyped, AllOfOne DEF One
<1> HIDE DEF o
<1>4. o \in Seq(R)
  BY <1>1
<1>5. All(f, a \o b) = All(f, a) \o All(f, b)
  BY ONLY Texts(f, R, T), a \in Seq(R), b \in Seq(R), AllJoined
<1>6. All(f, a \o o) = All(f, a) \o All(f, o)
  BY ONLY Texts(f, R, T), a \in Seq(R), <1>4, AllJoined
<1> HIDE DEF h
<1>7. h \in Seq(R)
  BY <1>1
<1>8. All(f, h \o b) = All(f, h) \o All(f, b)
  BY ONLY Texts(f, R, T), <1>7, b \in Seq(R), AllJoined
<1>9. QED
  BY ONLY <1>3, <1>5, <1>6, <1>8 DEF Parted, h, o

-----------------------------------------------------------------------------
(* Reading.                                                                *)

\* w stands in s from pos on.
At(s, pos, w) ==
  /\ pos \in Nat \ {0} /\ pos + Len(w) <= Len(s) + 1
  /\ \A i \in 1 .. Len(w) : s[(pos - 1) + i] = w[i]

LEMMA AtParts ==
  ASSUME NEW T, NEW s \in Seq(T), NEW pos, NEW a \in Seq(T), NEW b \in Seq(T)
  PROVE  At(s, pos, a \o b) <=> At(s, pos, a) /\ At(s, pos + Len(a), b)
<1> DEFINE m == Len(a)
           n == Len(b)
           l == Len(s)
           c == a \o b
<1>1. /\ c \in Seq(T) /\ Len(c) = m + n
      /\ \A i \in 1 .. m : c[i] = a[i]
      /\ \A i \in 1 .. n : c[i + m] = b[i]
  BY ConcatenationLaws
<1>2. m \in Nat /\ n \in Nat /\ l \in Nat
  OBVIOUS
<1> HIDE DEF c
<1>3. ASSUME At(s, pos, c) PROVE At(s, pos, a) /\ At(s, pos + m, b)
  <2>1. pos \in Nat \ {0} /\ pos + (m + n) <= l + 1 /\ \A i \in 1 .. m + n : s[(pos - 1) + i] = c[i]
    BY <1>1, <1>3 DEF At
  <2> HIDE DEF m, n, l
  <2>2. pos \in Nat \ {0} /\ pos + m <= l + 1 /\ pos + m \in Nat \ {0} /\ (pos + m) + n <= l + 1
    BY ONLY <1>2, <2>1
  <2>3. ASSUME NEW i \in 1 .. m PROVE s[(pos - 1) + i] = a[i]
    <3>1. i \in 1 .. m + n
      BY <1>2
    <3>2. QED
      BY <1>1, <2>1, <3>1
  <2>4. ASSUME NEW i \in 1 .. n PROVE s[((pos + m) - 1) + i] = b[i]
    <3>1. i + m \in 1 .. m + n /\ (pos - 1) + (i + m) = ((pos + m) - 1) + i
      BY ONLY <1>2, <2>1, i \in 1 .. n
    <3>2. s[(pos - 1) + (i + m)] = c[i + m] /\ c[i + m] = b[i]
      BY ONLY <1>1, <2>1, <3>1, i \in 1 .. n
    <3>3. QED
      BY ONLY <3>1, <3>2
  <2>5. QED
    BY <2>2, <2>3, <2>4 DEF At, m, n, l
<1>4. ASSUME At(s, pos, a), At(s, pos + m, b) PROVE At(s, pos, c)
  <2>1. /\ pos \in Nat \ {0} /\ pos + m <= l + 1 /\ \A i \in 1 .. m : s[(pos - 1) + i] = a[i]
        /\ (pos + m) + n <= l + 1 /\ \A i \in 1 .. n : s[((pos + m) - 1) + i] = b[i]
    BY <1>4 DEF At
  <2> HIDE DEF m, n, l
  <2>2. pos + (m + n) <= l + 1
    BY ONLY <1>2, <2>1
  <2>3. ASSUME NEW i \in 1 .. m + n PROVE s[(pos - 1) + i] = c[i]
    <3>1. CASE i \in 1 .. m
      BY <1>1, <2>1, <3>1
    <3>2. CASE i \notin 1 .. m
      <4>1. PICK j \in 1 .. n : i = j + m /\ (pos - 1) + i = ((pos + m) - 1) + j
        <5>1. i - m \in 1 .. n /\ i = (i - m) + m /\ (pos - 1) + i = ((pos + m) - 1) + (i - m)
          BY ONLY <1>2, <2>1, <3>2, i \in 1 .. m + n
        <5>2. QED
          BY ONLY <5>1
      <4>2. QED
        BY ONLY <1>1, <2>1, <4>1
    <3>3. QED
      BY <3>1, <3>2
  <2>4. QED
    <3>1. Len(c) = m + n
      BY <1>1
    <3>2. QED
      BY <2>1, <2>2, <2>3, <3>1 DEF At, l
<1>5. QED
  BY <1>3, <1>4 DEF c

LEMMA AtWhole ==
  ASSUME NEW T, NEW s \in Seq(T)
  PROVE  At(s, 1, s)
<1>1. 1 \in Nat \ {0} /\ Len(s) \in Nat /\ 1 + Len(s) <= Len(s) + 1
  OBVIOUS
<1>2. \A i \in 1 .. Len(s) : (1 - 1) + i = i
  OBVIOUS
<1>3. QED
  BY <1>1, <1>2 DEF At

\* The loop of Repeated, a step at a time.
ReadOn(parse, done) ==
  LET r == parse[done.pos]
  IN  IF done.pos = 0 \/ r.pos = 0 THEN Refused ELSE Parsed(r.pos, Append(done.val, r.val))

LEMMA ReadOnLaws ==
  ASSUME NEW parse, NEW p, NEW q, NEW d, NEW r, parse[p] = Parsed(q, r), p # 0, q # 0
  PROVE  ReadOn(parse, Parsed(p, d)) = Parsed(q, Append(d, r))
BY SMTT(60) DEF ReadOn, Parsed

Reads(h, parse, pos, n) ==
  h = [k \in 0 .. n |-> IF k = 0 THEN Parsed(pos, <<>>) ELSE ReadOn(parse, h[k - 1])]

LEMMA ReadingsExist ==
  ASSUME NEW parse, NEW pos, NEW n \in Nat
  PROVE  \E h : Reads(h, parse, pos, n)
<1> DEFINE G == {m \in Nat : \E h : Reads(h, parse, pos, m)}
<1>1. 0 \in G
  <2> DEFINE h == [k \in 0 .. 0 |-> Parsed(pos, <<>>)]
  <2>1. h = [k \in 0 .. 0 |-> IF k = 0 THEN Parsed(pos, <<>>) ELSE ReadOn(parse, h[k - 1])]
    OBVIOUS
  <2>2. Reads(h, parse, pos, 0)
    BY <2>1 DEF Reads
  <2>3. QED
    BY <2>2
<1>2. ASSUME NEW m \in Nat, m \in G PROVE m + 1 \in G
  <2>1. PICK g : Reads(g, parse, pos, m)
    BY <1>2
  <2> DEFINE h == [k \in 0 .. m + 1 |-> IF k <= m THEN g[k] ELSE ReadOn(parse, g[m])]
  <2>2. \A k \in 0 .. m : g[k] = IF k = 0 THEN Parsed(pos, <<>>) ELSE ReadOn(parse, g[k - 1])
    BY <2>1 DEF Reads
  <2>3. ASSUME NEW k \in 0 .. m + 1
        PROVE  h[k] = IF k = 0 THEN Parsed(pos, <<>>) ELSE ReadOn(parse, h[k - 1])
    <3>1. CASE k = 0
      <4>1. h[0] = g[0] /\ g[0] = Parsed(pos, <<>>)
        BY <2>2
      <4>2. QED
        BY <3>1, <4>1
    <3>2. CASE k # 0 /\ k <= m
      <4>1. k \in 0 .. m /\ k - 1 \in 0 .. m + 1 /\ k - 1 <= m
        BY <3>2
      <4>2. h[k] = g[k] /\ h[k - 1] = g[k - 1]
        BY <3>2, <4>1
      <4>3. QED
        <5> HIDE DEF h
        <5> QED BY <2>2, <3>2, <4>1, <4>2
    <3>3. CASE k = m + 1
      <4>1. h[k] = ReadOn(parse, g[m]) /\ k - 1 = m /\ h[m] = g[m] /\ k # 0
        BY <3>3
      <4>2. QED
        <5> HIDE DEF h
        <5> QED BY <4>1
    <3>4. QED
      BY <3>1, <3>2, <3>3
  <2>4. h = [k \in 0 .. m + 1 |-> h[k]]
    OBVIOUS
  <2> HIDE DEF h
  <2>5. Reads(h, parse, pos, m + 1)
    BY <2>3, <2>4 DEF Reads
  <2>6. QED
    BY <2>5
<1> HIDE DEF G
<1>3. n \in G
  BY <1>1, <1>2, NumbersByInduction
<1>4. QED
  BY <1>3 DEF G

LEMMA ReadingsAgree ==
  ASSUME NEW parse, NEW pos, NEW m \in Nat, NEW n \in Nat, m <= n,
         NEW g, Reads(g, parse, pos, m), NEW h, Reads(h, parse, pos, n)
  PROVE  g[m] = h[m]
<1> DEFINE G == {k \in Nat : k <= m => g[k] = h[k]}
<1>1. /\ \A k \in 0 .. m : g[k] = IF k = 0 THEN Parsed(pos, <<>>) ELSE ReadOn(parse, g[k - 1])
      /\ \A k \in 0 .. n : h[k] = IF k = 0 THEN Parsed(pos, <<>>) ELSE ReadOn(parse, h[k - 1])
  BY DEF Reads
<1>2. 0 \in G
  BY <1>1
<1>3. ASSUME NEW k \in Nat, k \in G PROVE k + 1 \in G
  <2> SUFFICES ASSUME k + 1 <= m PROVE g[k + 1] = h[k + 1]
    OBVIOUS
  <2> DEFINE j == k + 1
  <2>1. j \in 0 .. m /\ j \in 0 .. n /\ j # 0 /\ j - 1 = k /\ g[k] = h[k]
    BY <1>3
  <2> HIDE DEF j
  <2>2. g[j] = ReadOn(parse, g[j - 1]) /\ h[j] = ReadOn(parse, h[j - 1])
    BY ONLY <1>1, <2>1
  <2>3. g[j] = h[j]
    BY ONLY <2>1, <2>2
  <2>4. QED
    BY <2>3 DEF j
<1>4. m \in G
  <2> HIDE DEF G
  <2> QED BY <1>2, <1>3, NumbersByInduction
<1>5. QED
  BY <1>4

LEMMA RepeatedSteps ==
  ASSUME NEW parse, NEW pos
  PROVE  /\ Repeated(parse, pos, 0) = Parsed(pos, <<>>)
         /\ \A n \in Nat : Repeated(parse, pos, n + 1) = ReadOn(parse, Repeated(parse, pos, n))
<1> DEFINE read(n) == CHOOSE h : Reads(h, parse, pos, n)
<1>1. \A n \in Nat : Reads(read(n), parse, pos, n)
  BY ReadingsExist
<1>2. ASSUME NEW n \in Nat PROVE Repeated(parse, pos, n) = read(n)[n]
  BY DEF Repeated, Reads, ReadOn
<1> HIDE DEF read
<1>3. read(0)[0] = Parsed(pos, <<>>)
  <2>1. Reads(read(0), parse, pos, 0)
    BY <1>1
  <2>2. QED
    BY <2>1 DEF Reads
<1>4. ASSUME NEW n \in Nat
      PROVE  Repeated(parse, pos, n + 1) = ReadOn(parse, Repeated(parse, pos, n))
  <2> DEFINE j == n + 1
             h == read(j)
             g == read(n)
  <2>1. j \in Nat /\ j \in 0 .. j /\ j # 0 /\ j - 1 = n /\ n <= j
    OBVIOUS
  <2>2. Reads(h, parse, pos, j) /\ Reads(g, parse, pos, n)
    <3> HIDE DEF j
    <3> QED BY <1>1, <2>1
  <2>3. Repeated(parse, pos, j) = h[j] /\ Repeated(parse, pos, n) = g[n]
    <3> HIDE DEF j
    <3> QED BY <1>2, <2>1
  <2> HIDE DEF g, h, j
  <2>4. g[n] = h[n]
    BY <2>1, <2>2, ReadingsAgree
  <2>5. h[j] = ReadOn(parse, h[n])
    BY <2>1, <2>2 DEF Reads
  <2>6. Repeated(parse, pos, j) = ReadOn(parse, Repeated(parse, pos, n))
    BY ONLY <2>3, <2>4, <2>5
  <2>7. QED
    BY <2>6 DEF j
<1>5. QED
  BY <1>2, <1>3, <1>4

\* parse[p] finds any record of R that stands at p, and what is behind it.
Finds(parse, s, R, f) ==
  \A r \in R : \A p \in Nat \ {0} : At(s, p, f[r]) => parse[p] = Parsed(p + Len(f[r]), r)

LEMMA RecordsAreRead ==
  ASSUME NEW R, NEW T, NEW f \in [R -> Seq(T)], NEW recs \in Seq(R), NEW s \in Seq(T), NEW parse,
         Finds(parse, s, R, f), NEW pos, At(s, pos, All(f, recs))
  PROVE  Repeated(parse, pos, Len(recs)) = Parsed(pos + Len(All(f, recs)), recs)
<1> DEFINE Read(c) == At(s, pos, All(f, c))
                        => Repeated(parse, pos, Len(c)) = Parsed(pos + Len(All(f, c)), c)
           G == {c \in Seq(R) : Read(c)}
<1>1. <<>> \in G
  <2>1. Len(<<>>) = 0 /\ <<>> \in Seq(R)
    OBVIOUS
  <2>2. ASSUME At(s, pos, <<>>)
        PROVE  Repeated(parse, pos, 0) = Parsed(pos + 0, <<>>)
    <3>1. pos + 0 = pos
      BY <2>2 DEF At
    <3>2. QED
      BY <3>1, RepeatedSteps
  <2>3. QED
    BY <2>1, <2>2, AllOfNone
<1>2. ASSUME NEW d \in Seq(R), d \in G, NEW r \in R
      PROVE  Append(d, r) \in G
  <2> DEFINE a == All(f, d)
             w == f[r]
             next == pos + Len(a)
             c == Append(d, r)
             n == Len(d)
  <2>1. All(f, c) = a \o w /\ a \in Seq(T) /\ w \in Seq(T)
    BY AllAppended, AllTyped
  <2>2. c \in Seq(R) /\ Len(c) = n + 1 /\ n \in Nat
    BY ONLY d \in Seq(R), r \in R
  <2>3. ASSUME At(s, pos, a \o w)
        PROVE  Repeated(parse, pos, n + 1) = Parsed(pos + Len(a \o w), c)
    <3> HIDE DEF a, w, n
    <3>1. At(s, pos, a) /\ At(s, next, w)
      BY ONLY <2>1, <2>3, s \in Seq(T), AtParts
    <3>2. Len(a) \in Nat /\ Len(w) \in Nat /\ Len(a \o w) = Len(a) + Len(w)
      BY ONLY <2>1
    <3>3. next \in Nat \ {0} /\ next + Len(w) \in Nat \ {0} /\ next + Len(w) = pos + Len(a \o w)
      <4>1. pos \in Nat \ {0}
        BY <3>1 DEF At
      <4>2. QED
        BY ONLY <3>2, <4>1
    <3>4. Repeated(parse, pos, n) = Parsed(next, d)
      <4>1. At(s, pos, All(f, d)) => Repeated(parse, pos, Len(d)) = Parsed(pos + Len(All(f, d)), d)
        BY <1>2
      <4>2. QED
        BY ONLY <3>1, <4>1 DEF a, n
    <3> HIDE DEF next, c
    <3>5. parse[next] = Parsed(next + Len(w), r)
      BY ONLY <3>1, <3>3, r \in R, Finds(parse, s, R, f) DEF Finds, w
    <3>6. Repeated(parse, pos, n + 1) = ReadOn(parse, Parsed(next, d))
      BY ONLY <2>2, <3>4, RepeatedSteps
    <3>7. ReadOn(parse, Parsed(next, d)) = Parsed(next + Len(w), Append(d, r))
      <4>1. next # 0 /\ next + Len(w) # 0
        BY ONLY <3>3
      <4>2. QED
        BY ONLY <3>5, <4>1, ReadOnLaws
    <3>8. QED
      BY ONLY <3>3, <3>6, <3>7 DEF c
  <2> HIDE DEF a, w, next, c, n
  <2>4. Read(c)
    BY ONLY <2>1, <2>2, <2>3
  <2>5. QED
    BY <2>2, <2>4 DEF c
<1> HIDE DEF G
<1>3. recs \in G
  BY <1>1, <1>2, SequencesByInduction
<1>4. QED
  BY <1>3 DEF G

\* What is read of the first tokens of w.
LEMMA TokensOf1 ==
  ASSUME NEW s, NEW pos, NEW w, Len(w) = 1, Len(s) \in Nat, At(s, pos, w)
  PROVE  /\ pos \in Nat \ {0} /\ pos + 0 <= Len(s)
         /\ s[pos] = w[1]
<1>1. pos \in Nat \ {0} /\ pos + 1 <= Len(s) + 1 /\ \A i \in 1 .. 1 : s[(pos - 1) + i] = w[i]
  BY DEF At
<1>2. (pos - 1) + 1 = pos
  BY <1>1
<1>3. s[(pos - 1) + 1] = w[1]
  BY ONLY <1>1
<1>4. QED
  BY ONLY <1>1, <1>2, <1>3, Len(s) \in Nat

LEMMA TokensOf2 ==
  ASSUME NEW s, NEW pos, NEW w, Len(w) = 2, Len(s) \in Nat, At(s, pos, w)
  PROVE  /\ pos \in Nat \ {0} /\ pos + 1 <= Len(s)
         /\ s[pos] = w[1] /\ s[pos + 1] = w[2]
<1>1. pos \in Nat \ {0} /\ pos + 2 <= Len(s) + 1 /\ \A i \in 1 .. 2 : s[(pos - 1) + i] = w[i]
  BY DEF At
<1>2. (pos - 1) + 1 = pos /\ (pos - 1) + 2 = pos + 1
  BY <1>1
<1>3. s[(pos - 1) + 1] = w[1] /\ s[(pos - 1) + 2] = w[2]
  BY ONLY <1>1
<1>4. QED
  BY ONLY <1>1, <1>2, <1>3, Len(s) \in Nat

LEMMA TokensOf3 ==
  ASSUME NEW s, NEW pos, NEW w, Len(w) = 3, Len(s) \in Nat, At(s, pos, w)
  PROVE  /\ pos \in Nat \ {0} /\ pos + 2 <= Len(s)
         /\ s[pos] = w[1] /\ s[pos + 1] = w[2] /\ s[pos + 2] = w[3]
<1>1. pos \in Nat \ {0} /\ pos + 3 <= Len(s) + 1 /\ \A i \in 1 .. 3 : s[(pos - 1) + i] = w[i]
  BY DEF At
<1>2. (pos - 1) + 1 = pos /\ (pos - 1) + 2 = pos + 1 /\ (pos - 1) + 3 = pos + 2
  BY <1>1
<1>3. s[(pos - 1) + 1] = w[1] /\ s[(pos - 1) + 2] = w[2] /\ s[(pos - 1) + 3] = w[3]
  BY ONLY <1>1
<1>4. QED
  BY ONLY <1>1, <1>2, <1>3, Len(s) \in Nat

LEMMA TokensOf4 ==
  ASSUME NEW s, NEW pos, NEW w, Len(w) = 4, Len(s) \in Nat, At(s, pos, w)
  PROVE  /\ pos \in Nat \ {0} /\ pos + 3 <= Len(s)
         /\ s[pos] = w[1] /\ s[pos + 1] = w[2] /\ s[pos + 2] = w[3] /\ s[pos + 3] = w[4]
<1>1. pos \in Nat \ {0} /\ pos + 4 <= Len(s) + 1 /\ \A i \in 1 .. 4 : s[(pos - 1) + i] = w[i]
  BY DEF At
<1>2. (pos - 1) + 1 = pos /\ (pos - 1) + 2 = pos + 1 /\ (pos - 1) + 3 = pos + 2 /\ (pos - 1) + 4 = pos + 3
  BY <1>1
<1>3. s[(pos - 1) + 1] = w[1] /\ s[(pos - 1) + 2] = w[2] /\ s[(pos - 1) + 3] = w[3] /\ s[(pos - 1) + 4] = w[4]
  BY ONLY <1>1
<1>4. QED
  BY ONLY <1>1, <1>2, <1>3, Len(s) \in Nat

LEMMA TokensOf5 ==
  ASSUME NEW s, NEW pos, NEW w, Len(w) = 5, Len(s) \in Nat, At(s, pos, w)
  PROVE  /\ pos \in Nat \ {0} /\ pos + 4 <= Len(s)
         /\ s[pos] = w[1] /\ s[pos + 1] = w[2] /\ s[pos + 2] = w[3] /\ s[pos + 3] = w[4] /\ s[pos + 4] = w[5]
<1>1. pos \in Nat \ {0} /\ pos + 5 <= Len(s) + 1 /\ \A i \in 1 .. 5 : s[(pos - 1) + i] = w[i]
  BY DEF At
<1>2. (pos - 1) + 1 = pos /\ (pos - 1) + 2 = pos + 1 /\ (pos - 1) + 3 = pos + 2 /\ (pos - 1) + 4 = pos + 3 /\ (pos - 1) + 5 = pos + 4
  BY <1>1
<1>3. s[(pos - 1) + 1] = w[1] /\ s[(pos - 1) + 2] = w[2] /\ s[(pos - 1) + 3] = w[3] /\ s[(pos - 1) + 4] = w[4] /\ s[(pos - 1) + 5] = w[5]
  BY ONLY <1>1
<1>4. QED
  BY ONLY <1>1, <1>2, <1>3, Len(s) \in Nat

LEMMA TokensOf7 ==
  ASSUME NEW s, NEW pos, NEW w, Len(w) = 7, Len(s) \in Nat, At(s, pos, w)
  PROVE  /\ pos \in Nat \ {0} /\ pos + 6 <= Len(s)
         /\ s[pos] = w[1] /\ s[pos + 1] = w[2] /\ s[pos + 2] = w[3] /\ s[pos + 3] = w[4] /\ s[pos + 4] = w[5] /\ s[pos + 5] = w[6] /\ s[pos + 6] = w[7]
<1>1. pos \in Nat \ {0} /\ pos + 7 <= Len(s) + 1 /\ \A i \in 1 .. 7 : s[(pos - 1) + i] = w[i]
  BY DEF At
<1>2. (pos - 1) + 1 = pos /\ (pos - 1) + 2 = pos + 1 /\ (pos - 1) + 3 = pos + 2 /\ (pos - 1) + 4 = pos + 3 /\ (pos - 1) + 5 = pos + 4 /\ (pos - 1) + 6 = pos + 5 /\ (pos - 1) + 7 = pos + 6
  BY <1>1
<1>3. s[(pos - 1) + 1] = w[1] /\ s[(pos - 1) + 2] = w[2] /\ s[(pos - 1) + 3] = w[3] /\ s[(pos - 1) + 4] = w[4] /\ s[(pos - 1) + 5] = w[5] /\ s[(pos - 1) + 6] = w[6] /\ s[(pos - 1) + 7] = w[7]
  BY ONLY <1>1
<1>4. QED
  BY ONLY <1>1, <1>2, <1>3, Len(s) \in Nat

\* The first token of a sequence and those behind it.
LEMMA NextToken ==
  ASSUME NEW T, NEW s \in Seq(T), NEW pos, NEW a \in T, NEW w \in Seq(T), At(s, pos, <<a>> \o w)
  PROVE  pos \in Nat \ {0} /\ pos + Len(w) <= Len(s) /\ s[pos] = a /\ At(s, pos + 1, w)
<1>1. <<a>> \in Seq(T) /\ Len(<<a>>) = 1 /\ Len(s) \in Nat /\ Len(w) \in Nat
  OBVIOUS
<1>2. At(s, pos, <<a>>) /\ At(s, pos + 1, w)
  BY ONLY <1>1, s \in Seq(T), w \in Seq(T), At(s, pos, <<a>> \o w), AtParts
<1>3. pos \in Nat \ {0} /\ s[pos] = a
  <2>1. pos \in Nat \ {0} /\ s[pos] = <<a>>[1]
    BY ONLY <1>1, <1>2, TokensOf1
  <2>2. QED
    BY ONLY <2>1
<1>4. (pos + 1) + Len(w) <= Len(s) + 1
  BY <1>2 DEF At
<1>5. QED
  BY ONLY <1>1, <1>2, <1>3, <1>4

\* A counter and the records it counts.
LEMMA ArrayIsRead ==
  ASSUME NEW R, NEW T, NEW f \in [R -> Seq(T)], NEW recs \in Seq(R), NEW s \in Seq(T), NEW parse,
         Len(recs) \in T, Finds(parse, s, R, f), \A r \in R : Len(f[r]) >= 1,
         NEW pos, At(s, pos, <<Len(recs)>> \o All(f, recs))
  PROVE  /\ pos \in Nat \ {0} /\ pos <= Len(s) /\ s[pos] = Len(recs) /\ Len(recs) \in 0 .. Len(s) - pos
         /\ At(s, pos + 1, All(f, recs))
         /\ Repeated(parse, pos + 1, Len(recs)) = Parsed((pos + 1) + Len(All(f, recs)), recs)
<1> DEFINE n == Len(recs)
           w == All(f, recs)
<1>1. w \in Seq(T) /\ Len(w) \in Nat /\ n <= Len(w) /\ n \in Nat /\ Len(s) \in Nat
  <2>1. w \in Seq(T)
    BY AllTyped
  <2>2. Len(w) \in Nat /\ n <= Len(w)
    BY ONLY f \in [R -> Seq(T)], recs \in Seq(R), \A r \in R : Len(f[r]) >= 1, AllLength
  <2>3. QED
    BY <2>1, <2>2
<1>2. pos \in Nat \ {0} /\ pos + Len(w) <= Len(s) /\ s[pos] = n /\ At(s, pos + 1, w)
  <2>1. n \in T /\ At(s, pos, <<n>> \o w)
    OBVIOUS
  <2> HIDE DEF n, w
  <2>2. QED
    BY ONLY <1>1, <2>1, s \in Seq(T), NextToken
<1>3. Repeated(parse, pos + 1, n) = Parsed((pos + 1) + Len(w), recs)
  <2> DEFINE p == pos + 1
  <2>1. At(s, p, All(f, recs))
    BY <1>2
  <2> HIDE DEF p
  <2>2. Repeated(parse, p, Len(recs)) = Parsed(p + Len(All(f, recs)), recs)
    BY ONLY f \in [R -> Seq(T)], recs \in Seq(R), s \in Seq(T), Finds(parse, s, R, f), <2>1, RecordsAreRead
  <2>3. QED
    BY <2>2 DEF p
<1> HIDE DEF n, w
<1>4. n \in 0 .. Len(s) - pos /\ pos <= Len(s)
  BY ONLY <1>1, <1>2
<1>5. QED
  BY ONLY <1>2, <1>3, <1>4 DEF n, w

-----------------------------------------------------------------------------
(* What can be declared, and how each record of it is written and read.    *)

Token == Int \cup Tables \cup ColumnNames \cup IndexNames \cup {NoName}

ColumnRecs == [name : ColumnNames, id : Int]
NameLists == Seq(ColumnNames) \ {<<>>}
IndexedRecs == [name : ColumnNames, descending : BOOLEAN, nocase : BOOLEAN]
IndexRecs == [name : IndexNames, id : Int, unique : BOOLEAN, primary : BOOLEAN, root : Pages,
              columns : Seq(IndexedRecs) \ {<<>>}]
ColumnOnly == {<<[name |-> c]>> : c \in ColumnNames}
KeyRecs == [kind : KeyKinds, name : ColumnNames, id : Int, owner : Int, table : Tables \cup {NoName},
            index : IndexNames, columns : Seq(ColumnRecs)]
NotNullRecs == [kind : {NotNull}, name : ColumnNames, id : Int, owner : Int,
                table : Tables \cup {NoName}, columns : ColumnOnly]
CheckRecs == [kind : {Check}, name : ColumnNames, id : Int, owner : Int,
              table : Tables \cup {NoName}, columns : ColumnOnly, min : Int, max : Int]
RuleRecs == KeyRecs \cup NotNullRecs \cup CheckRecs
Schemas == [columns : Seq(ColumnRecs), indexes : Seq(IndexRecs), constraints : Seq(RuleRecs), root : Pages]

ColumnText == [c \in ColumnRecs |-> ColumnDef(c)]
IndexedText == [c \in IndexedRecs |-> IndexColumn(c)]
IndexText == [i \in IndexRecs |-> IndexRecord(i)]
CoveredText == [c \in ColumnRecs |-> CoveredColumn(c)]
RuleText == [k \in RuleRecs |-> ConstraintRecord(k)]

LEMMA PagesAreTokens ==
  Pages \subseteq Nat /\ Pages \subseteq Token /\ Int \subseteq Token
BY SchemaStreamAssumption DEF Token

LEMMA PairAndOne ==
  ASSUME NEW T, NEW a \in T, NEW b \in T, NEW c \in T
  PROVE  <<a, b>> \o <<c>> = <<a, b, c>>
<1> DEFINE l == <<a, b>> \o <<c>>
           r == <<a, b, c>>
<1>1. /\ <<a, b>> \in Seq(T) /\ <<c>> \in Seq(T) /\ Len(<<a, b>>) = 2 /\ Len(<<c>>) = 1
      /\ r \in Seq(T) /\ Len(r) = 3 /\ r[1] = a /\ r[2] = b /\ r[3] = c
      /\ <<a, b>>[1] = a /\ <<a, b>>[2] = b /\ <<c>>[1] = c
  OBVIOUS
<1>2. l \in Seq(T) /\ Len(l) = 3 /\ l[1] = a /\ l[2] = b /\ l[3] = c
  BY ONLY <1>1
<1> HIDE DEF l, r
<1>3. \A i \in 1 .. 3 : i = 1 \/ i = 2 \/ i = 3
  OBVIOUS
<1>4. \A i \in 1 .. Len(l) : l[i] = r[i]
  BY ONLY <1>1, <1>2, <1>3
<1>5. l = r
  BY ONLY <1>1, <1>2, <1>4, SameSequences
<1>6. QED
  BY <1>5 DEF l, r

LEMMA ColumnTexts ==
  /\ ColumnText \in [ColumnRecs -> Seq(Token)]
  /\ \A c \in ColumnRecs : Len(ColumnText[c]) = 3 /\ ColumnText[c] = <<c.name, c.id, 0>>
  /\ \A s \in Seq(ColumnRecs) : Each(ColumnDef, s) = All(ColumnText, s)
<1>1. ASSUME NEW c \in ColumnRecs
      PROVE  ColumnDef(c) = <<c.name, c.id, 0>> /\ <<c.name, c.id, 0>> \in Seq(Token)
  <2>1. c.name \in Token /\ c.id \in Token /\ 0 \in Token
    BY DEF ColumnRecs, Token
  <2>2. QED
    <3>1. TypedValue(Absent) = <<0>>
      BY DEF TypedValue, Absent
    <3>2. <<c.name, c.id>> \o <<0>> = <<c.name, c.id, 0>>
      BY ONLY <2>1, PairAndOne
    <3>3. ColumnDef(c) = <<c.name, c.id>> \o <<0>>
      BY <3>1 DEF ColumnDef
    <3>4. <<c.name, c.id, 0>> \in Seq(Token)
      BY <2>1
    <3>5. QED
      BY ONLY <3>2, <3>3, <3>4
<1>2. ASSUME NEW s \in Seq(ColumnRecs) PROVE Each(ColumnDef, s) = All(ColumnText, s)
  <2>1. [i \in DOMAIN s |-> ColumnDef(s[i])] = [i \in DOMAIN s |-> ColumnText[s[i]]]
    BY DEF ColumnText
  <2>2. QED
    BY <2>1 DEF Each, All
<1>3. ASSUME NEW c \in ColumnRecs PROVE ColumnText[c] = ColumnDef(c)
  BY DEF ColumnText
<1>4. ColumnText \in [ColumnRecs -> Seq(Token)]
  BY <1>1 DEF ColumnText
<1>5. ASSUME NEW c \in ColumnRecs
      PROVE  Len(ColumnText[c]) = 3 /\ ColumnText[c] = <<c.name, c.id, 0>>
  <2>1. ColumnText[c] = <<c.name, c.id, 0>>
    BY <1>1, <1>3
  <2>2. Len(<<c.name, c.id, 0>>) = 3
    OBVIOUS
  <2>3. QED
    BY ONLY <2>1, <2>2
<1>6. QED
  BY ONLY <1>2, <1>4, <1>5

LEMMA ColumnsAreFound ==
  ASSUME NEW s \in Seq(Token)
  PROVE  Finds([p \in Nat |-> ParseColumnDef(s, p)], s, ColumnRecs, ColumnText)
<1>1. ASSUME NEW c \in ColumnRecs, NEW p \in Nat \ {0}, At(s, p, <<c.name, c.id, 0>>)
      PROVE  ParseColumnDef(s, p) = Parsed(p + 3, c)
  <2>1. Len(s) \in Nat /\ Len(<<c.name, c.id, 0>>) = 3
    OBVIOUS
  <2>2. p + 2 <= Len(s) /\ s[p] = c.name /\ s[p + 1] = c.id /\ s[p + 2] = 0
    BY <1>1, <2>1, TokensOf3
  <2>3. Fits(s, p, 2) /\ Fits(s, p + 2, 1)
    BY <2>1, <2>2 DEF Fits
  <2>4. ParseTypedValue(s, p + 2) = Parsed((p + 2) + 1, Absent)
    BY <2>2, <2>3 DEF ParseTypedValue, Absent
  <2>5. (p + 2) + 1 = p + 3 /\ p + 3 # 0
    OBVIOUS
  <2>6. [name |-> s[p], id |-> s[p + 1]] = c
    BY <2>2 DEF ColumnRecs
  <2>7. ParseColumnDef(s, p) = Parsed(p + 3, [name |-> s[p], id |-> s[p + 1]])
    BY ONLY <2>3, <2>4, <2>5 DEF ParseColumnDef, Parsed
  <2>8. QED
    BY <2>6, <2>7
<1>2. ASSUME NEW c \in ColumnRecs, NEW p \in Nat \ {0}, At(s, p, ColumnText[c])
      PROVE  [q \in Nat |-> ParseColumnDef(s, q)][p] = Parsed(p + Len(ColumnText[c]), c)
  <2>1. ColumnText[c] = <<c.name, c.id, 0>> /\ Len(ColumnText[c]) = 3
    BY ColumnTexts
  <2>2. ParseColumnDef(s, p) = Parsed(p + 3, c)
    BY <1>1, <1>2, <2>1
  <2>3. QED
    BY <2>1, <2>2
<1>3. QED
  BY <1>2 DEF Finds

IndexedTokens(c) == <<c.name, FlagByte(c.descending), FlagByte(c.nocase), MaxIndexedSize>>

LEMMA IndexedTexts ==
  /\ IndexedText \in [IndexedRecs -> Seq(Token)]
  /\ \A c \in IndexedRecs : Len(IndexedText[c]) = 4 /\ IndexedText[c] = IndexedTokens(c)
  /\ \A s \in Seq(IndexedRecs) : Each(IndexColumn, s) = All(IndexedText, s)
<1>1. ASSUME NEW c \in IndexedRecs
      PROVE  IndexColumn(c) = IndexedTokens(c) /\ IndexedTokens(c) \in Seq(Token) /\ Len(IndexedTokens(c)) = 4
  <2>1. c.name \in Token /\ MaxIndexedSize \in Token
    BY DEF IndexedRecs, Token, MaxIndexedSize
  <2>2. FlagByte(c.descending) \in Token /\ FlagByte(c.nocase) \in Token
    BY DEF Token, FlagByte, FlagTrue
  <2>3. QED
    BY <2>1, <2>2 DEF IndexColumn, IndexedTokens
<1>2. ASSUME NEW s \in Seq(IndexedRecs) PROVE Each(IndexColumn, s) = All(IndexedText, s)
  <2>1. [i \in DOMAIN s |-> IndexColumn(s[i])] = [i \in DOMAIN s |-> IndexedText[s[i]]]
    BY DEF IndexedText
  <2>2. QED
    BY <2>1 DEF Each, All
<1>3. ASSUME NEW c \in IndexedRecs PROVE IndexedText[c] = IndexColumn(c)
  BY DEF IndexedText
<1>4. IndexedText \in [IndexedRecs -> Seq(Token)]
  BY <1>1 DEF IndexedText
<1>5. ASSUME NEW c \in IndexedRecs
      PROVE  Len(IndexedText[c]) = 4 /\ IndexedText[c] = IndexedTokens(c)
  BY <1>1, <1>3
<1>6. QED
  BY ONLY <1>2, <1>4, <1>5

LEMMA IndexedAreFound ==
  ASSUME NEW s \in Seq(Token)
  PROVE  Finds([p \in Nat |-> ParseIndexColumn(s, p)], s, IndexedRecs, IndexedText)
<1>1. ASSUME NEW c \in IndexedRecs, NEW p \in Nat \ {0}, At(s, p, IndexedText[c])
      PROVE  [q \in Nat |-> ParseIndexColumn(s, q)][p] = Parsed(p + Len(IndexedText[c]), c)
  <2>1. Len(s) \in Nat /\ Len(IndexedText[c]) = 4 /\ IndexedText[c] = IndexedTokens(c)
    BY IndexedTexts
  <2>2. /\ p + 3 <= Len(s) /\ s[p] = c.name /\ s[p + 1] = FlagByte(c.descending)
        /\ s[p + 2] = FlagByte(c.nocase) /\ s[p + 3] = MaxIndexedSize
    BY <1>1, <2>1, TokensOf4 DEF IndexedTokens
  <2>3. Fits(s, p, 4)
    BY <2>1, <2>2 DEF Fits
  <2>4. /\ IsFlag(s[p + 1]) /\ (s[p + 1] = FlagTrue) = c.descending
        /\ IsFlag(s[p + 2]) /\ (s[p + 2] = FlagTrue) = c.nocase
    BY <2>2 DEF IsFlag, FlagByte, FlagTrue, IndexedRecs
  <2>5. [name |-> s[p], descending |-> s[p + 1] = FlagTrue, nocase |-> s[p + 2] = FlagTrue] = c
    <3>1. c = [name |-> c.name, descending |-> c.descending, nocase |-> c.nocase]
      BY DEF IndexedRecs
    <3>2. QED
      BY ONLY <2>2, <2>4, <3>1
  <2>6. ParseIndexColumn(s, p) = Parsed(p + 4, c)
    BY ONLY <2>2, <2>3, <2>4, <2>5 DEF ParseIndexColumn
  <2>7. QED
    BY <2>1, <2>6
<1>2. QED
  BY <1>1 DEF Finds

LEMMA CoveredTexts ==
  /\ CoveredText \in [ColumnRecs -> Seq(Token)]
  /\ \A c \in ColumnRecs : Len(CoveredText[c]) = 2 /\ CoveredText[c] = <<c.id, c.name>>
  /\ \A s \in Seq(ColumnRecs) : Each(CoveredColumn, s) = All(CoveredText, s)
<1>1. ASSUME NEW c \in ColumnRecs
      PROVE  CoveredColumn(c) = <<c.id, c.name>> /\ <<c.id, c.name>> \in Seq(Token)
  <2>1. c.name \in Token /\ c.id \in Token
    BY DEF ColumnRecs, Token
  <2>2. QED
    BY <2>1 DEF CoveredColumn
<1>2. ASSUME NEW s \in Seq(ColumnRecs) PROVE Each(CoveredColumn, s) = All(CoveredText, s)
  <2>1. [i \in DOMAIN s |-> CoveredColumn(s[i])] = [i \in DOMAIN s |-> CoveredText[s[i]]]
    BY DEF CoveredText
  <2>2. QED
    BY <2>1 DEF Each, All
<1>3. ASSUME NEW c \in ColumnRecs PROVE CoveredText[c] = CoveredColumn(c)
  BY DEF CoveredText
<1>4. CoveredText \in [ColumnRecs -> Seq(Token)]
  BY <1>1 DEF CoveredText
<1>5. ASSUME NEW c \in ColumnRecs
      PROVE  Len(CoveredText[c]) = 2 /\ CoveredText[c] = <<c.id, c.name>>
  <2>1. CoveredText[c] = <<c.id, c.name>>
    BY <1>1, <1>3
  <2>2. Len(<<c.id, c.name>>) = 2
    OBVIOUS
  <2>3. QED
    BY ONLY <2>1, <2>2
<1>6. QED
  BY ONLY <1>2, <1>4, <1>5

LEMMA CoveredAreFound ==
  ASSUME NEW s \in Seq(Token)
  PROVE  Finds([p \in Nat |-> ParseCoveredColumn(s, p)], s, ColumnRecs, CoveredText)
<1>1. ASSUME NEW c \in ColumnRecs, NEW p \in Nat \ {0}, At(s, p, CoveredText[c])
      PROVE  [q \in Nat |-> ParseCoveredColumn(s, q)][p] = Parsed(p + Len(CoveredText[c]), c)
  <2>1. Len(s) \in Nat /\ Len(CoveredText[c]) = 2 /\ CoveredText[c] = <<c.id, c.name>>
    BY CoveredTexts
  <2>2. p + 1 <= Len(s) /\ s[p] = c.id /\ s[p + 1] = c.name
    BY <1>1, <2>1, TokensOf2
  <2>3. Fits(s, p, 2)
    BY <2>1, <2>2 DEF Fits
  <2>4. [id |-> s[p], name |-> s[p + 1]] = c
    BY <2>2 DEF ColumnRecs
  <2>5. ParseCoveredColumn(s, p) = Parsed(p + 2, c)
    BY <2>3, <2>4 DEF ParseCoveredColumn
  <2>6. QED
    BY <2>1, <2>5
<1>2. QED
  BY <1>1 DEF Finds

IndexHead(i) ==
  <<i.name, i.id, 0, FlagByte(i.unique), FlagByte(i.primary), Len(i.columns), i.root>>

LEMMA IndexTexts ==
  /\ IndexText \in [IndexRecs -> Seq(Token)]
  /\ \A i \in IndexRecs :
       /\ IndexText[i] = IndexHead(i) \o All(IndexedText, i.columns)
       /\ IndexHead(i) \in Seq(Token) /\ Len(IndexHead(i)) = 7
       /\ i.columns \in Seq(IndexedRecs) /\ All(IndexedText, i.columns) \in Seq(Token)
       /\ Len(i.columns) \in Nat \ {0} /\ Len(i.columns) <= Len(All(IndexedText, i.columns))
       /\ Len(IndexText[i]) = 7 + Len(All(IndexedText, i.columns)) /\ Len(IndexText[i]) >= 1
  /\ \A s \in Seq(IndexRecs) : Each(IndexRecord, s) = All(IndexText, s)
<1>1. ASSUME NEW i \in IndexRecs
      PROVE  /\ IndexText[i] = IndexHead(i) \o All(IndexedText, i.columns)
             /\ IndexHead(i) \in Seq(Token) /\ Len(IndexHead(i)) = 7
             /\ i.columns \in Seq(IndexedRecs) /\ All(IndexedText, i.columns) \in Seq(Token)
             /\ Len(i.columns) \in Nat \ {0} /\ Len(i.columns) <= Len(All(IndexedText, i.columns))
             /\ Len(IndexText[i]) = 7 + Len(All(IndexedText, i.columns)) /\ Len(IndexText[i]) >= 1
             /\ IndexText[i] \in Seq(Token)
  <2> DEFINE cols == i.columns
             w == All(IndexedText, cols)
             h == IndexHead(i)
  <2>1. cols \in Seq(IndexedRecs) /\ cols # <<>>
    BY DEF IndexRecs
  <2>2. Len(cols) \in Nat \ {0}
    <3> HIDE DEF cols
    <3> QED BY <2>1
  <2>3. w \in Seq(Token)
    <3> HIDE DEF cols
    <3> QED BY <2>1, IndexedTexts, AllTyped
  <2>4. Len(cols) <= Len(w) /\ Len(w) \in Nat
    <3> HIDE DEF cols
    <3>1. ASSUME NEW c \in IndexedRecs PROVE Len(IndexedText[c]) >= 1
      <4>1. Len(IndexedText[c]) = 4
        BY IndexedTexts
      <4>2. QED
        BY <4>1
    <3>2. IndexedText \in [IndexedRecs -> Seq(Token)]
      BY IndexedTexts
    <3>3. QED
      BY ONLY <2>1, <3>1, <3>2, AllLength
  <2>5. h \in Seq(Token) /\ Len(h) = 7
    <3> HIDE DEF cols
    <3>1. i.name \in Token /\ i.id \in Token /\ i.root \in Token
      BY PagesAreTokens DEF IndexRecs, Token
    <3>2. 0 \in Token /\ FlagByte(i.unique) \in Token /\ FlagByte(i.primary) \in Token
      BY DEF Token, FlagByte, FlagTrue
    <3>3. Len(cols) \in Token
      BY <2>2, PagesAreTokens
    <3>4. QED
      BY ONLY <3>1, <3>2, <3>3 DEF IndexHead, cols
  <2>6. IndexText[i] = h \o w
    <3>1. IndexText[i] = IndexRecord(i)
      BY DEF IndexText
    <3>2. Each(IndexColumn, cols) = w
      BY <2>1, IndexedTexts
    <3> HIDE DEF w
    <3>3. QED
      BY <3>1, <3>2 DEF IndexRecord, IndexHead
  <2> HIDE DEF h, w, cols
  <2>7. h \o w \in Seq(Token) /\ Len(h \o w) = 7 + Len(w)
    <3>1. h \in Seq(Token) /\ w \in Seq(Token)
      BY ONLY <2>3, <2>5
    <3>2. h \o w \in Seq(Token) /\ Len(h \o w) = Len(h) + Len(w)
      BY ONLY <3>1, ConcatenationLaws
    <3>3. QED
      BY ONLY <2>5, <3>2
  <2>8. Len(IndexText[i]) = 7 + Len(w) /\ Len(IndexText[i]) >= 1
    BY ONLY <2>4, <2>6, <2>7
  <2>9. QED
    BY ONLY <2>1, <2>2, <2>3, <2>4, <2>5, <2>6, <2>7, <2>8 DEF h, w, cols
<1>2. ASSUME NEW s \in Seq(IndexRecs) PROVE Each(IndexRecord, s) = All(IndexText, s)
  <2>1. [i \in DOMAIN s |-> IndexRecord(s[i])] = [i \in DOMAIN s |-> IndexText[s[i]]]
    <3>1. \A i \in DOMAIN s : s[i] \in IndexRecs
      OBVIOUS
    <3>2. \A r \in IndexRecs : IndexText[r] = IndexRecord(r)
      BY DEF IndexText
    <3>3. QED
      BY ONLY <3>1, <3>2
  <2>2. QED
    BY <2>1 DEF Each, All
<1>3. IndexText \in [IndexRecs -> Seq(Token)]
  <2>1. \A i \in IndexRecs : IndexText[i] \in Seq(Token)
    BY <1>1
  <2>2. IndexText = [i \in IndexRecs |-> IndexText[i]]
    BY DEF IndexText
  <2>3. QED
    BY ONLY <2>1, <2>2
<1>4. QED
  BY ONLY <1>1, <1>2, <1>3

LEMMA IndexIsParsed ==
  ASSUME NEW s \in Seq(Token), NEW i \in IndexRecs, NEW p \in Nat \ {0}, At(s, p, IndexText[i])
  PROVE  ParseIndexRecord(s, p) = Parsed(p + Len(IndexText[i]), i)
<1> DEFINE cols == i.columns
           w == All(IndexedText, cols)
           h == IndexHead(i)
           parse == [q \in Nat |-> ParseIndexColumn(s, q)]
<1>1. /\ IndexText[i] = h \o w /\ h \in Seq(Token) /\ Len(h) = 7 /\ cols \in Seq(IndexedRecs)
      /\ w \in Seq(Token) /\ Len(cols) \in Nat \ {0} /\ Len(cols) <= Len(w)
      /\ Len(IndexText[i]) = 7 + Len(w)
  BY IndexTexts
<1>2. Len(s) \in Nat /\ Len(w) \in Nat
  BY <1>1
<1>3. At(s, p, h) /\ At(s, p + 7, w)
  <2>1. At(s, p, h \o w)
    BY <1>1
  <2> HIDE DEF h, w
  <2>2. QED
    BY ONLY <1>1, <2>1, s \in Seq(Token), AtParts
<1>4. /\ h[1] = i.name /\ h[2] = i.id /\ h[3] = 0 /\ h[4] = FlagByte(i.unique)
      /\ h[5] = FlagByte(i.primary) /\ h[6] = Len(cols) /\ h[7] = i.root
  BY DEF IndexHead
<1>5. /\ p + 6 <= Len(s) /\ s[p] = h[1] /\ s[p + 1] = h[2] /\ s[p + 2] = h[3] /\ s[p + 3] = h[4]
      /\ s[p + 4] = h[5] /\ s[p + 5] = h[6] /\ s[p + 6] = h[7]
  <2>1. Len(h) = 7 /\ Len(s) \in Nat /\ At(s, p, h)
    BY <1>1, <1>2, <1>3
  <2> HIDE DEF h
  <2>2. QED
    BY ONLY <2>1, TokensOf7, SMTT(60)
<1>6. Repeated(parse, p + 7, Len(cols)) = Parsed((p + 7) + Len(w), cols)
  <2> DEFINE q == p + 7
  <2>1. At(s, q, w)
    BY <1>3
  <2>2. Finds(parse, s, IndexedRecs, IndexedText)
    BY IndexedAreFound
  <2> HIDE DEF q, parse, cols
  <2>3. Repeated(parse, q, Len(cols)) = Parsed(q + Len(w), cols)
    <3>1. IndexedText \in [IndexedRecs -> Seq(Token)] /\ cols \in Seq(IndexedRecs)
      BY <1>1, IndexedTexts
    <3>2. QED
      BY ONLY <2>1, <2>2, <3>1, s \in Seq(Token), RecordsAreRead, SMTT(60)
  <2>4. QED
    BY <2>3 DEF q
<1>7. (p + 7) + Len(w) = p + Len(IndexText[i]) /\ (p + 7) + Len(w) # 0 /\ Len(cols) \in 1 .. Len(s)
  <2>1. (p + 7) + Len(w) <= Len(s) + 1
    BY <1>3 DEF At
  <2> HIDE DEF w, cols, h
  <2>2. QED
    BY ONLY <1>1, <1>2, <2>1, p \in Nat \ {0}
<1>8. Fits(s, p, 7) /\ s[p + 2] = 0 /\ IsFlag(s[p + 3]) /\ IsFlag(s[p + 4]) /\ s[p + 5] = Len(cols)
  <2>1. Fits(s, p, 7)
    BY ONLY <1>2, <1>5, p \in Nat \ {0} DEF Fits
  <2>2. IsFlag(FlagByte(i.unique)) /\ IsFlag(FlagByte(i.primary))
    BY DEF IsFlag, FlagByte
  <2> HIDE DEF h
  <2>3. QED
    BY ONLY <1>4, <1>5, <2>1, <2>2
<1>9. [name |-> s[p], id |-> s[p + 1], unique |-> s[p + 3] = FlagTrue, primary |-> s[p + 4] = FlagTrue,
       root |-> s[p + 6], columns |-> cols] = i
  <2>1. (FlagByte(i.unique) = FlagTrue) = i.unique /\ (FlagByte(i.primary) = FlagTrue) = i.primary
    BY DEF FlagByte, FlagTrue, IndexRecs
  <2>2. [name |-> i.name, id |-> i.id, unique |-> i.unique, primary |-> i.primary,
         root |-> i.root, columns |-> i.columns] = i
    BY DEF IndexRecs
  <2> HIDE DEF h
  <2>3. QED
    BY ONLY <1>4, <1>5, <2>1, <2>2
<1> HIDE DEF h, w, cols
<1>10. ParseIndexRecord(s, p)
         = Parsed((p + 7) + Len(w),
                  [name |-> s[p], id |-> s[p + 1], unique |-> s[p + 3] = FlagTrue,
                   primary |-> s[p + 4] = FlagTrue, root |-> s[p + 6], columns |-> cols])
  <2>1. Times(ParseIndexColumn, s, p + 7, s[p + 5]) = Parsed((p + 7) + Len(w), cols)
    BY ONLY <1>6, <1>8 DEF Times
  <2>2. QED
    BY ONLY <1>7, <1>8, <2>1, SMTT(60) DEF ParseIndexRecord, Parsed
<1>11. QED
  BY ONLY <1>7, <1>9, <1>10

LEMMA IndexesAreFound ==
  ASSUME NEW s \in Seq(Token)
  PROVE  Finds([p \in Nat |-> ParseIndexRecord(s, p)], s, IndexRecs, IndexText)
<1>1. ASSUME NEW i \in IndexRecs, NEW p \in Nat \ {0}, At(s, p, IndexText[i])
      PROVE  [q \in Nat |-> ParseIndexRecord(s, q)][p] = Parsed(p + Len(IndexText[i]), i)
  BY <1>1, IndexIsParsed
<1>2. QED
  BY <1>1 DEF Finds

LEMMA TypedValueIsParsed ==
  ASSUME NEW v \in Int
  PROVE  /\ TypedValue(v) \in Seq(Token) /\ Len(TypedValue(v)) \in 1 .. 2
         /\ \A s \in Seq(Token), p \in Nat \ {0} :
              At(s, p, TypedValue(v)) => ParseTypedValue(s, p) = Parsed(p + Len(TypedValue(v)), v)
<1>1. CASE v = Absent
  <2>1. TypedValue(v) = << 0 >> /\ Len(<< 0 >>) = 1 /\ << 0 >> \in Seq(Token) /\ v = 0
    BY <1>1, PagesAreTokens DEF TypedValue, Absent
  <2>2. ASSUME NEW s \in Seq(Token), NEW p \in Nat \ {0}, At(s, p, << 0 >>)
        PROVE  ParseTypedValue(s, p) = Parsed(p + 1, 0)
    <3>1. Len(s) \in Nat /\ Len(<< 0 >>) = 1
      OBVIOUS
    <3>2. p + 0 <= Len(s) /\ s[p] = << 0 >>[1]
      BY ONLY <2>2, <3>1, TokensOf1
    <3>3. Fits(s, p, 1) /\ s[p] = 0
      BY <3>1, <3>2 DEF Fits
    <3>4. QED
      BY <3>3 DEF ParseTypedValue, Absent
  <2>3. QED
    BY <2>1, <2>2
<1>2. CASE v # Absent
  <2>1. TypedValue(v) = <<1, v>> /\ Len(<<1, v>>) = 2 /\ <<1, v>> \in Seq(Token)
    BY <1>2, PagesAreTokens DEF TypedValue
  <2>2. ASSUME NEW s \in Seq(Token), NEW p \in Nat \ {0}, At(s, p, <<1, v>>)
        PROVE  ParseTypedValue(s, p) = Parsed(p + 2, v)
    <3>1. Len(s) \in Nat /\ Len(<<1, v>>) = 2 /\ <<1, v>>[1] = 1 /\ <<1, v>>[2] = v
      OBVIOUS
    <3>2. p + 1 <= Len(s) /\ s[p] = <<1, v>>[1] /\ s[p + 1] = <<1, v>>[2]
      BY ONLY <2>2, <3>1, TokensOf2
    <3>3. Fits(s, p, 1) /\ Fits(s, p, 2) /\ s[p] = 1 /\ s[p + 1] = v
      BY <3>1, <3>2 DEF Fits
    <3>4. QED
      BY <3>3 DEF ParseTypedValue, Absent
  <2>3. QED
    BY <2>1, <2>2
<1>3. QED
  BY <1>1, <1>2

RuleHead(k) == <<k.kind, k.name, k.id, 0, k.owner>>
KeyHead(k) == <<1, k.table, k.index>>
ColumnHead(k) == <<1, k.table, k.columns[1].name>>

LEMMA RuleHeads ==
  ASSUME NEW k \in RuleRecs
  PROVE  RuleHead(k) \in Seq(Token) /\ Len(RuleHead(k)) = 5
<1>1. /\ k.kind \in Token /\ k.name \in Token /\ k.id \in Token /\ k.owner \in Token /\ 0 \in Token
      /\ k.table \in Token
  BY DEF RuleRecs, KeyRecs, NotNullRecs, CheckRecs, KeyKinds, Primary, Unique, NotNull, Check, Token
<1>2. QED
  BY ONLY <1>1 DEF RuleHead

LEMMA KeyTexts ==
  ASSUME NEW k \in KeyRecs
  PROVE  /\ RuleText[k] = RuleHead(k) \o (KeyHead(k) \o (<<Len(k.columns)>> \o All(CoveredText, k.columns)))
         /\ KeyHead(k) \in Seq(Token) /\ Len(KeyHead(k)) = 3
         /\ k.columns \in Seq(ColumnRecs) /\ Len(k.columns) \in Nat
         /\ All(CoveredText, k.columns) \in Seq(Token)
<1> DEFINE cols == k.columns
           w == All(CoveredText, cols)
<1>1. cols \in Seq(ColumnRecs) /\ k.kind \in KeyKinds /\ k \in RuleRecs
  BY DEF KeyRecs, RuleRecs
<1>2. Len(cols) \in Nat
  <2> HIDE DEF cols
  <2> QED BY <1>1
<1>3. w \in Seq(Token)
  <2> HIDE DEF cols
  <2> QED BY <1>1, CoveredTexts, AllTyped
<1>4. Each(CoveredColumn, cols) = w
  BY <1>1, CoveredTexts
<1>5. KeyHead(k) \in Seq(Token) /\ Len(KeyHead(k)) = 3
  <2>1. 1 \in Token /\ k.table \in Token /\ k.index \in Token
    BY DEF KeyRecs, Token
  <2>2. QED
    BY ONLY <2>1 DEF KeyHead
<1>6. RuleText[k] = ConstraintRecord(k)
  BY <1>1 DEF RuleText
<1> HIDE DEF w
<1>7. KeyBody(k) = KeyHead(k) \o (<<Len(cols)>> \o w)
  BY <1>4 DEF KeyBody, Counted, KeyHead
<1>8. ConstraintRecord(k) = RuleHead(k) \o (KeyHead(k) \o (<<Len(cols)>> \o w))
  BY <1>1, <1>7 DEF ConstraintRecord, RuleHead
<1>9. QED
  BY <1>1, <1>2, <1>3, <1>5, <1>6, <1>8 DEF w

ColumnRuleRecs == NotNullRecs \cup CheckRecs
Bounds(k) == IF k.kind = Check THEN TypedValue(k.min) \o TypedValue(k.max) ELSE <<>>

LEMMA ColumnRuleTexts ==
  ASSUME NEW k \in ColumnRuleRecs
  PROVE  /\ RuleText[k] = RuleHead(k) \o (ColumnHead(k) \o Bounds(k))
         /\ ColumnHead(k) \in Seq(Token) /\ Len(ColumnHead(k)) = 3
         /\ Bounds(k) \in Seq(Token)
         /\ k.columns = <<[name |-> k.columns[1].name]>>
<1>1. k \in RuleRecs /\ k.kind \in {NotNull, Check} /\ k.kind \notin KeyKinds
  BY DEF ColumnRuleRecs, NotNullRecs, CheckRecs, RuleRecs, KeyKinds, NotNull, Check, Primary, Unique
<1>2. RuleText[k] = ConstraintRecord(k)
  BY <1>1 DEF RuleText
<1>3. ColumnBody(k) = ColumnHead(k) \o Bounds(k)
  BY DEF ColumnBody, ColumnHead, Bounds
<1>4. ConstraintRecord(k) = RuleHead(k) \o (ColumnHead(k) \o Bounds(k))
  BY <1>1, <1>3 DEF ConstraintRecord, RuleHead
<1>5. PICK c \in ColumnNames : k.columns = <<[name |-> c]>>
  BY DEF ColumnRuleRecs, NotNullRecs, CheckRecs, ColumnOnly
<1>6. k.columns[1].name = c
  BY ONLY <1>5
<1>7. ColumnHead(k) \in Seq(Token) /\ Len(ColumnHead(k)) = 3
  <2>1. 1 \in Token /\ k.table \in Token /\ c \in Token
    BY DEF ColumnRuleRecs, NotNullRecs, CheckRecs, Token
  <2>2. QED
    BY ONLY <1>6, <2>1 DEF ColumnHead
<1>8. Bounds(k) \in Seq(Token)
  <2>1. CASE k.kind = Check
    <3>1. k.min \in Int /\ k.max \in Int
      BY <2>1 DEF ColumnRuleRecs, NotNullRecs, CheckRecs, NotNull, Check
    <3>2. TypedValue(k.min) \in Seq(Token) /\ TypedValue(k.max) \in Seq(Token)
      BY <3>1, TypedValueIsParsed
    <3>3. QED
      BY <2>1, <3>2 DEF Bounds
  <2>2. CASE k.kind # Check
    BY <2>2 DEF Bounds
  <2>3. QED
    BY <2>1, <2>2
<1>9. QED
  BY ONLY <1>2, <1>4, <1>5, <1>6, <1>7, <1>8

LEMMA RuleTexts ==
  /\ RuleText \in [RuleRecs -> Seq(Token)]
  /\ \A k \in RuleRecs : Len(RuleText[k]) >= 1
  /\ \A s \in Seq(RuleRecs) : Each(ConstraintRecord, s) = All(RuleText, s)
<1>1. ASSUME NEW k \in RuleRecs PROVE RuleText[k] \in Seq(Token) /\ Len(RuleText[k]) >= 1
  <2>1. PICK w \in Seq(Token) : RuleText[k] = RuleHead(k) \o w
    <3>1. CASE k \in KeyRecs
      <4> DEFINE v == <<Len(k.columns)>> \o All(CoveredText, k.columns)
      <4>1. RuleText[k] = RuleHead(k) \o (KeyHead(k) \o v) /\ KeyHead(k) \in Seq(Token)
            /\ Len(k.columns) \in Nat /\ All(CoveredText, k.columns) \in Seq(Token)
        BY <3>1, KeyTexts
      <4>2. <<Len(k.columns)>> \in Seq(Token)
        BY <4>1, PagesAreTokens
      <4>3. v \in Seq(Token)
        BY ONLY <4>1, <4>2
      <4> HIDE DEF v
      <4>4. KeyHead(k) \o v \in Seq(Token)
        BY ONLY <4>1, <4>3
      <4>5. QED
        BY <4>1, <4>4
    <3>2. CASE k \in ColumnRuleRecs
      <4>1. RuleText[k] = RuleHead(k) \o (ColumnHead(k) \o Bounds(k)) /\ ColumnHead(k) \in Seq(Token)
            /\ Bounds(k) \in Seq(Token)
        BY <3>2, ColumnRuleTexts
      <4>2. ColumnHead(k) \o Bounds(k) \in Seq(Token)
        BY ONLY <4>1
      <4>3. QED
        BY <4>1, <4>2
    <3>3. QED
      BY <3>1, <3>2 DEF RuleRecs, ColumnRuleRecs
  <2>2. RuleHead(k) \in Seq(Token) /\ Len(RuleHead(k)) = 5
    BY RuleHeads
  <2>3. RuleHead(k) \o w \in Seq(Token) /\ Len(RuleHead(k) \o w) = Len(RuleHead(k)) + Len(w) /\ Len(w) \in Nat
    <3>1. RuleHead(k) \in Seq(Token) /\ Len(w) \in Nat
      BY ONLY <2>2, w \in Seq(Token)
    <3>2. RuleHead(k) \o w \in Seq(Token) /\ Len(RuleHead(k) \o w) = Len(RuleHead(k)) + Len(w)
      BY ONLY <3>1, w \in Seq(Token), ConcatenationLaws
    <3>3. QED
      BY ONLY <3>1, <3>2
  <2>4. QED
    BY ONLY <2>1, <2>2, <2>3
<1>2. ASSUME NEW s \in Seq(RuleRecs) PROVE Each(ConstraintRecord, s) = All(RuleText, s)
  <2>1. [i \in DOMAIN s |-> ConstraintRecord(s[i])] = [i \in DOMAIN s |-> RuleText[s[i]]]
    <3>1. \A i \in DOMAIN s : s[i] \in RuleRecs
      OBVIOUS
    <3>2. \A r \in RuleRecs : RuleText[r] = ConstraintRecord(r)
      BY DEF RuleText
    <3>3. QED
      BY ONLY <3>1, <3>2
  <2>2. QED
    BY <2>1 DEF Each, All
<1>3. RuleText \in [RuleRecs -> Seq(Token)]
  <2>1. \A k \in RuleRecs : RuleText[k] \in Seq(Token)
    BY <1>1
  <2>2. RuleText = [k \in RuleRecs |-> RuleText[k]]
    BY DEF RuleText
  <2>3. QED
    BY ONLY <2>1, <2>2
<1>4. QED
  BY ONLY <1>1, <1>2, <1>3

\* What every constraint record begins with.
LEMMA RuleHeadIsRead ==
  ASSUME NEW s \in Seq(Token), NEW k \in RuleRecs, NEW p \in Nat \ {0}, NEW b \in Seq(Token),
         At(s, p, RuleHead(k) \o b)
  PROVE  /\ p + 4 <= Len(s) /\ Fits(s, p, 5) /\ s[p] = k.kind /\ s[p + 1] = k.name /\ s[p + 2] = k.id
         /\ s[p + 3] = 0 /\ s[p + 4] = k.owner
         /\ At(s, p + 5, b)
<1> DEFINE h == RuleHead(k)
<1>1. h \in Seq(Token) /\ Len(h) = 5 /\ Len(s) \in Nat
  BY RuleHeads
<1>2. h[1] = k.kind /\ h[2] = k.name /\ h[3] = k.id /\ h[4] = 0 /\ h[5] = k.owner
  BY DEF RuleHead
<1>3. At(s, p, h \o b)
  OBVIOUS
<1> HIDE DEF h
<1>4. At(s, p, h) /\ At(s, p + 5, b)
  <2>1. At(s, p, h) /\ At(s, p + Len(h), b)
    BY ONLY <1>1, <1>3, s \in Seq(Token), b \in Seq(Token), AtParts
  <2>2. QED
    BY ONLY <1>1, <2>1
<1>5. p + 4 <= Len(s) /\ s[p] = h[1] /\ s[p + 1] = h[2] /\ s[p + 2] = h[3] /\ s[p + 3] = h[4] /\ s[p + 4] = h[5]
  <2>1. Len(h) = 5 /\ Len(s) \in Nat /\ At(s, p, h)
    BY ONLY <1>1, <1>4
  <2>2. QED
    BY ONLY <2>1, TokensOf5
<1>6. Fits(s, p, 5)
  BY ONLY <1>1, <1>5, p \in Nat \ {0} DEF Fits
<1>7. QED
  BY ONLY <1>2, <1>4, <1>5, <1>6

LEMMA ThreeAreRead ==
  ASSUME NEW s \in Seq(Token), NEW p \in Nat \ {0}, NEW h \in Seq(Token), Len(h) = 3, NEW b \in Seq(Token),
         At(s, p, h \o b)
  PROVE  /\ p + 2 <= Len(s) /\ s[p] = h[1] /\ s[p + 1] = h[2] /\ s[p + 2] = h[3]
         /\ At(s, p + 3, b)
<1>1. At(s, p, h) /\ At(s, p + Len(h), b)
  BY AtParts
<1>2. Len(s) \in Nat
  OBVIOUS
<1>3. p + 2 <= Len(s) /\ s[p] = h[1] /\ s[p + 1] = h[2] /\ s[p + 2] = h[3]
  BY ONLY <1>1, <1>2, Len(h) = 3, TokensOf3
<1>4. QED
  BY ONLY <1>1, <1>3, Len(h) = 3

LEMMA KeyIsParsed ==
  ASSUME NEW s \in Seq(Token), NEW k \in KeyRecs, NEW p \in Nat \ {0}, At(s, p, RuleText[k])
  PROVE  ParseConstraint(s, p) = Parsed(p + Len(RuleText[k]), k)
<1> DEFINE cols == k.columns
           w == All(CoveredText, cols)
           v == <<Len(cols)>> \o w
           h == KeyHead(k)
           b == h \o v
           parse == [q \in Nat |-> ParseCoveredColumn(s, q)]
           e == (p + 9) + Len(w)
<1>1. /\ RuleText[k] = RuleHead(k) \o b /\ h \in Seq(Token) /\ Len(h) = 3
      /\ cols \in Seq(ColumnRecs) /\ Len(cols) \in Nat /\ w \in Seq(Token)
  BY KeyTexts
<1>2. k \in RuleRecs /\ k.kind \in KeyKinds
  BY DEF RuleRecs, KeyRecs
<1>3. h[1] = 1 /\ h[2] = k.table /\ h[3] = k.index
  BY DEF KeyHead
<1>4. v \in Seq(Token) /\ Len(v) = 1 + Len(w) /\ Len(w) \in Nat /\ Len(s) \in Nat /\ Len(cols) \in Token
  <2> HIDE DEF w, cols
  <2>1. Len(cols) \in Token /\ Len(w) \in Nat /\ Len(s) \in Nat
    BY <1>1, PagesAreTokens
  <2>2. <<Len(cols)>> \in Seq(Token) /\ Len(<<Len(cols)>>) = 1
    BY <2>1
  <2>3. v \in Seq(Token) /\ Len(v) = Len(<<Len(cols)>>) + Len(w)
    BY ONLY <1>1, <2>2
  <2>4. QED
    BY ONLY <2>1, <2>2, <2>3
<1> HIDE DEF h, w, v
<1>5. b \in Seq(Token) /\ Len(b) = 4 + Len(w)
  <2>1. b \in Seq(Token) /\ Len(b) = Len(h) + Len(v)
    <3>1. h \in Seq(Token) /\ v \in Seq(Token)
      BY ONLY <1>1, <1>4
    <3>2. QED
      BY ONLY <3>1, ConcatenationLaws
  <2>2. QED
    BY ONLY <1>1, <1>4, <2>1
<1> HIDE DEF b
<1>6. /\ p + 4 <= Len(s) /\ Fits(s, p, 5) /\ s[p] = k.kind /\ s[p + 1] = k.name /\ s[p + 2] = k.id
      /\ s[p + 3] = 0 /\ s[p + 4] = k.owner /\ At(s, p + 5, b)
  <2>1. At(s, p, RuleHead(k) \o b)
    BY <1>1
  <2>2. QED
    BY ONLY <1>2, <1>5, <2>1, s \in Seq(Token), p \in Nat \ {0}, RuleHeadIsRead
<1>7. s[p + 5] = 1 /\ s[p + 6] = k.table /\ s[p + 7] = k.index /\ At(s, p + 8, v)
  <2> DEFINE q == p + 5
  <2>1. q \in Nat \ {0} /\ At(s, q, h \o v)
    BY <1>6 DEF b
  <2>2. q + 1 = p + 6 /\ q + 2 = p + 7 /\ q + 3 = p + 8
    OBVIOUS
  <2> HIDE DEF q
  <2>3. s[q] = h[1] /\ s[q + 1] = h[2] /\ s[q + 2] = h[3] /\ At(s, q + 3, v)
    <3>1. h \in Seq(Token) /\ Len(h) = 3 /\ v \in Seq(Token)
      BY <1>1, <1>4
    <3>2. QED
      BY ONLY <2>1, <3>1, s \in Seq(Token), ThreeAreRead
  <2>4. QED
    BY ONLY <1>3, <2>2, <2>3 DEF q
<1>8. /\ p + 8 <= Len(s) /\ s[p + 8] = Len(cols) /\ Len(cols) \in 0 .. Len(s)
      /\ Repeated(parse, p + 9, Len(cols)) = Parsed(e, cols)
  <2> DEFINE q == p + 8
  <2>1. At(s, q, <<Len(cols)>> \o All(CoveredText, cols))
    BY <1>7 DEF v, w
  <2>2. Finds(parse, s, ColumnRecs, CoveredText)
    BY CoveredAreFound
  <2>3. CoveredText \in [ColumnRecs -> Seq(Token)] /\ \A c \in ColumnRecs : Len(CoveredText[c]) >= 1
    <3>1. ASSUME NEW c \in ColumnRecs PROVE Len(CoveredText[c]) >= 1
      <4>1. Len(CoveredText[c]) = 2
        BY CoveredTexts
      <4>2. QED
        BY <4>1
    <3>2. QED
      BY <3>1, CoveredTexts
  <2>4. q + 1 = p + 9
    OBVIOUS
  <2> HIDE DEF q, parse, cols
  <2>5. /\ q \in Nat \ {0} /\ q <= Len(s) /\ s[q] = Len(cols) /\ Len(cols) \in 0 .. Len(s) - q
        /\ Repeated(parse, q + 1, Len(cols)) = Parsed((q + 1) + Len(All(CoveredText, cols)), cols)
    <3>1. cols \in Seq(ColumnRecs) /\ Len(cols) \in Token
      BY <1>1, <1>4
    <3>2. QED
      BY ONLY <2>1, <2>2, <2>3, <3>1, s \in Seq(Token), ArrayIsRead
  <2>6. Len(cols) \in 0 .. Len(s)
    BY ONLY <1>4, <2>5
  <2>7. QED
    BY ONLY <2>4, <2>5, <2>6 DEF q, w
<1>9. e = p + Len(RuleText[k]) /\ e # 0
  <2>1. RuleHead(k) \in Seq(Token) /\ Len(RuleHead(k)) = 5
    BY <1>2, RuleHeads
  <2>2. Len(RuleHead(k) \o b) = Len(RuleHead(k)) + Len(b)
    <3>1. RuleHead(k) \in Seq(Token) /\ b \in Seq(Token)
      BY ONLY <1>5, <2>1
    <3>2. QED
      BY ONLY <3>1, ConcatenationLaws
  <2>3. QED
    BY ONLY <1>1, <1>4, <1>5, <2>1, <2>2, p \in Nat \ {0}
<1>10. [kind |-> s[p], name |-> s[p + 1], id |-> s[p + 2], owner |-> s[p + 4], table |-> s[p + 6],
        index |-> s[p + 7], columns |-> cols] = k
  BY ONLY <1>6, <1>7, k \in KeyRecs DEF KeyRecs
<1>11. Fits(s, p, 9) /\ s[p + 5] = 1 /\ s[p + 8] \in 0 .. Len(s) /\ s[p] \in KeyKinds /\ s[p + 3] = 0
  BY ONLY <1>2, <1>4, <1>6, <1>7, <1>8, p \in Nat \ {0} DEF Fits
<1>12. Times(ParseCoveredColumn, s, p + 9, s[p + 8]) = Parsed(e, cols)
  BY ONLY <1>8 DEF Times
<1> HIDE DEF cols, e
<1>13. ParseKey(s, p)
         = Parsed(e, [kind |-> s[p], name |-> s[p + 1], id |-> s[p + 2], owner |-> s[p + 4],
                      table |-> s[p + 6], index |-> s[p + 7], columns |-> cols])
  <2>1. Fits(s, p, 9) /\ s[p + 5] = 1 /\ s[p + 8] \in 0 .. Len(s) /\ e # 0
    BY ONLY <1>9, <1>11
  <2>2. Parsed(e, cols).pos = e /\ Parsed(e, cols).val = cols
    BY DEF Parsed
  <2>3. QED
    BY ONLY <1>12, <2>1, <2>2 DEF ParseKey
<1>14. ParseConstraint(s, p) = ParseKey(s, p)
  BY ONLY <1>6, <1>11 DEF ParseConstraint
<1>15. QED
  BY ONLY <1>9, <1>10, <1>13, <1>14

LEMMA ColumnRuleIsParsed ==
  ASSUME NEW s \in Seq(Token), NEW k \in ColumnRuleRecs, NEW p \in Nat \ {0}, At(s, p, RuleText[k])
  PROVE  ParseConstraint(s, p) = Parsed(p + Len(RuleText[k]), k)
<1> DEFINE h == ColumnHead(k)
           m == Bounds(k)
           b == h \o m
           column == <<[name |-> s[p + 7]]>>
<1>1. /\ RuleText[k] = RuleHead(k) \o b /\ h \in Seq(Token) /\ Len(h) = 3
      /\ m \in Seq(Token) /\ k.columns = <<[name |-> k.columns[1].name]>>
  BY ColumnRuleTexts
<1>2. k \in RuleRecs /\ k.kind \in ColumnKinds /\ k.kind \notin KeyKinds
  BY DEF ColumnRuleRecs, NotNullRecs, CheckRecs, RuleRecs, KeyKinds, ColumnKinds, NotNull, Check, Primary, Unique
<1>3. h[1] = 1 /\ h[2] = k.table /\ h[3] = k.columns[1].name
  BY DEF ColumnHead
<1> HIDE DEF h, m
<1>4. b \in Seq(Token) /\ Len(b) = 3 + Len(m) /\ Len(m) \in Nat /\ Len(s) \in Nat
  <2>1. h \in Seq(Token) /\ m \in Seq(Token)
    BY ONLY <1>1
  <2>2. b \in Seq(Token) /\ Len(b) = Len(h) + Len(m)
    BY ONLY <2>1, ConcatenationLaws
  <2>3. Len(m) \in Nat /\ Len(s) \in Nat
    BY <2>1
  <2>4. QED
    BY ONLY <1>1, <2>2, <2>3
<1> HIDE DEF b
<1>5. /\ p + 4 <= Len(s) /\ Fits(s, p, 5) /\ s[p] = k.kind /\ s[p + 1] = k.name /\ s[p + 2] = k.id
      /\ s[p + 3] = 0 /\ s[p + 4] = k.owner /\ At(s, p + 5, b)
  <2>1. At(s, p, RuleHead(k) \o b)
    BY <1>1
  <2>2. QED
    BY ONLY <1>2, <1>4, <2>1, s \in Seq(Token), p \in Nat \ {0}, RuleHeadIsRead
<1>6. p + 7 <= Len(s) /\ s[p + 5] = 1 /\ s[p + 6] = k.table /\ s[p + 7] = k.columns[1].name /\ At(s, p + 8, m)
  <2> DEFINE q == p + 5
  <2>1. q \in Nat \ {0} /\ At(s, q, h \o m)
    BY <1>5 DEF b
  <2>2. q + 1 = p + 6 /\ q + 2 = p + 7 /\ q + 3 = p + 8
    OBVIOUS
  <2> HIDE DEF q
  <2>3. q + 2 <= Len(s) /\ s[q] = h[1] /\ s[q + 1] = h[2] /\ s[q + 2] = h[3] /\ At(s, q + 3, m)
    <3>1. h \in Seq(Token) /\ Len(h) = 3 /\ m \in Seq(Token)
      BY <1>1
    <3>2. QED
      BY ONLY <2>1, <3>1, s \in Seq(Token), ThreeAreRead
  <2>4. QED
    BY ONLY <1>3, <2>2, <2>3 DEF q
<1>7. p + Len(RuleText[k]) = (p + 8) + Len(m)
  <2>1. RuleHead(k) \in Seq(Token) /\ Len(RuleHead(k)) = 5
    BY <1>2, RuleHeads
  <2>2. Len(RuleHead(k) \o b) = Len(RuleHead(k)) + Len(b)
    <3>1. RuleHead(k) \in Seq(Token) /\ b \in Seq(Token)
      BY ONLY <1>4, <2>1
    <3>2. QED
      BY ONLY <3>1, ConcatenationLaws
  <2>3. QED
    BY ONLY <1>1, <1>4, <2>1, <2>2, p \in Nat \ {0}
<1>8. Fits(s, p, 8)
  BY ONLY <1>4, <1>6, p \in Nat \ {0} DEF Fits
<1>9. column = k.columns
  BY ONLY <1>1, <1>6
<1>10. ParseConstraint(s, p) = ParseColumnConstraint(s, p)
  BY ONLY <1>2, <1>5 DEF ParseConstraint
<1> HIDE DEF column
<1>11. CASE k \in NotNullRecs
  <2>1. k.kind = NotNull /\ k.kind # Check
    BY <1>11 DEF NotNullRecs, NotNull, Check
  <2>2. m = <<>> /\ Len(m) = 0
    BY <2>1 DEF m, Bounds
  <2>3. [kind |-> s[p], name |-> s[p + 1], id |-> s[p + 2], owner |-> s[p + 4], table |-> s[p + 6],
         columns |-> column] = k
    BY ONLY <1>5, <1>6, <1>9, <1>11 DEF NotNullRecs
  <2>4. ParseColumnConstraint(s, p)
          = Parsed(p + 8, [kind |-> s[p], name |-> s[p + 1], id |-> s[p + 2], owner |-> s[p + 4],
                           table |-> s[p + 6], columns |-> column])
    BY ONLY <1>5, <1>6, <1>8, <2>1 DEF ParseColumnConstraint, column
  <2>5. p + Len(RuleText[k]) = p + 8
    BY ONLY <1>7, <2>2, p \in Nat \ {0}
  <2>6. QED
    BY ONLY <1>10, <2>3, <2>4, <2>5
<1>12. CASE k \in CheckRecs
  <2> DEFINE l == TypedValue(k.min)
             g == TypedValue(k.max)
             q == p + 8
             q2 == q + Len(l)
             q3 == q2 + Len(g)
  <2>1. k.kind = Check /\ k.kind # NotNull /\ k.min \in Int /\ k.max \in Int
    BY <1>12 DEF CheckRecs, NotNull, Check
  <2>2. m = l \o g
    BY <2>1 DEF m, Bounds
  <2>3. l \in Seq(Token) /\ g \in Seq(Token) /\ Len(l) \in 1 .. 2 /\ Len(g) \in 1 .. 2
    BY <2>1, TypedValueIsParsed
  <2>4. q \in Nat \ {0} /\ At(s, q, m)
    BY <1>6
  <2> HIDE DEF l, g, q
  <2>5. At(s, q, l) /\ At(s, q2, g) /\ Len(m) = Len(l) + Len(g)
    <3>1. l \in Seq(Token) /\ g \in Seq(Token) /\ At(s, q, l \o g)
      BY ONLY <2>2, <2>3, <2>4
    <3>2. At(s, q, l) /\ At(s, q2, g)
      BY ONLY <3>1, s \in Seq(Token), AtParts
    <3>3. Len(l \o g) = Len(l) + Len(g)
      BY ONLY <3>1, ConcatenationLaws
    <3>4. QED
      BY ONLY <2>2, <3>2, <3>3
  <2>6. q2 \in Nat \ {0} /\ q3 \in Nat \ {0} /\ q3 = p + Len(RuleText[k])
    <3>1. p + Len(RuleText[k]) = q + Len(m)
      BY ONLY <1>7 DEF q
    <3>2. QED
      BY ONLY <2>3, <2>4, <2>5, <3>1
  <2> HIDE DEF q2, q3
  <2>7. ParseTypedValue(s, q) = Parsed(q2, k.min)
    <3>1. At(s, q, l) => ParseTypedValue(s, q) = Parsed(q + Len(l), k.min)
      BY <2>1, <2>4, TypedValueIsParsed DEF l
    <3>2. QED
      BY ONLY <2>5, <3>1 DEF q2
  <2>8. ParseTypedValue(s, q2) = Parsed(q3, k.max)
    <3>1. At(s, q2, g) => ParseTypedValue(s, q2) = Parsed(q2 + Len(g), k.max)
      BY <2>1, <2>6, TypedValueIsParsed DEF g
    <3>2. QED
      BY ONLY <2>5, <3>1 DEF q3
  <2>9. [kind |-> s[p], name |-> s[p + 1], id |-> s[p + 2], owner |-> s[p + 4], table |-> s[p + 6],
         columns |-> column, min |-> k.min, max |-> k.max] = k
    BY ONLY <1>5, <1>6, <1>9, <1>12 DEF CheckRecs
  <2>10. /\ Parsed(q2, k.min).pos = q2 /\ Parsed(q2, k.min).val = k.min
         /\ Parsed(q3, k.max).pos = q3 /\ Parsed(q3, k.max).val = k.max
    BY DEF Parsed
  <2>11. ParseColumnConstraint(s, p)
           = Parsed(q3, [kind |-> s[p], name |-> s[p + 1], id |-> s[p + 2], owner |-> s[p + 4],
                         table |-> s[p + 6], columns |-> column, min |-> k.min, max |-> k.max])
    <3>1. ParseTypedValue(s, p + 8) = Parsed(q2, k.min)
      BY ONLY <2>7 DEF q
    <3>2. q2 # 0 /\ q3 # 0 /\ s[p] # NotNull /\ s[p + 5] = 1
      BY ONLY <1>5, <1>6, <2>1, <2>6
    <3>3. QED
      BY ONLY <1>8, <2>8, <2>10, <3>1, <3>2 DEF ParseColumnConstraint, column
  <2>12. QED
    BY ONLY <1>10, <2>6, <2>9, <2>11
<1>13. QED
  BY <1>11, <1>12 DEF ColumnRuleRecs

LEMMA RulesAreFound ==
  ASSUME NEW s \in Seq(Token)
  PROVE  Finds([p \in Nat |-> ParseConstraint(s, p)], s, RuleRecs, RuleText)
<1>1. ASSUME NEW k \in RuleRecs, NEW p \in Nat \ {0}, At(s, p, RuleText[k])
      PROVE  [q \in Nat |-> ParseConstraint(s, q)][p] = Parsed(p + Len(RuleText[k]), k)
  <2>1. k \in KeyRecs \/ k \in ColumnRuleRecs
    BY DEF RuleRecs, ColumnRuleRecs
  <2>2. ParseConstraint(s, p) = Parsed(p + Len(RuleText[k]), k)
    BY <1>1, <2>1, KeyIsParsed, ColumnRuleIsParsed
  <2>3. QED
    BY <2>2
<1>2. QED
  BY <1>1 DEF Finds

-----------------------------------------------------------------------------
(* A stream is read as what was written.                                   *)

\* An array: a counter and the records.
Array(f, recs) == <<Len(recs)>> \o All(f, recs)

LEMMA ArrayLaws ==
  ASSUME NEW R, NEW f \in [R -> Seq(Token)], NEW recs \in Seq(R)
  PROVE  /\ Array(f, recs) \in Seq(Token) /\ Len(Array(f, recs)) = 1 + Len(All(f, recs))
         /\ All(f, recs) \in Seq(Token) /\ Len(All(f, recs)) \in Nat
         /\ Len(recs) \in Token /\ <<Len(recs)>> \in Seq(Token)
<1> DEFINE w == All(f, recs)
<1>1. w \in Seq(Token)
  BY AllTyped
<1>2. Len(recs) \in Token
  BY PagesAreTokens
<1> HIDE DEF w
<1>3. <<Len(recs)>> \in Seq(Token) /\ Len(<<Len(recs)>>) = 1 /\ Len(w) \in Nat
  BY <1>1, <1>2
<1>4. <<Len(recs)>> \o w \in Seq(Token) /\ Len(<<Len(recs)>> \o w) = Len(<<Len(recs)>>) + Len(w)
  <2>1. <<Len(recs)>> \in Seq(Token) /\ w \in Seq(Token)
    BY ONLY <1>1, <1>3
  <2>2. QED
    BY ONLY <2>1, ConcatenationLaws
<1>5. <<Len(recs)>> \o w \in Seq(Token) /\ Len(<<Len(recs)>> \o w) = 1 + Len(w)
  BY ONLY <1>3, <1>4
<1>6. QED
  BY ONLY <1>1, <1>2, <1>3, <1>5 DEF w, Array

\* The arrays of a stream are read as what was written.
LEMMA ColumnArrayIsRead ==
  ASSUME NEW s \in Seq(Token), NEW recs \in Seq(ColumnRecs), NEW p, At(s, p, Array(ColumnText, recs))
  PROVE  /\ p \in Nat \ {0} /\ p <= Len(s) /\ s[p] = Len(recs) /\ Len(recs) \in 0 .. Len(s) - p
         /\ At(s, p + 1, All(ColumnText, recs))
         /\ ParseArray(ParseColumnDef, s, p) = Parsed(p + Len(Array(ColumnText, recs)), recs)
<1> DEFINE parse == [q \in Nat |-> ParseColumnDef(s, q)]
<1>1. Finds(parse, s, ColumnRecs, ColumnText)
  BY ColumnsAreFound
<1>2. ColumnText \in [ColumnRecs -> Seq(Token)] /\ \A r \in ColumnRecs : Len(ColumnText[r]) >= 1
  <2>1. ASSUME NEW r \in ColumnRecs PROVE Len(ColumnText[r]) >= 1
    <3>1. Len(ColumnText[r]) = 3
      BY ColumnTexts
    <3>2. QED
      BY <3>1
  <2>2. QED
    BY <2>1, ColumnTexts
<1>3. At(s, p, <<Len(recs)>> \o All(ColumnText, recs))
  BY DEF Array
<1>4. Len(recs) \in Token /\ Len(Array(ColumnText, recs)) = 1 + Len(All(ColumnText, recs)) /\ Len(All(ColumnText, recs)) \in Nat
  <2>1. ColumnText \in [ColumnRecs -> Seq(Token)]
    BY <1>2
  <2>2. QED
    BY ONLY <2>1, recs \in Seq(ColumnRecs), ArrayLaws
<1> HIDE DEF parse
<1>5. /\ p \in Nat \ {0} /\ p <= Len(s) /\ s[p] = Len(recs) /\ Len(recs) \in 0 .. Len(s) - p
      /\ At(s, p + 1, All(ColumnText, recs))
      /\ Repeated(parse, p + 1, Len(recs)) = Parsed((p + 1) + Len(All(ColumnText, recs)), recs)
  <2>1. Len(recs) \in Token
    BY <1>4
  <2>2. QED
    BY ONLY <1>1, <1>2, <1>3, <2>1, s \in Seq(Token), recs \in Seq(ColumnRecs), ArrayIsRead
<1>6. Fits(s, p, 1)
  BY ONLY <1>5, s \in Seq(Token) DEF Fits
<1>7. ParseArray(ParseColumnDef, s, p) = Repeated(parse, p + 1, Len(recs))
  BY ONLY <1>5, <1>6 DEF ParseArray, Times, parse
<1>8. (p + 1) + Len(All(ColumnText, recs)) = p + Len(Array(ColumnText, recs))
  BY ONLY <1>4, <1>5
<1>9. QED
  BY ONLY <1>5, <1>7, <1>8

LEMMA IndexArrayIsRead ==
  ASSUME NEW s \in Seq(Token), NEW recs \in Seq(IndexRecs), NEW p, At(s, p, Array(IndexText, recs))
  PROVE  /\ p \in Nat \ {0} /\ p <= Len(s) /\ s[p] = Len(recs) /\ Len(recs) \in 0 .. Len(s) - p
         /\ At(s, p + 1, All(IndexText, recs))
         /\ ParseArray(ParseIndexRecord, s, p) = Parsed(p + Len(Array(IndexText, recs)), recs)
<1> DEFINE parse == [q \in Nat |-> ParseIndexRecord(s, q)]
<1>1. Finds(parse, s, IndexRecs, IndexText)
  BY IndexesAreFound
<1>2. IndexText \in [IndexRecs -> Seq(Token)] /\ \A r \in IndexRecs : Len(IndexText[r]) >= 1
  BY IndexTexts
<1>3. At(s, p, <<Len(recs)>> \o All(IndexText, recs))
  BY DEF Array
<1>4. Len(recs) \in Token /\ Len(Array(IndexText, recs)) = 1 + Len(All(IndexText, recs)) /\ Len(All(IndexText, recs)) \in Nat
  <2>1. IndexText \in [IndexRecs -> Seq(Token)]
    BY <1>2
  <2>2. QED
    BY ONLY <2>1, recs \in Seq(IndexRecs), ArrayLaws
<1> HIDE DEF parse
<1>5. /\ p \in Nat \ {0} /\ p <= Len(s) /\ s[p] = Len(recs) /\ Len(recs) \in 0 .. Len(s) - p
      /\ At(s, p + 1, All(IndexText, recs))
      /\ Repeated(parse, p + 1, Len(recs)) = Parsed((p + 1) + Len(All(IndexText, recs)), recs)
  <2>1. Len(recs) \in Token
    BY <1>4
  <2>2. QED
    BY ONLY <1>1, <1>2, <1>3, <2>1, s \in Seq(Token), recs \in Seq(IndexRecs), ArrayIsRead
<1>6. Fits(s, p, 1)
  BY ONLY <1>5, s \in Seq(Token) DEF Fits
<1>7. ParseArray(ParseIndexRecord, s, p) = Repeated(parse, p + 1, Len(recs))
  BY ONLY <1>5, <1>6 DEF ParseArray, Times, parse
<1>8. (p + 1) + Len(All(IndexText, recs)) = p + Len(Array(IndexText, recs))
  BY ONLY <1>4, <1>5
<1>9. QED
  BY ONLY <1>5, <1>7, <1>8

LEMMA RuleArrayIsRead ==
  ASSUME NEW s \in Seq(Token), NEW recs \in Seq(RuleRecs), NEW p, At(s, p, Array(RuleText, recs))
  PROVE  /\ p \in Nat \ {0} /\ p <= Len(s) /\ s[p] = Len(recs) /\ Len(recs) \in 0 .. Len(s) - p
         /\ At(s, p + 1, All(RuleText, recs))
         /\ ParseArray(ParseConstraint, s, p) = Parsed(p + Len(Array(RuleText, recs)), recs)
<1> DEFINE parse == [q \in Nat |-> ParseConstraint(s, q)]
<1>1. Finds(parse, s, RuleRecs, RuleText)
  BY RulesAreFound
<1>2. RuleText \in [RuleRecs -> Seq(Token)] /\ \A r \in RuleRecs : Len(RuleText[r]) >= 1
  BY RuleTexts
<1>3. At(s, p, <<Len(recs)>> \o All(RuleText, recs))
  BY DEF Array
<1>4. Len(recs) \in Token /\ Len(Array(RuleText, recs)) = 1 + Len(All(RuleText, recs)) /\ Len(All(RuleText, recs)) \in Nat
  <2>1. RuleText \in [RuleRecs -> Seq(Token)]
    BY <1>2
  <2>2. QED
    BY ONLY <2>1, recs \in Seq(RuleRecs), ArrayLaws
<1> HIDE DEF parse
<1>5. /\ p \in Nat \ {0} /\ p <= Len(s) /\ s[p] = Len(recs) /\ Len(recs) \in 0 .. Len(s) - p
      /\ At(s, p + 1, All(RuleText, recs))
      /\ Repeated(parse, p + 1, Len(recs)) = Parsed((p + 1) + Len(All(RuleText, recs)), recs)
  <2>1. Len(recs) \in Token
    BY <1>4
  <2>2. QED
    BY ONLY <1>1, <1>2, <1>3, <2>1, s \in Seq(Token), recs \in Seq(RuleRecs), ArrayIsRead
<1>6. Fits(s, p, 1)
  BY ONLY <1>5, s \in Seq(Token) DEF Fits
<1>7. ParseArray(ParseConstraint, s, p) = Repeated(parse, p + 1, Len(recs))
  BY ONLY <1>5, <1>6 DEF ParseArray, Times, parse
<1>8. (p + 1) + Len(All(RuleText, recs)) = p + Len(Array(RuleText, recs))
  BY ONLY <1>4, <1>5
<1>9. QED
  BY ONLY <1>5, <1>7, <1>8

ColumnArray(d) == Array(ColumnText, d.columns)
IndexArray(d) == Array(IndexText, d.indexes)
RuleArray(d) == Array(RuleText, d.constraints)

LEMMA StreamParts ==
  ASSUME NEW d \in Schemas
  PROVE  /\ d.columns \in Seq(ColumnRecs) /\ d.indexes \in Seq(IndexRecs)
         /\ d.constraints \in Seq(RuleRecs) /\ d.root \in Pages
         /\ ColumnArray(d) \in Seq(Token) /\ IndexArray(d) \in Seq(Token) /\ RuleArray(d) \in Seq(Token)
         /\ Trailer(d.root) \in Seq(Token) /\ Len(Trailer(d.root)) = 2 /\ Trailer(d.root)[1] = d.root
         /\ Stream(d) = ((ColumnArray(d) \o IndexArray(d)) \o RuleArray(d)) \o Trailer(d.root)
         /\ Stream(d) \in Seq(Token)
         /\ Len(Stream(d)) = ((Len(ColumnArray(d)) + Len(IndexArray(d))) + Len(RuleArray(d))) + 2
         /\ Len(ColumnArray(d)) \in Nat /\ Len(IndexArray(d)) \in Nat /\ Len(RuleArray(d)) \in Nat
<1> DEFINE c == ColumnArray(d)
           i == IndexArray(d)
           k == RuleArray(d)
           z == Trailer(d.root)
<1>1. /\ d.columns \in Seq(ColumnRecs) /\ d.indexes \in Seq(IndexRecs)
      /\ d.constraints \in Seq(RuleRecs) /\ d.root \in Pages
  BY DEF Schemas
<1>2. c \in Seq(Token) /\ i \in Seq(Token) /\ k \in Seq(Token)
  <2>1. c \in Seq(Token)
    BY <1>1, ColumnTexts, ArrayLaws DEF ColumnArray
  <2>2. i \in Seq(Token)
    BY <1>1, IndexTexts, ArrayLaws DEF IndexArray
  <2>3. k \in Seq(Token)
    BY <1>1, RuleTexts, ArrayLaws DEF RuleArray
  <2>4. QED
    BY ONLY <2>1, <2>2, <2>3
<1>3. z \in Seq(Token) /\ Len(z) = 2 /\ z[1] = d.root
  <2>1. d.root \in Token /\ -1 \in Token
    <3>1. d.root \in Token
      BY <1>1, PagesAreTokens
    <3>2. -1 \in Int
      OBVIOUS
    <3>3. QED
      BY ONLY <3>1, <3>2 DEF Token
  <2>2. QED
    BY ONLY <2>1 DEF Trailer
<1>4. Stream(d) = ((c \o i) \o k) \o z
  <2>1. Counted(ColumnDef, d.columns) = c
    <3>1. Each(ColumnDef, d.columns) = All(ColumnText, d.columns)
      BY <1>1, ColumnTexts
    <3>2. QED
      BY <3>1 DEF Counted, ColumnArray, Array
  <2>2. Counted(IndexRecord, d.indexes) = i
    <3>1. Each(IndexRecord, d.indexes) = All(IndexText, d.indexes)
      BY <1>1, IndexTexts
    <3>2. QED
      BY <3>1 DEF Counted, IndexArray, Array
  <2>3. Counted(ConstraintRecord, d.constraints) = k
    <3>1. Each(ConstraintRecord, d.constraints) = All(RuleText, d.constraints)
      BY <1>1, RuleTexts
    <3>2. QED
      BY <3>1 DEF Counted, RuleArray, Array
  <2> HIDE DEF c, i, k, z
  <2>4. QED
    BY <2>1, <2>2, <2>3 DEF Stream, z
<1> HIDE DEF c, i, k, z
<1>5. c \o i \in Seq(Token) /\ Len(c \o i) = Len(c) + Len(i)
  BY ONLY <1>2, ConcatenationLaws
<1>6. (c \o i) \o k \in Seq(Token) /\ Len((c \o i) \o k) = Len(c \o i) + Len(k)
  <2>1. c \o i \in Seq(Token) /\ k \in Seq(Token)
    BY ONLY <1>2, <1>5
  <2>2. QED
    BY ONLY <2>1, ConcatenationLaws
<1>7. ((c \o i) \o k) \o z \in Seq(Token) /\ Len(((c \o i) \o k) \o z) = Len((c \o i) \o k) + Len(z)
  <2>1. (c \o i) \o k \in Seq(Token) /\ z \in Seq(Token)
    BY ONLY <1>3, <1>6
  <2>2. QED
    BY ONLY <2>1, ConcatenationLaws
<1>8. Len(c) \in Nat /\ Len(i) \in Nat /\ Len(k) \in Nat
  BY <1>2
<1>9. QED
  BY ONLY <1>1, <1>2, <1>3, <1>4, <1>5, <1>6, <1>7, <1>8 DEF c, i, k, z

\* Where the arrays of a stream are.
LEMMA StreamPlaces ==
  ASSUME NEW d \in Schemas
  PROVE  LET s == Stream(d)
             m == 1 + Len(ColumnArray(d))
             n == m + Len(IndexArray(d))
             o == n + Len(RuleArray(d))
         IN  /\ At(s, 1, ColumnArray(d)) /\ At(s, m, IndexArray(d)) /\ At(s, n, RuleArray(d))
             /\ At(s, o, Trailer(d.root))
<1> DEFINE c == ColumnArray(d)
           i == IndexArray(d)
           k == RuleArray(d)
           z == Trailer(d.root)
           s == Stream(d)
           m == 1 + Len(c)
           n == m + Len(i)
           o == n + Len(k)
<1>1. /\ c \in Seq(Token) /\ i \in Seq(Token) /\ k \in Seq(Token) /\ z \in Seq(Token)
      /\ s = ((c \o i) \o k) \o z /\ s \in Seq(Token)
      /\ Len(c) \in Nat /\ Len(i) \in Nat /\ Len(k) \in Nat
  BY StreamParts
<1> HIDE DEF c, i, k, z, s
<1>2. c \o i \in Seq(Token) /\ Len(c \o i) = Len(c) + Len(i)
  BY ONLY <1>1, ConcatenationLaws
<1>3. (c \o i) \o k \in Seq(Token) /\ Len((c \o i) \o k) = (Len(c) + Len(i)) + Len(k)
  <2>1. c \o i \in Seq(Token) /\ k \in Seq(Token)
    BY ONLY <1>1, <1>2
  <2>2. (c \o i) \o k \in Seq(Token) /\ Len((c \o i) \o k) = Len(c \o i) + Len(k)
    BY ONLY <2>1, ConcatenationLaws
  <2>3. QED
    BY ONLY <1>2, <2>2
<1>4. At(s, 1, s)
  BY <1>1, AtWhole
<1>5. At(s, 1, (c \o i) \o k) /\ At(s, 1 + Len((c \o i) \o k), z)
  <2>1. (c \o i) \o k \in Seq(Token) /\ z \in Seq(Token) /\ s \in Seq(Token) /\ At(s, 1, ((c \o i) \o k) \o z)
    BY ONLY <1>1, <1>3, <1>4
  <2>2. QED
    BY ONLY <2>1, AtParts
<1>6. At(s, 1, c \o i) /\ At(s, 1 + Len(c \o i), k)
  <2>1. c \o i \in Seq(Token) /\ k \in Seq(Token) /\ s \in Seq(Token)
    BY ONLY <1>1, <1>2
  <2>2. QED
    BY ONLY <1>5, <2>1, AtParts
<1>7. At(s, 1, c) /\ At(s, m, i)
  BY ONLY <1>1, <1>6, AtParts
<1>8. 1 + Len(c \o i) = n /\ 1 + Len((c \o i) \o k) = o
  BY ONLY <1>1, <1>2, <1>3
<1>9. At(s, n, k) /\ At(s, o, z)
  BY ONLY <1>5, <1>6, <1>8
<1>10. QED
  BY ONLY <1>7, <1>9 DEF c, i, k, z, s

LEMMA StreamIsParsed ==
  ASSUME NEW d \in Schemas
  PROVE  LET s == Stream(d)
             m == 1 + Len(ColumnArray(d))
             n == m + Len(IndexArray(d))
             o == n + Len(RuleArray(d))
         IN  /\ Columns(s) = Parsed(m, d.columns) /\ Indexes(s) = Parsed(n, d.indexes)
             /\ KeyRules(s) = Parsed(o, d.constraints)
             /\ Understood(s) /\ Meaning(s) = d
             /\ s[1] = Len(d.columns) /\ s[m] = Len(d.indexes) /\ s[n] = Len(d.constraints)
             /\ s[o] = d.root /\ Len(s) = o + 1
<1> DEFINE c == ColumnArray(d)
           i == IndexArray(d)
           k == RuleArray(d)
           z == Trailer(d.root)
           s == Stream(d)
           m == 1 + Len(c)
           n == m + Len(i)
           o == n + Len(k)
<1>1. /\ d.columns \in Seq(ColumnRecs) /\ d.indexes \in Seq(IndexRecs) /\ d.constraints \in Seq(RuleRecs)
      /\ s \in Seq(Token) /\ Len(s) = ((Len(c) + Len(i)) + Len(k)) + 2
      /\ Len(c) \in Nat /\ Len(i) \in Nat /\ Len(k) \in Nat
      /\ Len(z) = 2 /\ z[1] = d.root
  BY StreamParts
<1>2. At(s, 1, c) /\ At(s, m, i) /\ At(s, n, k) /\ At(s, o, z)
  BY StreamPlaces
<1>3. /\ Columns(s) = Parsed(m, d.columns) /\ s[1] = Len(d.columns)
  <2> DEFINE recs == d.columns
  <2>1. At(s, 1, Array(ColumnText, recs)) /\ Array(ColumnText, recs) = c
    BY <1>2 DEF ColumnArray
  <2>2. s \in Seq(Token)
    BY <1>1
  <2>3. recs \in Seq(ColumnRecs)
    BY <1>1
  <2> HIDE DEF recs, s, c
  <2>4. s[1] = Len(recs) /\ ParseArray(ParseColumnDef, s, 1) = Parsed(1 + Len(Array(ColumnText, recs)), recs)
    BY ONLY <2>1, <2>2, <2>3, ColumnArrayIsRead
  <2>5. Columns(s) = ParseArray(ParseColumnDef, s, 1)
    BY DEF Columns
  <2>6. 1 + Len(c) = m
    BY DEF m
  <2>7. QED
    BY ONLY <2>1, <2>4, <2>5, <2>6 DEF recs
<1> HIDE DEF m
<1>4. m \in Nat \ {0} /\ n \in Nat \ {0} /\ o \in Nat \ {0} /\ Len(s) = o + 1
  BY <1>1 DEF m
<1>5. Indexes(s) = Parsed(n, d.indexes) /\ s[m] = Len(d.indexes)
  <2> DEFINE recs == d.indexes
  <2>1. At(s, m, Array(IndexText, recs)) /\ Array(IndexText, recs) = i
    BY <1>2 DEF IndexArray
  <2>2. s \in Seq(Token)
    BY <1>1
  <2>3. recs \in Seq(IndexRecs)
    BY <1>1
  <2> HIDE DEF recs, s, i, n
  <2>4. s[m] = Len(recs) /\ ParseArray(ParseIndexRecord, s, m) = Parsed(m + Len(Array(IndexText, recs)), recs)
    BY ONLY <2>1, <2>2, <2>3, IndexArrayIsRead
  <2>5. Indexes(s) = ParseArray(ParseIndexRecord, s, m)
    <3>1. Columns(s).pos = m
      BY <1>3 DEF Parsed
    <3>2. QED
      BY ONLY <3>1 DEF Indexes
  <2>6. m + Len(i) = n
    BY DEF n
  <2>7. QED
    BY ONLY <2>1, <2>4, <2>5, <2>6 DEF recs
<1> HIDE DEF n
<1>6. KeyRules(s) = Parsed(o, d.constraints) /\ s[n] = Len(d.constraints)
  <2> DEFINE recs == d.constraints
  <2>1. At(s, n, Array(RuleText, recs)) /\ Array(RuleText, recs) = k
    BY <1>2 DEF RuleArray
  <2>2. s \in Seq(Token)
    BY <1>1
  <2>3. recs \in Seq(RuleRecs)
    BY <1>1
  <2> HIDE DEF recs, s, k, o
  <2>4. s[n] = Len(recs) /\ ParseArray(ParseConstraint, s, n) = Parsed(n + Len(Array(RuleText, recs)), recs)
    BY ONLY <2>1, <2>2, <2>3, RuleArrayIsRead
  <2>5. KeyRules(s) = ParseArray(ParseConstraint, s, n)
    <3>1. Indexes(s).pos = n
      BY <1>5 DEF Parsed
    <3>2. QED
      BY ONLY <3>1 DEF KeyRules
  <2>6. n + Len(k) = o
    BY DEF o
  <2>7. QED
    BY ONLY <2>1, <2>4, <2>5, <2>6 DEF recs
<1>7. s[o] = d.root
  <2>1. Len(z) = 2 /\ Len(s) \in Nat /\ At(s, o, z)
    BY <1>1, <1>2
  <2> HIDE DEF o, s, z
  <2>2. s[o] = z[1]
    BY ONLY <2>1, TokensOf2
  <2>3. QED
    BY ONLY <1>1, <2>2
<1> HIDE DEF s, o
<1>8. Understood(s)
  <2>1. KeyRules(s).pos = o
    BY <1>6 DEF Parsed
  <2>2. QED
    BY ONLY <1>4, <2>1 DEF Understood, EndsInTrailer, TrailerSize
<1>9. Meaning(s) = d
  <2>1. /\ Columns(s).val = d.columns /\ Indexes(s).val = d.indexes
        /\ KeyRules(s).val = d.constraints /\ s[Len(s) - 1] = d.root
    <3>1. Len(s) - 1 = o
      BY ONLY <1>4
    <3>2. QED
      BY <1>3, <1>5, <1>6, <1>7, <3>1 DEF Parsed
  <2>2. d = [columns |-> d.columns, indexes |-> d.indexes, constraints |-> d.constraints, root |-> d.root]
    BY DEF Schemas
  <2>3. QED
    BY ONLY <2>1, <2>2 DEF Meaning
<1>10. QED
  BY ONLY <1>3, <1>4, <1>5, <1>6, <1>7, <1>8, <1>9 DEF c, i, k, s, m, n, o

-----------------------------------------------------------------------------
(* Sequences that are cut and put together again.                          *)

LEMMA SubSeqLaws ==
  ASSUME NEW T, NEW s \in Seq(T), NEW m \in Nat \ {0}, NEW n \in Nat, n <= Len(s), m <= n + 1
  PROVE  /\ SubSeq(s, m, n) \in Seq(T) /\ Len(SubSeq(s, m, n)) = (n - m) + 1
         /\ \A i \in 1 .. (n - m) + 1 : SubSeq(s, m, n)[i] = s[(m - 1) + i]
<1>1. Len(s) \in Nat
  OBVIOUS
<1>2. SubSeq(s, m, n) = [i \in 1 .. (n - m) + 1 |-> s[(i + m) - 1]]
  BY <1>1 DEF SubSeq
<1>3. ASSUME NEW i \in 1 .. (n - m) + 1 PROVE (i + m) - 1 = (m - 1) + i /\ (m - 1) + i \in 1 .. Len(s)
  BY <1>1
<1> DEFINE k == (n - m) + 1
           r == [i \in 1 .. k |-> s[(i + m) - 1]]
<1>4. k \in Nat /\ \A i \in 1 .. Len(s) : s[i] \in T
  BY <1>1
<1>5. r \in [1 .. k -> T] /\ \A i \in 1 .. k : r[i] = s[(m - 1) + i]
  <2>1. ASSUME NEW i \in 1 .. k PROVE s[(i + m) - 1] \in T /\ s[(i + m) - 1] = s[(m - 1) + i]
    BY <1>3, <1>4
  <2> HIDE DEF k
  <2>2. QED
    BY <2>1
<1> HIDE DEF r, k
<1>6. r \in Seq(T) /\ Len(r) = k
  BY ONLY <1>4, <1>5, FunctionsAreSequences
<1>7. QED
  BY ONLY <1>2, <1>5, <1>6 DEF r, k

\* A sequence is what is before an element, the element and what is behind it.
LEMMA Split ==
  ASSUME NEW T, NEW s \in Seq(T), NEW n \in 1 .. Len(s)
  PROVE  LET a == SubSeq(s, 1, n - 1)
             b == SubSeq(s, n + 1, Len(s))
         IN  /\ a \in Seq(T) /\ Len(a) = n - 1 /\ b \in Seq(T) /\ Len(b) = Len(s) - n
             /\ s[n] \in T /\ s = (a \o One(s[n])) \o b /\ SubSeq(s, 1, n) = a \o One(s[n])
<1> DEFINE a == SubSeq(s, 1, n - 1)
           b == SubSeq(s, n + 1, Len(s))
           x == s[n]
           h == SubSeq(s, 1, n)
           l == Len(s)
<1>1. l \in Nat /\ n \in 1 .. l /\ x \in T
  OBVIOUS
<1>2. /\ a \in Seq(T) /\ Len(a) = n - 1 /\ (\A i \in 1 .. n - 1 : a[i] = s[i])
  <2>1. n - 1 \in Nat /\ 1 \in Nat \ {0} /\ n - 1 <= Len(s) /\ 1 <= (n - 1) + 1
    BY <1>1
  <2>2. /\ a \in Seq(T) /\ Len(a) = ((n - 1) - 1) + 1
        /\ \A i \in 1 .. ((n - 1) - 1) + 1 : a[i] = s[(1 - 1) + i]
    <3> DEFINE k == n - 1
    <3>1. k \in Nat /\ k <= Len(s) /\ 1 <= k + 1
      BY <2>1
    <3> HIDE DEF k
    <3>2. /\ SubSeq(s, 1, k) \in Seq(T) /\ Len(SubSeq(s, 1, k)) = (k - 1) + 1
          /\ \A i \in 1 .. (k - 1) + 1 : SubSeq(s, 1, k)[i] = s[(1 - 1) + i]
      BY ONLY <2>1, <3>1, s \in Seq(T), SubSeqLaws
    <3>3. QED
      BY <3>2 DEF k
  <2>3. ((n - 1) - 1) + 1 = n - 1
    BY <1>1
  <2>4. ASSUME NEW i \in 1 .. n - 1 PROVE a[i] = s[i]
    <3>1. (1 - 1) + i = i
      OBVIOUS
    <3> HIDE DEF a
    <3>2. QED
      BY ONLY <2>2, <2>3, <3>1, i \in 1 .. n - 1
  <2> HIDE DEF a
  <2>5. QED
    BY ONLY <2>2, <2>3, <2>4
<1>3. /\ b \in Seq(T) /\ Len(b) = l - n /\ (\A i \in 1 .. l - n : b[i] = s[n + i])
  <2> DEFINE k == n + 1
  <2>1. l \in Nat /\ k \in Nat \ {0} /\ l <= Len(s) /\ k <= l + 1 /\ (l - k) + 1 = l - n /\ k - 1 = n
    BY <1>1
  <2> HIDE DEF k
  <2>2. /\ SubSeq(s, k, l) \in Seq(T) /\ Len(SubSeq(s, k, l)) = (l - k) + 1
        /\ \A i \in 1 .. (l - k) + 1 : SubSeq(s, k, l)[i] = s[(k - 1) + i]
    <3> HIDE DEF l
    <3> QED BY ONLY <2>1, s \in Seq(T), SubSeqLaws
  <2>3. SubSeq(s, k, l) = b
    BY DEF k
  <2> HIDE DEF b, l
  <2>4. QED
    BY ONLY <2>1, <2>2, <2>3
<1>4. /\ h \in Seq(T) /\ Len(h) = n /\ (\A i \in 1 .. n : h[i] = s[i])
  <2>1. n \in Nat /\ 1 \in Nat \ {0} /\ n <= Len(s) /\ 1 <= n + 1 /\ (n - 1) + 1 = n
        /\ \A i \in 1 .. n : (1 - 1) + i = i
    BY <1>1
  <2>2. h \in Seq(T) /\ Len(h) = (n - 1) + 1 /\ \A i \in 1 .. (n - 1) + 1 : h[i] = s[(1 - 1) + i]
    BY ONLY <2>1, s \in Seq(T), SubSeqLaws
  <2> HIDE DEF h
  <2>3. QED
    BY ONLY <2>1, <2>2
<1> HIDE DEF a, b, h, x
<1> DEFINE ax == a \o <<x>>
           all == ax \o b
<1>5. <<x>> \in Seq(T) /\ Len(<<x>>) = 1 /\ <<x>>[1] = x
  BY <1>1
<1>6. /\ ax \in Seq(T) /\ Len(ax) = n /\ (\A i \in 1 .. n - 1 : ax[i] = s[i]) /\ ax[n] = x
  <2>1. /\ a \o <<x>> \in Seq(T) /\ Len(a \o <<x>>) = Len(a) + Len(<<x>>)
        /\ (\A i \in 1 .. Len(a) : (a \o <<x>>)[i] = a[i])
        /\ \A i \in 1 .. Len(<<x>>) : (a \o <<x>>)[i + Len(a)] = <<x>>[i]
    <3>1. a \in Seq(T) /\ <<x>> \in Seq(T)
      BY ONLY <1>2, <1>5
    <3>2. QED
      BY ONLY <3>1, ConcatenationLaws
  <2>2. 1 \in 1 .. Len(<<x>>) /\ 1 + Len(a) = n
    BY ONLY <1>1, <1>2, <1>5
  <2>3. ax[n] = x
    BY ONLY <1>5, <2>1, <2>2
  <2> HIDE DEF ax
  <2>4. QED
    BY ONLY <1>1, <1>2, <1>5, <2>1, <2>3 DEF ax
<1> HIDE DEF ax
<1>7. /\ all \in Seq(T) /\ Len(all) = n + (l - n)
      /\ (\A i \in 1 .. n : all[i] = ax[i]) /\ \A i \in 1 .. l - n : all[i + n] = b[i]
  <2>1. /\ ax \o b \in Seq(T) /\ Len(ax \o b) = Len(ax) + Len(b)
        /\ (\A i \in 1 .. Len(ax) : (ax \o b)[i] = ax[i])
        /\ \A i \in 1 .. Len(b) : (ax \o b)[i + Len(ax)] = b[i]
    <3>1. ax \in Seq(T) /\ b \in Seq(T)
      BY ONLY <1>3, <1>6
    <3>2. QED
      BY ONLY <3>1, ConcatenationLaws
  <2>2. QED
    BY ONLY <1>3, <1>6, <2>1
<1> HIDE DEF all
<1>8. ASSUME NEW i \in 1 .. l PROVE s[i] = all[i]
  <2>1. CASE i \in 1 .. n - 1
    <3>1. i \in 1 .. n
      BY ONLY <1>1, <2>1
    <3>2. QED
      BY ONLY <1>6, <1>7, <2>1, <3>1
  <2>2. CASE i = n
    <3>1. i \in 1 .. n
      BY ONLY <1>1, <2>2
    <3>2. QED
      BY ONLY <1>6, <1>7, <2>2, <3>1 DEF x
  <2>3. CASE i > n
    <3>1. i - n \in 1 .. l - n /\ (i - n) + n = i /\ n + (i - n) = i
      BY ONLY <1>1, <2>3, i \in 1 .. l
    <3>2. all[(i - n) + n] = b[i - n] /\ b[i - n] = s[n + (i - n)]
      BY ONLY <1>3, <1>7, <3>1
    <3>3. QED
      BY ONLY <3>1, <3>2
  <2>4. QED
    BY ONLY <1>1, <2>1, <2>2, <2>3, i \in 1 .. l
<1>9. s = all
  <2>1. Len(s) = Len(all) /\ \A i \in 1 .. Len(s) : s[i] = all[i]
    BY ONLY <1>1, <1>7, <1>8 DEF l
  <2>2. all \in Seq(T)
    BY ONLY <1>7
  <2>3. QED
    BY ONLY <2>1, <2>2, s \in Seq(T), SameSequences
<1>10. h = ax
  <2>1. Len(h) = Len(ax) /\ \A i \in 1 .. Len(h) : h[i] = ax[i]
    <3>1. ASSUME NEW i \in 1 .. n PROVE h[i] = ax[i]
      <4>1. i \in 1 .. n - 1 \/ i = n
        BY ONLY <1>1, i \in 1 .. n
      <4>2. QED
        BY ONLY <1>4, <1>6, <4>1, i \in 1 .. n DEF x
    <3>2. QED
      BY ONLY <1>4, <1>6, <3>1
  <2>2. h \in Seq(T) /\ ax \in Seq(T)
    BY ONLY <1>4, <1>6
  <2>3. QED
    BY ONLY <2>1, <2>2, SameSequences
<1>11. QED
  BY ONLY <1>1, <1>2, <1>3, <1>9, <1>10 DEF a, b, x, h, l, ax, all, One

-----------------------------------------------------------------------------
(* What the operations declare.                                            *)

KeyRequests == [kind : KeyKinds, index : IndexNames, columns : NameLists]
KeyOf == [k \in ConstraintRequests |-> KeyOnly(k)]

LEMMA RequestKinds ==
  ASSUME NEW k \in ConstraintRequests
  PROVE  /\ k.columns \in NameLists
         /\ IsKey(k) => k \in KeyRequests
         /\ ~IsKey(k) => k.kind \in {NotNull, Check} /\ \E c \in ColumnNames : k.columns = <<c>>
         /\ k.kind = Check => k.min \in Int /\ k.max \in Int
<1>0. ASSUME NEW c \in ColumnNames PROVE <<c>> \in NameLists
  <2>1. <<c>> \in Seq(ColumnNames) /\ Len(<<c>>) = 1 /\ Len(<<>>) = 0
    OBVIOUS
  <2>2. QED
    BY <2>1 DEF NameLists
<1>1. CASE k \in [kind : KeyKinds, index : IndexNames, columns : Seq(ColumnNames) \ {<<>>}]
  <2>1. k \in KeyRequests /\ k.kind \in KeyKinds /\ k.columns \in NameLists /\ k.kind # Check
    BY <1>1 DEF KeyRequests, NameLists, KeyKinds, Primary, Unique, Check
  <2>2. QED
    BY <2>1 DEF IsKey
<1>2. CASE k \in [kind : {NotNull}, columns : {<<c>> : c \in ColumnNames}]
  <2>1. PICK c \in ColumnNames : k.columns = <<c>> /\ k.kind = NotNull
    BY <1>2
  <2>2. ~IsKey(k) /\ k.kind # Check
    BY <2>1 DEF IsKey, KeyKinds, Primary, Unique, NotNull, Check
  <2>3. QED
    BY <1>0, <2>1, <2>2
<1>3. CASE k \in [kind : {Check}, columns : {<<c>> : c \in ColumnNames}, min : Int, max : Int]
  <2>1. PICK c \in ColumnNames : k.columns = <<c>> /\ k.kind = Check /\ k.min \in Int /\ k.max \in Int
    BY <1>3
  <2>2. ~IsKey(k)
    BY <2>1 DEF IsKey, KeyKinds, Primary, Unique, Check
  <2>3. QED
    BY <1>0, <2>1, <2>2
<1>4. QED
  BY <1>1, <1>2, <1>3 DEF ConstraintRequests

LEMMA KeysOfRequests ==
  /\ KeyOf \in [ConstraintRequests -> Seq(KeyRequests)]
  /\ \A list \in Seq(ConstraintRequests) :
       Keys(list) = All(KeyOf, list) /\ Keys(list) \in Seq(KeyRequests) /\ Len(Keys(list)) \in Nat
<1>1. ASSUME NEW k \in ConstraintRequests PROVE KeyOnly(k) \in Seq(KeyRequests)
  <2>1. CASE IsKey(k)
    <3>1. k \in KeyRequests
      BY <2>1, RequestKinds
    <3>2. <<k>> \in Seq(KeyRequests)
      BY ONLY <3>1
    <3>3. QED
      BY <2>1, <3>2 DEF KeyOnly
  <2>2. CASE ~IsKey(k)
    BY <2>2 DEF KeyOnly
  <2>3. QED
    BY <2>1, <2>2
<1>2. KeyOf \in [ConstraintRequests -> Seq(KeyRequests)]
  BY <1>1 DEF KeyOf
<1>3. ASSUME NEW list \in Seq(ConstraintRequests)
      PROVE  Keys(list) = All(KeyOf, list) /\ Keys(list) \in Seq(KeyRequests) /\ Len(Keys(list)) \in Nat
  <2>1. [i \in DOMAIN list |-> KeyOnly(list[i])] = [i \in DOMAIN list |-> KeyOf[list[i]]]
    BY DEF KeyOf
  <2>2. Keys(list) = All(KeyOf, list)
    BY <2>1 DEF Keys, Each, All
  <2>3. All(KeyOf, list) \in Seq(KeyRequests)
    BY <1>2, AllTyped
  <2>4. QED
    BY <2>2, <2>3
<1>4. QED
  BY <1>2, <1>3

\* The keys up to one of them are some of all of them.
LEMMA KeysUpTo ==
  ASSUME NEW list \in Seq(ConstraintRequests), NEW n \in 1 .. Len(list), IsKey(list[n])
  PROVE  Len(Keys(SubSeq(list, 1, n))) \in 1 .. Len(Keys(list))
<1> DEFINE R == ConstraintRequests
           a == SubSeq(list, 1, n - 1)
           b == SubSeq(list, n + 1, Len(list))
           k == list[n]
           h == a \o One(k)
           x == All(KeyOf, a)
           y == All(KeyOf, b)
           e == Len(Keys(SubSeq(list, 1, n)))
           l == Len(Keys(list))
<1>1. a \in Seq(R) /\ b \in Seq(R) /\ k \in R /\ list = h \o b /\ SubSeq(list, 1, n) = h
  BY Split
<1>2. Texts(KeyOf, R, KeyRequests)
  BY KeysOfRequests DEF Texts
<1>3. KeyOf[k] = One(k)
  BY <1>1 DEF KeyOf, KeyOnly, One
<1> HIDE DEF a, b, k, R
<1>4. /\ x \in Seq(KeyRequests) /\ KeyOf[k] \in Seq(KeyRequests) /\ y \in Seq(KeyRequests)
      /\ All(KeyOf, h \o b) = (x \o KeyOf[k]) \o y /\ All(KeyOf, h) = x \o KeyOf[k]
  <2>1. a \in Seq(R)
    BY <1>1
  <2>2. b \in Seq(R)
    BY <1>1
  <2>3. k \in R
    BY <1>1
  <2>4. Parted(KeyOf, KeyRequests, a, k, b)
    BY ONLY <2>1, <2>2, <2>3, <1>2, AllParted
  <2>5. QED
    BY <2>4 DEF Parted
<1>5. Keys(list) = All(KeyOf, list) /\ Keys(h) = All(KeyOf, h)
  <2>1. h \in Seq(R)
    <3>1. One(k) \in Seq(R)
      BY <1>1, OneLaws
    <3>2. QED
      BY <1>1, <3>1
  <2>2. h \in Seq(ConstraintRequests)
    BY <2>1 DEF R
  <2>3. QED
    BY <2>2, KeysOfRequests
<1> HIDE DEF h, x, y
<1>6. l = Len((x \o One(k)) \o y) /\ e = Len(x \o One(k))
  BY ONLY <1>1, <1>3, <1>4, <1>5
<1>7. Len(x) \in Nat /\ Len(y) \in Nat /\ e = Len(x) + 1 /\ l = (Len(x) + 1) + Len(y)
  <2>1. x \in Seq(KeyRequests) /\ One(k) \in Seq(KeyRequests) /\ y \in Seq(KeyRequests) /\ Len(One(k)) = 1
    <3>1. One(k) \in Seq(KeyRequests)
      BY ONLY <1>3, <1>4
    <3>2. Len(One(k)) = 1
      BY <1>1, OneLaws
    <3>3. QED
      BY ONLY <1>4, <3>1, <3>2
  <2>2. Len(x \o One(k)) = Len(x) + 1 /\ x \o One(k) \in Seq(KeyRequests)
    <3> DEFINE z == One(k)
    <3>1. x \in Seq(KeyRequests) /\ z \in Seq(KeyRequests) /\ Len(z) = 1
      BY ONLY <2>1
    <3> HIDE DEF z
    <3>2. x \o z \in Seq(KeyRequests) /\ Len(x \o z) = Len(x) + Len(z)
      <4>1. x \in Seq(KeyRequests) /\ z \in Seq(KeyRequests)
        BY ONLY <3>1
      <4>2. QED
        BY ONLY <4>1, ConcatenationLaws
    <3>3. QED
      BY ONLY <3>1, <3>2 DEF z
  <2>3. Len((x \o One(k)) \o y) = Len(x \o One(k)) + Len(y)
    BY ONLY <2>1, <2>2
  <2>4. QED
    BY ONLY <1>6, <2>1, <2>2, <2>3
<1> HIDE DEF e, l
<1>8. e \in 1 .. l
  BY ONLY <1>7
<1>9. QED
  BY ONLY <1>8 DEF e, l

LEMMA PlaceLaws ==
  ASSUME NEW recs, NEW name \in Names(recs)
  PROVE  Place(recs, name) \in DOMAIN recs /\ recs[Place(recs, name)].name = name
<1>1. \E i \in DOMAIN recs : recs[i].name = name
  BY DEF Names, ToSet
<1>2. QED
  BY <1>1 DEF Place

LEMMA NewColumnsTyped ==
  ASSUME NEW names \in Seq(ColumnNames), lastObjectID \in Nat
  PROVE  /\ NewColumns(names) \in Seq(ColumnRecs) /\ Len(NewColumns(names)) = Len(names)
         /\ DOMAIN NewColumns(names) = 1 .. Len(names)
         /\ Names(NewColumns(names)) = ToSet(names)
         /\ \A i \in 1 .. Len(names) : NewColumns(names)[i].id = (lastObjectID + 1) + i
<1> DEFINE n == Len(names)
           f == NewColumns(names)
<1>1. n \in Nat /\ DOMAIN names = 1 .. n /\ \A i \in 1 .. n : names[i] \in ColumnNames
  OBVIOUS
<1>2. f = [i \in 1 .. n |-> [name |-> names[i], id |-> (lastObjectID + 1) + i]]
  BY <1>1 DEF NewColumns
<1> HIDE DEF f
<1>3. /\ f \in [1 .. n -> ColumnRecs] /\ DOMAIN f = 1 .. n
      /\ \A i \in 1 .. n : f[i].id = (lastObjectID + 1) + i /\ f[i].name = names[i]
  <2> HIDE DEF n
  <2>1. ASSUME NEW i \in 1 .. n PROVE [name |-> names[i], id |-> (lastObjectID + 1) + i] \in ColumnRecs
    BY <1>1 DEF ColumnRecs
  <2>2. QED
    BY <1>2, <2>1
<1>4. f \in Seq(ColumnRecs) /\ Len(f) = n
  <2> HIDE DEF n
  <2> QED BY <1>1, <1>3, FunctionsAreSequences
<1>5. Names(f) = ToSet(names)
  <2> HIDE DEF n
  <2> QED BY <1>1, <1>3 DEF Names, ToSet
<1>6. QED
  BY <1>3, <1>4, <1>5 DEF f

LEMMA AscendingTyped ==
  ASSUME NEW names \in NameLists, NEW nocase \in BOOLEAN
  PROVE  Ascending(names, nocase) \in Seq(IndexedRecs) \ {<<>>}
<1> DEFINE n == Len(names)
           f == Ascending(names, nocase)
<1>1. names \in Seq(ColumnNames) /\ names # <<>>
  BY DEF NameLists
<1>2. n \in Nat /\ n # 0 /\ DOMAIN names = 1 .. n /\ \A i \in 1 .. n : names[i] \in ColumnNames
  BY <1>1
<1> HIDE DEF n
<1>3. f \in [1 .. n -> IndexedRecs] /\ DOMAIN f = 1 .. n
  BY <1>2 DEF Ascending, IndexedRecs
<1>4. f \in Seq(IndexedRecs) /\ Len(f) = n
  <2> HIDE DEF f
  <2> QED BY <1>2, <1>3, FunctionsAreSequences
<1> HIDE DEF f
<1>5. f # <<>>
  BY <1>2, <1>4
<1>6. QED
  BY <1>4, <1>5 DEF f

LEMMA NewIndexesTyped ==
  ASSUME NEW list \in Seq(ConstraintRequests), NEW first \in Int, NEW roots \in Seq(Pages),
         Len(roots) = Len(Keys(list))
  PROVE  /\ NewIndexes(list, first, roots) \in Seq(IndexRecs)
         /\ Len(NewIndexes(list, first, roots)) = Len(Keys(list))
         /\ DOMAIN NewIndexes(list, first, roots) = 1 .. Len(Keys(list))
         /\ \A i \in 1 .. Len(Keys(list)) : /\ NewIndexes(list, first, roots)[i].id = (first + i) - 1
                                            /\ NewIndexes(list, first, roots)[i].root = roots[i]
<1> DEFINE keys == Keys(list)
           n == Len(keys)
           f == NewIndexes(list, first, roots)
<1>1. keys \in Seq(KeyRequests)
  BY KeysOfRequests
<1> HIDE DEF keys
<1>2. n \in Nat /\ DOMAIN keys = 1 .. n /\ \A i \in 1 .. n : keys[i] \in KeyRequests
  BY <1>1
<1>3. \A i \in 1 .. n : roots[i] \in Pages
  BY DEF keys
<1>4. f = [i \in 1 .. n |-> KeyIndex(keys[i], (first + i) - 1, roots[i])]
  BY <1>2 DEF NewIndexes, keys
<1> HIDE DEF f, n
<1>5. ASSUME NEW i \in 1 .. n
      PROVE  /\ KeyIndex(keys[i], (first + i) - 1, roots[i]) \in IndexRecs
             /\ KeyIndex(keys[i], (first + i) - 1, roots[i]).id = (first + i) - 1
             /\ KeyIndex(keys[i], (first + i) - 1, roots[i]).root = roots[i]
  <2>1. keys[i].index \in IndexNames /\ keys[i].columns \in NameLists
    BY <1>2 DEF KeyRequests
  <2>2. (first + i) - 1 \in Int /\ roots[i] \in Pages
    BY <1>2, <1>3
  <2>3. Ascending(keys[i].columns, FALSE) \in Seq(IndexedRecs) \ {<<>>}
    BY <2>1, AscendingTyped
  <2>4. QED
    BY <2>1, <2>2, <2>3 DEF KeyIndex, IndexRecs
<1>6. f \in [1 .. n -> IndexRecs] /\ DOMAIN f = 1 .. n
      /\ \A i \in 1 .. n : f[i].id = (first + i) - 1 /\ f[i].root = roots[i]
  BY <1>4, <1>5
<1>7. f \in Seq(IndexRecs) /\ Len(f) = n
  BY <1>2, <1>6, FunctionsAreSequences
<1>8. QED
  BY <1>6, <1>7 DEF f, n, keys

LEMMA NumberedTyped ==
  ASSUME NEW list \in Seq(ConstraintRequests), NEW n \in 1 .. Len(list), NEW t \in Tables,
         NEW columns \in Seq(ColumnRecs), ToSet(list[n].columns) \subseteq Names(columns),
         NEW indexes \in Seq(IndexRecs), Len(indexes) = Len(Keys(list)), NEW id \in Int
  PROVE  /\ Numbered(list, n, t, columns, indexes, id) \in RuleRecs
         /\ Numbered(list, n, t, columns, indexes, id).id = id
<1> DEFINE k == list[n]
           r == Numbered(list, n, t, columns, indexes, id)
           m == Len(k.columns)
           covered == [i \in DOMAIN k.columns |-> Called(columns, k.columns[i])]
           owner == indexes[Len(Keys(SubSeq(list, 1, n)))].id
           column == <<[name |-> k.columns[1]]>>
<1>1. k \in ConstraintRequests
  OBVIOUS
<1>2. k.columns \in NameLists /\ m \in Nat /\ m # 0 /\ k.columns[1] \in ColumnNames /\ DOMAIN k.columns = 1 .. m
  <2>1. k.columns \in NameLists
    BY <1>1, RequestKinds
  <2>2. QED
    BY <2>1 DEF NameLists
<1>3. covered \in [1 .. m -> ColumnRecs] /\ covered[1].id \in Int
  <2>1. ASSUME NEW i \in 1 .. m PROVE Called(columns, k.columns[i]) \in ColumnRecs
    <3>1. k.columns[i] \in Names(columns)
      BY <1>2 DEF ToSet
    <3>2. Place(columns, k.columns[i]) \in DOMAIN columns
      BY <3>1, PlaceLaws
    <3>3. QED
      BY <3>2 DEF Called
  <2>2. covered = [i \in 1 .. m |-> Called(columns, k.columns[i])]
    BY <1>2
  <2> HIDE DEF covered, m
  <2>3. covered \in [1 .. m -> ColumnRecs] /\ 1 \in 1 .. m
    BY <1>2, <2>1, <2>2
  <2>4. covered[1] \in ColumnRecs
    BY ONLY <2>3
  <2>5. QED
    BY <2>3, <2>4 DEF ColumnRecs
<1>4. covered \in Seq(ColumnRecs)
  <2> HIDE DEF covered, m
  <2> QED BY <1>2, <1>3, FunctionsAreSequences
<1>5. column \in ColumnOnly /\ t \in Tables \cup {NoName}
  BY <1>2 DEF ColumnOnly
<1>6. r = IF IsKey(k)
            THEN [kind |-> k.kind, name |-> k.columns[1], id |-> id, owner |-> owner,
                  table |-> t, index |-> k.index, columns |-> covered]
          ELSE IF k.kind = Check
            THEN [kind |-> k.kind, name |-> k.columns[1], id |-> id, owner |-> covered[1].id,
                  table |-> t, columns |-> column, min |-> k.min, max |-> k.max]
          ELSE [kind |-> k.kind, name |-> k.columns[1], id |-> id, owner |-> covered[1].id,
                table |-> t, columns |-> column]
  BY DEF Numbered
<1>7. CASE IsKey(k)
  <2>1. owner \in Int
    <3>1. Len(Keys(SubSeq(list, 1, n))) \in 1 .. Len(indexes)
      BY <1>7, KeysUpTo
    <3>2. indexes[Len(Keys(SubSeq(list, 1, n)))] \in IndexRecs
      BY <3>1
    <3>3. QED
      BY <3>2 DEF IndexRecs
  <2>2. k.kind \in KeyKinds /\ k.index \in IndexNames
    <3>1. k \in KeyRequests
      BY <1>1, <1>7, RequestKinds
    <3>2. QED
      BY <3>1 DEF KeyRequests
  <2> HIDE DEF r, owner, covered, k
  <2>3. r = [kind |-> k.kind, name |-> k.columns[1], id |-> id, owner |-> owner,
             table |-> t, index |-> k.index, columns |-> covered]
    BY ONLY <1>6, <1>7
  <2>4. r \in KeyRecs /\ r.id = id
    BY <1>2, <1>4, <1>5, <2>1, <2>2, <2>3 DEF KeyRecs
  <2>5. QED
    BY <2>4 DEF RuleRecs, r
<1>8. CASE ~IsKey(k)
  <2>1. k.kind \in {NotNull, Check} /\ (k.kind = Check => k.min \in Int /\ k.max \in Int)
    BY <1>1, <1>8, RequestKinds
  <2> HIDE DEF r, owner, covered, k, column
  <2>2. CASE k.kind = Check
    <3>1. r = [kind |-> k.kind, name |-> k.columns[1], id |-> id, owner |-> covered[1].id,
               table |-> t, columns |-> column, min |-> k.min, max |-> k.max]
      BY ONLY <1>6, <1>8, <2>2
    <3>2. r \in CheckRecs /\ r.id = id
      BY <1>2, <1>3, <1>5, <2>1, <2>2, <3>1 DEF CheckRecs
    <3>3. QED
      BY <3>2 DEF RuleRecs, r
  <2>3. CASE k.kind # Check
    <3>1. r = [kind |-> k.kind, name |-> k.columns[1], id |-> id, owner |-> covered[1].id,
               table |-> t, columns |-> column]
      BY ONLY <1>6, <1>8, <2>3
    <3>2. r \in NotNullRecs /\ r.id = id
      BY <1>2, <1>3, <1>5, <2>1, <2>3, <3>1 DEF NotNullRecs
    <3>3. QED
      BY <3>2 DEF RuleRecs, r
  <2>4. QED
    BY <2>2, <2>3
<1>9. QED
  BY <1>7, <1>8

LEMMA NewConstraintsTyped ==
  ASSUME NEW list \in Seq(ConstraintRequests), NEW t \in Tables, NEW columns \in Seq(ColumnRecs),
         \A k \in ToSet(list) : ToSet(k.columns) \subseteq Names(columns),
         NEW indexes \in Seq(IndexRecs), Len(indexes) = Len(Keys(list)), NEW first \in Int
  PROVE  /\ NewConstraints(list, t, columns, indexes, first) \in Seq(RuleRecs)
         /\ Len(NewConstraints(list, t, columns, indexes, first)) = Len(list)
         /\ DOMAIN NewConstraints(list, t, columns, indexes, first) = 1 .. Len(list)
         /\ \A i \in 1 .. Len(list) : NewConstraints(list, t, columns, indexes, first)[i].id = (first + i) - 1
<1> DEFINE n == Len(list)
           f == NewConstraints(list, t, columns, indexes, first)
<1>1. n \in Nat /\ DOMAIN list = 1 .. n
  OBVIOUS
<1>2. f = [i \in 1 .. n |-> Numbered(list, i, t, columns, indexes, (first + i) - 1)]
  BY <1>1 DEF NewConstraints
<1>3. ASSUME NEW i \in 1 .. n
      PROVE  /\ Numbered(list, i, t, columns, indexes, (first + i) - 1) \in RuleRecs
             /\ Numbered(list, i, t, columns, indexes, (first + i) - 1).id = (first + i) - 1
  <2> DEFINE id == (first + i) - 1
  <2>1. id \in Int
    BY <1>1
  <2>2. ToSet(list[i].columns) \subseteq Names(columns)
    <3>1. list[i] \in ToSet(list)
      BY <1>1 DEF ToSet
    <3>2. QED
      BY <3>1
  <2> HIDE DEF id
  <2>3. Numbered(list, i, t, columns, indexes, id) \in RuleRecs /\ Numbered(list, i, t, columns, indexes, id).id = id
    BY <2>1, <2>2, NumberedTyped
  <2>4. QED
    BY <2>3 DEF id
<1> HIDE DEF f, n
<1>4. f \in [1 .. n -> RuleRecs] /\ DOMAIN f = 1 .. n /\ \A i \in 1 .. n : f[i].id = (first + i) - 1
  BY <1>2, <1>3
<1>5. f \in Seq(RuleRecs) /\ Len(f) = n
  BY <1>1, <1>4, FunctionsAreSequences
<1>6. QED
  BY <1>4, <1>5 DEF f, n

-----------------------------------------------------------------------------
(* The pages that are taken, and the chains they are on.                   *)

LEMMA LowestLaws ==
  ASSUME NEW S \in SUBSET Pages, NEW n \in Nat, n <= Cardinality(S)
  PROVE  /\ Lowest(n, S) \in [1 .. n -> S] /\ IsInjective(Lowest(n, S))
         /\ Lowest(n, S) \in Seq(Pages) /\ Len(Lowest(n, S)) = n /\ DOMAIN Lowest(n, S) = 1 .. n
         /\ ToSet(Lowest(n, S)) \subseteq S
<1> DEFINE rank == [p \in S |-> Cardinality({q \in S : q < p})]
           m == Cardinality(S)
           s == Lowest(n, S)
<1>1. S \subseteq Nat /\ IsFiniteSet(S)
  BY FS_Subset, SchemaStreamAssumption
<1>2. m \in Nat /\ n <= m
  BY <1>1, FS_CardinalityType
<1>3. /\ \A p \in S : rank[p] \in 0 .. m - 1
      /\ \A p, q \in S : p < q => rank[p] < rank[q]
      /\ \A r \in 0 .. m - 1 : \E p \in S : rank[p] = r
  BY <1>1, RanksOfNumbers
<1>4. s = [i \in 1 .. n |-> CHOOSE p \in S : Cardinality({q \in S : q < p}) = i - 1]
  BY DEF Lowest
<1>0. \A p \in S : rank[p] = Cardinality({q \in S : q < p})
  OBVIOUS
<1> HIDE DEF rank, m, s
<1>5. ASSUME NEW i \in 1 .. n PROVE s[i] \in S /\ rank[s[i]] = i - 1
  <2>1. i - 1 \in 0 .. m - 1
    BY <1>2
  <2>2. PICK p \in S : rank[p] = i - 1
    BY <1>3, <2>1
  <2>3. s[i] = CHOOSE r \in S : Cardinality({q \in S : q < r}) = i - 1
    BY <1>4
  <2>4. Cardinality({q \in S : q < p}) = i - 1
    BY <1>0, <2>2
  <2>5. s[i] \in S /\ Cardinality({q \in S : q < s[i]}) = i - 1
    BY <2>3, <2>4
  <2>6. QED
    BY <1>0, <2>5
<1>6. s \in [1 .. n -> S] /\ DOMAIN s = 1 .. n
  BY <1>4, <1>5
<1>7. IsInjective(s)
  <2>1. ASSUME NEW i \in 1 .. n, NEW j \in 1 .. n, s[i] = s[j] PROVE i = j
    <3>1. rank[s[i]] = i - 1 /\ rank[s[j]] = j - 1
      BY <1>5
    <3>2. i - 1 = j - 1
      BY <2>1, <3>1
    <3>3. QED
      BY <3>2
  <2>2. QED
    BY <1>6, <2>1 DEF IsInjective
<1>8. s \in [1 .. n -> Pages]
  BY <1>6
<1>9. s \in Seq(Pages) /\ Len(s) = n
  BY <1>8, FunctionsAreSequences
<1>10. ToSet(s) \subseteq S
  BY <1>6 DEF ToSet
<1>11. QED
  BY <1>6, <1>7, <1>9, <1>10 DEF s

\* A function that is applied again and again.
Repeatable(G, A, base, n) == base \in A /\ G \in [A -> A] /\ n \in Nat
Iterates(h, G, A, base, n) ==
  h \in [0 .. n -> A] /\ h[0] = base /\ \A k \in 1 .. n : h[k] = G[h[k - 1]]

LEMMA IterationsExist ==
  ASSUME NEW A, NEW base, NEW G, NEW n, Repeatable(G, A, base, n)
  PROVE  \E h : Iterates(h, G, A, base, n)
<1>0. base \in A /\ G \in [A -> A] /\ n \in Nat
  BY DEF Repeatable
<1> DEFINE Iterated(m) == \E h \in [0 .. m -> A] : h[0] = base /\ \A k \in 1 .. m : h[k] = G[h[k - 1]]
           N == {m \in Nat : Iterated(m)}
<1>1. 0 \in N
  <2> DEFINE h == [k \in 0 .. 0 |-> base]
  <2>1. h \in [0 .. 0 -> A] /\ h[0] = base /\ \A k \in 1 .. 0 : h[k] = G[h[k - 1]]
    BY <1>0
  <2> HIDE DEF h
  <2>2. Iterated(0)
    BY <2>1
  <2>3. QED
    BY <2>2
<1>2. ASSUME NEW m \in Nat, m \in N PROVE m + 1 \in N
  <2>1. PICK g \in [0 .. m -> A] : g[0] = base /\ \A k \in 1 .. m : g[k] = G[g[k - 1]]
    BY <1>2
  <2> DEFINE o == m + 1
             h == [k \in 0 .. o |-> IF k <= m THEN g[k] ELSE G[g[m]]]
  <2>2. h \in [0 .. o -> A] /\ h[0] = base
    BY <1>0, <2>1
  <2>3. ASSUME NEW k \in 1 .. o PROVE h[k] = G[h[k - 1]]
    <3>1. CASE k <= m
      <4>1. k \in 1 .. m /\ k \in 0 .. o /\ k - 1 \in 0 .. o /\ k - 1 <= m
        BY <3>1
      <4>2. h[k] = g[k] /\ h[k - 1] = g[k - 1]
        BY <3>1, <4>1
      <4>3. QED
        BY <2>1, <4>1, <4>2
    <3>2. CASE ~(k <= m)
      <4>1. k - 1 = m /\ m \in 0 .. o /\ k \in 0 .. o /\ m <= m
        BY <3>2
      <4>2. h[k] = G[g[m]] /\ h[m] = g[m]
        BY <3>2, <4>1
      <4>3. QED
        BY <4>1, <4>2
    <3>3. QED
      BY <3>1, <3>2
  <2> HIDE DEF h
  <2>4. Iterated(o)
    BY <2>2, <2>3
  <2>5. o \in Nat
    OBVIOUS
  <2>6. QED
    BY <2>4, <2>5
<1> HIDE DEF N
<1>3. n \in N
  BY <1>0, <1>1, <1>2, NumbersByInduction
<1>4. QED
  BY <1>3 DEF N, Iterates

\* The end of a sequence, from one element on.
LEMMA SuffixLaws ==
  ASSUME NEW T, NEW c \in Seq(T), NEW i \in 1 .. Len(c)
  PROVE  /\ SubSeq(c, i, Len(c)) \in Seq(T)
         /\ i = Len(c) => SubSeq(c, i, Len(c)) = One(c[i])
         /\ i < Len(c) => SubSeq(c, i, Len(c)) = One(c[i]) \o SubSeq(c, i + 1, Len(c))
         /\ i = 1 => SubSeq(c, i, Len(c)) = c
<1> DEFINE m == Len(c)
           u == SubSeq(c, i, m)
           x == One(c[i])
<1>1. m \in Nat /\ i \in 1 .. m /\ c[i] \in T
  OBVIOUS
<1>2. u \in Seq(T) /\ Len(u) = (m - i) + 1 /\ \A k \in 1 .. (m - i) + 1 : u[k] = c[(i - 1) + k]
  <2>1. i \in Nat \ {0} /\ m \in Nat /\ m <= Len(c) /\ i <= m + 1
    BY <1>1
  <2> HIDE DEF m
  <2>2. QED
    BY ONLY <2>1, c \in Seq(T), SubSeqLaws
<1>3. x \in Seq(T) /\ Len(x) = 1 /\ x[1] = c[i]
  BY <1>1, OneLaws
<1> HIDE DEF u, x, m
<1>4. ASSUME i = m PROVE u = x
  <2>1. Len(u) = 1 /\ u[1] = c[i]
    <3>1. (m - i) + 1 = 1 /\ (i - 1) + 1 = i /\ 1 \in 1 .. 1
      BY ONLY <1>1, <1>4
    <3>2. Len(u) = 1 /\ u[1] = c[(i - 1) + 1]
      BY ONLY <1>2, <3>1
    <3>3. QED
      BY ONLY <3>1, <3>2
  <2>2. Len(u) = Len(x) /\ \A k \in 1 .. Len(u) : u[k] = x[k]
    BY ONLY <1>3, <2>1
  <2>3. QED
    BY ONLY <1>2, <1>3, <2>2, SameSequences
<1>5. ASSUME i < m PROVE u = x \o SubSeq(c, i + 1, m)
  <2> DEFINE j == i + 1
             v == SubSeq(c, j, m)
             xv == x \o v
  <2>1. j \in Nat \ {0} /\ m \in Nat /\ m <= Len(c) /\ j <= m + 1 /\ (m - j) + 1 = m - i /\ j - 1 = i
    BY ONLY <1>1, <1>5 DEF m
  <2> HIDE DEF j
  <2>2. v \in Seq(T) /\ Len(v) = (m - j) + 1 /\ \A k \in 1 .. (m - j) + 1 : v[k] = c[(j - 1) + k]
    BY ONLY <2>1, c \in Seq(T), SubSeqLaws
  <2> HIDE DEF v
  <2>3. /\ xv \in Seq(T) /\ Len(xv) = Len(x) + Len(v)
        /\ (\A k \in 1 .. Len(x) : xv[k] = x[k]) /\ \A k \in 1 .. Len(v) : xv[k + Len(x)] = v[k]
    <3>1. x \in Seq(T) /\ v \in Seq(T)
      BY ONLY <1>3, <2>2
    <3>2. QED
      BY ONLY <3>1, ConcatenationLaws
  <2> HIDE DEF xv
  <2>4. Len(u) = Len(xv)
    BY ONLY <1>1, <1>2, <1>3, <2>1, <2>2, <2>3
  <2>5. ASSUME NEW k \in 1 .. Len(u) PROVE u[k] = xv[k]
    <3>1. u[k] = c[(i - 1) + k] /\ k \in Nat /\ 1 <= k /\ k <= (m - i) + 1
      BY ONLY <1>1, <1>2, k \in 1 .. Len(u)
    <3>2. CASE k = 1
      <4>1. (i - 1) + k = i /\ k \in 1 .. Len(x)
        BY ONLY <1>1, <1>3, <3>2
      <4>2. QED
        BY ONLY <1>3, <2>3, <3>1, <3>2, <4>1
    <3>3. CASE k # 1
      <4>1. k - 1 \in 1 .. Len(v) /\ (k - 1) + Len(x) = k /\ (j - 1) + (k - 1) = (i - 1) + k
        BY ONLY <1>1, <1>3, <2>1, <2>2, <3>1, <3>3
      <4>2. xv[(k - 1) + Len(x)] = v[k - 1] /\ v[k - 1] = c[(j - 1) + (k - 1)]
        BY ONLY <2>2, <2>3, <4>1
      <4>3. QED
        BY ONLY <3>1, <4>1, <4>2
    <3>4. QED
      BY <3>2, <3>3
  <2>6. u = xv
    BY ONLY <1>2, <2>3, <2>4, <2>5, SameSequences
  <2>7. QED
    BY ONLY <2>6 DEF xv, v, j
<1>6. ASSUME i = 1 PROVE u = c
  <2>1. Len(u) = Len(c)
    BY ONLY <1>1, <1>2, <1>6 DEF m
  <2>2. ASSUME NEW k \in 1 .. Len(u) PROVE u[k] = c[k]
    <3>1. (i - 1) + k = k /\ u[k] = c[(i - 1) + k]
      BY ONLY <1>1, <1>2, <1>6, k \in 1 .. Len(u)
    <3>2. QED
      BY ONLY <3>1
  <2>3. QED
    BY ONLY <1>2, <2>1, <2>2, c \in Seq(T), SameSequences
<1>7. QED
  BY ONLY <1>2, <1>4, <1>5, <1>6 DEF u, x, m

IsChain(links, c) ==
  /\ c \in Seq(Pages) /\ Len(c) # 0 /\ IsInjective(c)
  /\ links[c[Len(c)]] = -1
  /\ \A i \in 1 .. Len(c) - 1 : links[c[i]] = c[i + 1]

LEMMA ChainsFit ==
  ASSUME NEW c \in Seq(Pages), IsInjective(c)
  PROVE  Len(c) <= Cardinality(Pages) /\ Cardinality(Pages) \in Nat
<1>1. c \in [1 .. Len(c) -> Pages] /\ IsFiniteSet(Pages)
  BY SchemaStreamAssumption
<1>2. c \in Injection(1 .. Len(c), Pages)
  BY <1>1 DEF Injection
<1>3. Cardinality(1 .. Len(c)) = Len(c)
  <2>1. Len(c) \in Nat
    OBVIOUS
  <2>2. QED
    BY <2>1, FS_Interval, SMTT(60)
<1>4. Cardinality(1 .. Len(c)) <= Cardinality(Pages)
  BY ONLY <1>1, <1>2, FS_Injection
<1>5. QED
  BY <1>1, <1>3, <1>4, FS_CardinalityType

\* One page more, as long as there is a link.
Further(links, first, before) ==
  LET p == IF before = <<>> THEN first ELSE links[Last(before)]
  IN  IF p = -1 THEN before ELSE Append(before, p)

\* The walks along the links from a page, by their number of steps.
Walks(h, links, first, n) ==
  h[0] = <<>> /\ \A k \in 1 .. n : h[k] = Further(links, first, h[k - 1])

LEMMA FurtherTyped ==
  ASSUME NEW links \in [Pages -> PageNumbers], NEW first \in Pages, NEW before \in Seq(Pages)
  PROVE  Further(links, first, before) \in Seq(Pages)
<1> DEFINE p == IF before = <<>> THEN first ELSE links[Last(before)]
<1>1. p \in PageNumbers
  <2>1. CASE before = <<>>
    BY <2>1 DEF PageNumbers
  <2>2. CASE before # <<>>
    <3>1. Last(before) \in Pages
      BY <2>2 DEF Last
    <3>2. QED
      BY <2>2, <3>1
  <2>3. QED
    BY <2>1, <2>2
<1> HIDE DEF p
<1>2. IF p = -1 THEN before \in Seq(Pages) ELSE Append(before, p) \in Seq(Pages)
  BY <1>1 DEF PageNumbers
<1>3. QED
  BY <1>2 DEF Further, p

LEMMA WalksExist ==
  ASSUME NEW links \in [Pages -> PageNumbers], NEW first \in Pages
  PROVE  \E h : Walks(h, links, first, Cardinality(Pages)) /\ ChainFrom(links, first) = h[Cardinality(Pages)]
<1> DEFINE N == Cardinality(Pages)
           A == Seq(Pages)
           G == [b \in A |-> Further(links, first, b)]
           Step(f) == [n \in 0 .. N |-> IF n = 0 THEN <<>> ELSE Further(links, first, f[n - 1])]
           f == CHOOSE f : f = Step(f)
<1>1. N \in Nat
  BY FS_CardinalityType, SchemaStreamAssumption
<1>2. <<>> \in A /\ G \in [A -> A]
  BY FurtherTyped
<1> HIDE DEF N
<1>3. PICK h \in [0 .. N -> A] : h[0] = <<>> /\ \A k \in 1 .. N : h[k] = G[h[k - 1]]
  <2> HIDE DEF A, G
  <2>1. Repeatable(G, A, <<>>, N)
    BY ONLY <1>1, <1>2 DEF Repeatable
  <2>2. \E h : Iterates(h, G, A, <<>>, N)
    BY ONLY <2>1, IterationsExist
  <2>3. QED
    BY ONLY <2>2 DEF Iterates
<1>4. h = Step(h)
  <2>1. ASSUME NEW n \in 0 .. N
        PROVE  h[n] = IF n = 0 THEN <<>> ELSE Further(links, first, h[n - 1])
    <3>1. CASE n = 0
      BY <1>3, <3>1
    <3>2. CASE n # 0
      <4>1. n \in 1 .. N /\ n - 1 \in 0 .. N
        BY <1>1, <3>2
      <4>2. h[n] = G[h[n - 1]] /\ h[n - 1] \in A
        BY <1>3, <4>1
      <4>3. QED
        BY <3>2, <4>2
    <3>3. QED
      BY <3>1, <3>2
  <2>2. QED
    BY <2>1
<1>5. f = Step(f)
  <2> HIDE DEF Step
  <2> QED BY <1>4
<1>6. ChainFrom(links, first) = f[N]
  BY DEF ChainFrom, Further, N
<1> HIDE DEF f
<1>7. Walks(f, links, first, N)
  <2>1. f[0] = <<>>
    BY <1>1, <1>5
  <2>2. ASSUME NEW k \in 1 .. N PROVE f[k] = Further(links, first, f[k - 1])
    <3>1. k \in 0 .. N /\ k # 0
      BY <1>1
    <3>2. QED
      BY <1>5, <3>1
  <2>3. QED
    BY <2>1, <2>2 DEF Walks
<1>8. QED
  BY <1>6, <1>7 DEF N

\* The beginning of a sequence, up to one element.
LEMMA PrefixLaws ==
  ASSUME NEW T, NEW c \in Seq(T), NEW k \in 0 .. Len(c)
  PROVE  /\ SubSeq(c, 1, k) \in Seq(T) /\ Len(SubSeq(c, 1, k)) = k
         /\ \A i \in 1 .. k : SubSeq(c, 1, k)[i] = c[i]
         /\ k = 0 => SubSeq(c, 1, k) = <<>>
         /\ k # 0 => SubSeq(c, 1, k) # <<>> /\ Last(SubSeq(c, 1, k)) = c[k]
         /\ k = Len(c) => SubSeq(c, 1, k) = c
         /\ k < Len(c) => SubSeq(c, 1, k + 1) = Append(SubSeq(c, 1, k), c[k + 1])
<1> DEFINE m == Len(c)
           h == SubSeq(c, 1, k)
<1>1. m \in Nat /\ k \in 0 .. m /\ 1 \in Nat \ {0} /\ \A i \in 1 .. m : c[i] \in T
  OBVIOUS
<1>2. \A i \in 1 .. m : (1 - 1) + i = i
  OBVIOUS
<1>3. ASSUME NEW n \in 0 .. m
      PROVE  /\ SubSeq(c, 1, n) \in Seq(T) /\ Len(SubSeq(c, 1, n)) = n
             /\ \A i \in 1 .. n : SubSeq(c, 1, n)[i] = c[i]
  <2>1. n \in Nat /\ n <= Len(c) /\ 1 <= n + 1 /\ (n - 1) + 1 = n /\ \A i \in 1 .. n : i \in 1 .. m
    BY <1>1
  <2> DEFINE g == SubSeq(c, 1, n)
  <2>2. g \in Seq(T) /\ Len(g) = (n - 1) + 1 /\ \A i \in 1 .. (n - 1) + 1 : g[i] = c[(1 - 1) + i]
    BY ONLY <1>1, <2>1, c \in Seq(T), SubSeqLaws
  <2> HIDE DEF g
  <2>3. g \in Seq(T) /\ Len(g) = n /\ \A i \in 1 .. n : g[i] = c[i]
    BY ONLY <1>2, <2>1, <2>2
  <2>4. QED
    BY <2>3 DEF g
<1>4. h \in Seq(T) /\ Len(h) = k /\ \A i \in 1 .. k : h[i] = c[i]
  BY <1>1, <1>3
<1> HIDE DEF h
<1>5. ASSUME k = 0 PROVE h = <<>>
  <2>1. <<>> \in Seq(T) /\ Len(<<>>) = 0 /\ \A i \in 1 .. Len(h) : h[i] = <<>>[i]
    BY <1>4, <1>5
  <2>2. QED
    BY ONLY <1>4, <1>5, <2>1, SameSequences
<1>6. ASSUME k # 0 PROVE h # <<>> /\ Last(h) = c[k]
  <2>1. k \in 1 .. k
    BY <1>1, <1>6
  <2>2. QED
    BY <1>4, <1>6, <2>1 DEF Last
<1>7. ASSUME k = m PROVE h = c
  <2>1. Len(h) = Len(c) /\ \A i \in 1 .. Len(h) : h[i] = c[i]
    BY <1>4, <1>7
  <2>2. QED
    BY ONLY <1>4, <2>1, c \in Seq(T), SameSequences
<1>8. ASSUME k < m PROVE SubSeq(c, 1, k + 1) = Append(h, c[k + 1])
  <2> DEFINE n == k + 1
             l == SubSeq(c, 1, n)
             r == Append(h, c[n])
  <2>1. n \in 0 .. m /\ c[n] \in T /\ n = Len(h) + 1
    BY <1>1, <1>4, <1>8
  <2> HIDE DEF n
  <2>2. l \in Seq(T) /\ Len(l) = n /\ \A i \in 1 .. n : l[i] = c[i]
    BY <1>3, <2>1
  <2>3. r \in Seq(T) /\ Len(r) = Len(h) + 1 /\ (\A i \in 1 .. Len(h) : r[i] = h[i]) /\ r[Len(h) + 1] = c[n]
    <3>1. h \in Seq(T) /\ c[n] \in T
      BY ONLY <1>4, <2>1
    <3>2. QED
      BY ONLY <3>1, AppendLaws
  <2> HIDE DEF l, r
  <2>4. ASSUME NEW i \in 1 .. n PROVE l[i] = r[i]
    <3>1. i \in 1 .. Len(h) \/ i = Len(h) + 1
      BY ONLY <1>1, <1>4, <2>1, i \in 1 .. n
    <3>2. QED
      BY ONLY <1>4, <2>1, <2>2, <2>3, <3>1, i \in 1 .. n
  <2>5. l = r
    BY ONLY <2>1, <2>2, <2>3, <2>4, SameSequences
  <2>6. QED
    BY <2>5 DEF l, r, n
<1>9. QED
  BY ONLY <1>4, <1>5, <1>6, <1>7, <1>8 DEF h, m

LEMMA ChainsAreFollowed ==
  ASSUME NEW links \in [Pages -> PageNumbers], NEW c, IsChain(links, c)
  PROVE  ChainFrom(links, c[1]) = c
<1> DEFINE N == Cardinality(Pages)
           m == Len(c)
           pre(k) == SubSeq(c, 1, k)
           Right(k) == IF k <= m THEN pre(k) ELSE c
<1>1. /\ c \in Seq(Pages) /\ m \in Nat /\ m # 0 /\ N \in Nat /\ m <= N /\ c[1] \in Pages
      /\ links[c[m]] = -1 /\ (\A i \in 1 .. m - 1 : links[c[i]] = c[i + 1])
      /\ (\A i \in 1 .. m : c[i] \in Pages) /\ c # <<>> /\ Last(c) = c[m]
  <2>1. c \in Seq(Pages) /\ m # 0 /\ links[c[m]] = -1 /\ \A i \in 1 .. m - 1 : links[c[i]] = c[i + 1]
    BY DEF IsChain
  <2>2. m <= N /\ N \in Nat
    BY <2>1, ChainsFit DEF IsChain
  <2>3. m \in Nat /\ (\A i \in 1 .. m : c[i] \in Pages) /\ c # <<>>
    BY <2>1
  <2>4. c[1] \in Pages /\ Last(c) = c[m]
    BY <2>1, <2>3 DEF Last
  <2>5. QED
    BY <2>1, <2>2, <2>3, <2>4
<1>2. -1 \notin Pages
  BY SchemaStreamAssumption
<1>3. PICK h : Walks(h, links, c[1], N) /\ ChainFrom(links, c[1]) = h[N]
  BY <1>1, WalksExist
<1>4. h[0] = <<>> /\ \A k \in 1 .. N : h[k] = Further(links, c[1], h[k - 1])
  BY <1>3 DEF Walks
<1>5. ASSUME NEW k \in 0 .. m
      PROVE  /\ k = 0 => pre(k) = <<>>
             /\ k # 0 => pre(k) # <<>> /\ Last(pre(k)) = c[k]
             /\ k = m => pre(k) = c
             /\ k < m => pre(k + 1) = Append(pre(k), c[k + 1])
  BY <1>1, PrefixLaws
<1> HIDE DEF N, m, pre
<1> DEFINE G == {k \in Nat : k <= N => h[k] = Right(k)}
<1>6. 0 \in G
  BY <1>1, <1>4, <1>5
<1>7. ASSUME NEW k \in Nat, k \in G PROVE k + 1 \in G
  <2> SUFFICES ASSUME k + 1 <= N PROVE h[k + 1] = Right(k + 1)
    OBVIOUS
  <2> DEFINE n == k + 1
  <2>1. n \in 1 .. N /\ n - 1 = k /\ k <= N
    BY <1>1
  <2>2. h[k] = Right(k)
    BY <1>7, <2>1
  <2>3. h[n] = Further(links, c[1], h[k])
    <3> HIDE DEF n
    <3> QED BY <1>4, <2>1
  <2>4. CASE k = 0
    <3>1. h[k] = <<>> /\ pre(0 + 1) = Append(<<>>, c[0 + 1])
      <4>1. 0 \in 0 .. m /\ 0 < m
        BY ONLY <1>1
      <4>2. pre(0) = <<>> /\ pre(0 + 1) = Append(pre(0), c[0 + 1])
        BY ONLY <1>5, <4>1
      <4>3. QED
        BY ONLY <1>4, <2>4, <4>2
    <3>2. 0 + 1 = 1 /\ n = 1 /\ n <= m
      BY <1>1, <2>4
    <3> HIDE DEF n
    <3>3. h[n] = Append(<<>>, c[1])
      BY <1>1, <1>2, <2>3, <3>1 DEF Further
    <3>4. pre(n) = Append(<<>>, c[1])
      BY <3>1, <3>2
    <3>5. h[n] = Right(n)
      BY <3>2, <3>3, <3>4
    <3>6. QED
      BY <3>5 DEF n
  <2>5. CASE k # 0 /\ k < m
    <3>1. k \in 0 .. m /\ n <= m /\ k \in 1 .. m - 1 /\ n \in 1 .. m
      BY <1>1, <2>5
    <3>2. h[k] = pre(k) /\ pre(k) # <<>> /\ Last(pre(k)) = c[k] /\ pre(n) = Append(pre(k), c[n])
      BY <1>5, <2>2, <2>5, <3>1
    <3>3. links[c[k]] = c[n] /\ c[n] # -1
      BY <1>1, <1>2, <3>1
    <3> HIDE DEF n
    <3>4. h[n] = Append(pre(k), c[n])
      BY <2>3, <3>2, <3>3 DEF Further
    <3>5. h[n] = Right(n)
      BY <3>1, <3>2, <3>4
    <3>6. QED
      BY <3>5 DEF n
  <2>6. CASE k >= m
    <3>1. h[k] = c
      <4>1. k = m \/ ~(k <= m)
        BY <1>1, <2>6
      <4>2. m \in 0 .. m /\ m <= m
        BY <1>1
      <4>3. QED
        BY <1>5, <2>2, <4>1, <4>2
    <3>2. ~(n <= m)
      BY <1>1, <2>6
    <3> HIDE DEF n
    <3>3. h[n] = c
      BY <1>1, <2>3, <3>1 DEF Further
    <3>4. h[n] = Right(n)
      BY <3>2, <3>3
    <3>5. QED
      BY <3>4 DEF n
  <2>7. QED
    BY <1>1, <2>4, <2>5, <2>6
<1>8. N \in G
  <2> HIDE DEF G
  <2> QED BY <1>1, <1>6, <1>7, NumbersByInduction
<1>9. h[N] = c
  <2>1. h[N] = Right(N)
    BY <1>1, <1>8
  <2>2. N = m \/ ~(N <= m)
    BY <1>1
  <2>3. m \in 0 .. m
    BY <1>1
  <2>4. QED
    BY <1>5, <2>1, <2>2, <2>3
<1>10. QED
  BY <1>3, <1>9

Blocks == {b \in Seq(Token) : Len(b) = Capacity}
Files == [allocated : SUBSET Pages, data : [Pages -> Blocks], next : [Pages -> PageNumbers]]

LEMMA LinkedLaws ==
  ASSUME NEW links \in [Pages -> PageNumbers], NEW c \in Seq(Pages), Len(c) # 0, IsInjective(c)
  PROVE  /\ Linked(links, c) \in [Pages -> PageNumbers] /\ IsChain(Linked(links, c), c)
         /\ \A p \in Pages \ ToSet(c) : Linked(links, c)[p] = links[p]
<1> DEFINE m == Len(c)
           new == Linked(links, c)
           spot(p) == CHOOSE i \in DOMAIN c : c[i] = p
<1>1. /\ m \in Nat /\ m # 0 /\ DOMAIN c = 1 .. m /\ (\A i \in 1 .. m : c[i] \in Pages)
      /\ \A i, j \in 1 .. m : c[i] = c[j] => i = j
  BY DEF IsInjective
<1>2. Last(c) = c[m]
  BY DEF Last
<1>3. new = [p \in Pages |-> IF Follows(c, p) THEN c[1 + spot(p)] ELSE IF p = c[m] THEN -1 ELSE links[p]]
  BY <1>2 DEF Linked
<1>4. ASSUME NEW i \in 1 .. m PROVE spot(c[i]) = i
  BY <1>1
<1> HIDE DEF new, spot
<1>5. ASSUME NEW p \in Pages, Follows(c, p) PROVE \E i \in 1 .. m - 1 : p = c[i] /\ spot(p) = i
  <2>1. PICK i \in 1 .. m - 1 : c[i] = p
    BY <1>5 DEF Follows
  <2>2. i \in 1 .. m
    BY <1>1
  <2>3. QED
    BY <1>4, <2>1, <2>2
<1>6. ASSUME NEW p \in Pages PROVE new[p] \in PageNumbers
  <2>1. CASE Follows(c, p)
    <3>1. PICK i \in 1 .. m - 1 : p = c[i] /\ spot(p) = i
      BY <1>5, <2>1
    <3>2. 1 + i \in 1 .. m
      BY <1>1
    <3>3. new[p] = c[1 + i]
      BY <1>3, <2>1, <3>1
    <3>4. QED
      BY <1>1, <3>2, <3>3 DEF PageNumbers
  <2>2. CASE ~Follows(c, p)
    BY <1>3, <2>2 DEF PageNumbers
  <2>3. QED
    BY <2>1, <2>2
<1>7. new \in [Pages -> PageNumbers]
  BY <1>3, <1>6
<1>8. ASSUME NEW i \in 1 .. m - 1 PROVE new[c[i]] = c[i + 1]
  <2>1. i \in 1 .. m /\ 1 + i = i + 1
    BY <1>1
  <2>2. Follows(c, c[i])
    BY DEF Follows
  <2>3. new[c[i]] = c[1 + spot(c[i])]
    BY <1>1, <1>3, <2>1, <2>2
  <2>4. QED
    BY <1>4, <2>1, <2>3
<1>9. new[c[m]] = -1
  <2>1. m \in 1 .. m
    BY <1>1
  <2>2. ~Follows(c, c[m])
    <3>1. ASSUME NEW i \in 1 .. m - 1, c[i] = c[m] PROVE FALSE
      <4>1. i \in 1 .. m /\ i # m
        <5> HIDE DEF m
        <5> QED BY ONLY <1>1, i \in 1 .. m - 1
      <4>2. QED
        BY <1>1, <2>1, <3>1, <4>1
    <3>2. QED
      BY <3>1 DEF Follows
  <2>3. QED
    BY <1>1, <1>3, <2>1, <2>2
<1>10. IsChain(new, c)
  BY <1>8, <1>9 DEF IsChain
<1>11. ASSUME NEW p \in Pages \ ToSet(c) PROVE new[p] = links[p]
  <2>1. \A i \in 1 .. m : c[i] # p
    BY <1>1 DEF ToSet
  <2>2. ~Follows(c, p)
    <3>1. \A i \in 1 .. m - 1 : i \in 1 .. m
      BY <1>1
    <3>2. QED
      BY <2>1, <3>1 DEF Follows
  <2>3. p # c[m]
    <3>1. m \in 1 .. m
      BY <1>1
    <3>2. QED
      BY <2>1, <3>1
  <2>4. QED
    BY <1>3, <2>2, <2>3
<1>12. QED
  BY <1>7, <1>10, <1>11 DEF new

\* A chain that is made as long as it has to be.
Fitted(f, old, need, new) ==
  /\ new \in Seq(Pages) /\ Len(new) = need /\ IsInjective(new) /\ new[1] = old[1]
  /\ ToSet(new) \subseteq ToSet(old) \cup Free(f)
  /\ need <= Len(old) => ToSet(new) \subseteq ToSet(old)

LEMMA ResizedLaws ==
  ASSUME NEW f \in Files, NEW old, IsChain(f.next, old), ToSet(old) \subseteq f.allocated,
         NEW need \in Nat, need # 0, need - Len(old) <= Cardinality(Free(f))
  PROVE  LET r == Resized(f, old, need)
         IN  /\ Fitted(f, old, need, r.chain)
             /\ r.file = [allocated |-> (f.allocated \ ToSet(old)) \cup ToSet(r.chain),
                          data |-> f.data, next |-> Linked(f.next, r.chain)]
<1> DEFINE m == Len(old)
           r == Resized(f, old, need)
           n == need - m
           added == Lowest(n, Free(f))
           new == IF need < m THEN SubSeq(old, 1, need) ELSE old \o added
<1>1. /\ old \in Seq(Pages) /\ m \in Nat /\ m # 0 /\ DOMAIN old = 1 .. m /\ (\A i \in 1 .. m : old[i] \in Pages)
      /\ (\A i, j \in 1 .. m : old[i] = old[j] => i = j) /\ \A i \in 1 .. m : old[i] \in ToSet(old)
  BY DEF IsChain, IsInjective, ToSet
<1>2. r.chain = new
  BY DEF Resized
<1>3. r.file = [allocated |-> (f.allocated \ ToSet(old)) \cup ToSet(r.chain), data |-> f.data, next |-> Linked(f.next, r.chain)]
  BY DEF Resized
<1>4. CASE need < m
  <2>1. need \in 0 .. m /\ need \in 1 .. m
    BY <1>1, <1>4
  <2>2. /\ new \in Seq(Pages) /\ Len(new) = need /\ \A i \in 1 .. need : new[i] = old[i]
    BY <1>1, <1>4, <2>1, PrefixLaws
  <2> HIDE DEF new
  <2>3. DOMAIN new = 1 .. need /\ 1 \in 1 .. need /\ \A i \in 1 .. need : i \in 1 .. m
    BY <1>1, <2>1, <2>2
  <2>4. IsInjective(new)
    BY <1>1, <2>2, <2>3 DEF IsInjective
  <2>5. ToSet(new) \subseteq ToSet(old)
    BY <1>1, <2>2, <2>3 DEF ToSet
  <2>6. new[1] = old[1]
    BY <2>2, <2>3
  <2>7. QED
    BY <1>2, <1>3, <1>4, <2>2, <2>4, <2>5, <2>6 DEF Fitted
<1>5. CASE ~(need < m)
  <2>1. n \in Nat /\ n <= Cardinality(Free(f)) /\ Free(f) \in SUBSET Pages
    BY <1>1, <1>5 DEF Free
  <2> HIDE DEF n
  <2>2. /\ IsInjective(added) /\ added \in Seq(Pages) /\ Len(added) = n /\ DOMAIN added = 1 .. n
        /\ ToSet(added) \subseteq Free(f)
    BY <2>1, LowestLaws
  <2>3. \A j \in 1 .. n : added[j] \in Free(f) /\ added[j] \notin ToSet(old)
    <3>1. \A j \in 1 .. n : added[j] \in ToSet(added)
      BY <2>2 DEF ToSet
    <3>2. QED
      BY <2>2, <3>1 DEF Free
  <2> HIDE DEF added
  <2> DEFINE c == old \o added
  <2>4. /\ c \in Seq(Pages) /\ Len(c) = m + n /\ DOMAIN c = 1 .. m + n
        /\ (\A i \in 1 .. m : c[i] = old[i]) /\ \A i \in 1 .. n : c[i + m] = added[i]
    <3>1. old \in Seq(Pages) /\ added \in Seq(Pages)
      BY ONLY <1>1, <2>2
    <3>2. /\ c \in Seq(Pages) /\ Len(c) = m + Len(added) /\ DOMAIN c = 1 .. m + Len(added)
          /\ (\A i \in 1 .. m : c[i] = old[i]) /\ \A i \in 1 .. Len(added) : c[i + m] = added[i]
      BY ONLY <3>1, ConcatenationLaws
    <3> HIDE DEF c
    <3>3. QED
      BY ONLY <2>2, <3>2
  <2> HIDE DEF c
  <2>5. ASSUME NEW i \in 1 .. m + n
        PROVE  \/ i \in 1 .. m /\ c[i] = old[i]
               \/ \E j \in 1 .. n : i = j + m /\ c[i] = added[j]
    <3>1. CASE i <= m
      <4>1. i \in 1 .. m
        BY <1>1, <2>1, <3>1
      <4>2. QED
        BY <2>4, <4>1
    <3>2. CASE ~(i <= m)
      <4>1. i - m \in 1 .. n /\ i = (i - m) + m
        BY <1>1, <2>1, <3>2
      <4>2. c[(i - m) + m] = added[i - m]
        BY ONLY <2>4, <4>1
      <4>3. QED
        BY <4>1, <4>2
    <3>3. QED
      BY <3>1, <3>2
  <2>6. IsInjective(c)
    <3>1. \A i, j \in 1 .. n : added[i] = added[j] => i = j
      BY <2>2 DEF IsInjective
    <3>2. ASSUME NEW i \in 1 .. m + n, NEW j \in 1 .. m + n, c[i] = c[j] PROVE i = j
      BY ONLY <1>1, <2>3, <2>5, <3>1, <3>2, i \in 1 .. m + n, j \in 1 .. m + n, SMTT(60)
    <3>3. QED
      BY <2>4, <3>2 DEF IsInjective
  <2>7. ToSet(c) \subseteq ToSet(old) \cup Free(f)
    BY <1>1, <2>3, <2>4, <2>5 DEF ToSet
  <2>8. c[1] = old[1] /\ m + n = need
    BY <1>1, <2>4 DEF n
  <2>9. need <= m => ToSet(c) \subseteq ToSet(old)
    <3>1. SUFFICES ASSUME need <= m PROVE \A i \in 1 .. m + n : c[i] \in ToSet(old)
      BY <2>4 DEF ToSet
    <3>2. n = 0
      <4> HIDE DEF m
      <4>1. m \in Nat /\ n \in Nat /\ m + n = need /\ need <= m
        BY <1>1, <2>1, <2>8, <3>1
      <4>2. QED
        BY ONLY <4>1
    <3>3. QED
      BY <1>1, <2>4, <3>2
  <2>10. c = new
    BY <1>5 DEF c
  <2> HIDE DEF new
  <2>11. QED
    BY <1>2, <1>3, <2>4, <2>6, <2>7, <2>8, <2>9, <2>10 DEF Fitted
<1>6. QED
  BY <1>4, <1>5

-----------------------------------------------------------------------------
(* What is on the pages of a chain.                                        *)

\* The tokens on the pages of a chain before its i-th.
Before(i) == (i - 1) * Capacity

LEMMA BlockPlaces ==
  /\ Before(1) = 0
  /\ \A i \in Nat \ {0} : Before(i) \in Nat /\ Before(i + 1) = Before(i) + Capacity
                          /\ i * Capacity = Before(i) + Capacity
  /\ \A i, k \in Nat \ {0} : i < k => Before(i) + Capacity <= Before(k)
  /\ \A x \in Nat \ {0} : \E i \in Nat \ {0} : \E j \in 1 .. Capacity : x = Before(i) + j
<1>1. Capacity \in Nat /\ Capacity # 0
  BY SchemaStreamAssumption
<1>2. Before(1) = 0
  BY <1>1 DEF Before
<1>3. ASSUME NEW i \in Nat \ {0}
      PROVE  Before(i) \in Nat /\ Before(i + 1) = Before(i) + Capacity /\ i * Capacity = Before(i) + Capacity
  BY <1>1 DEF Before
<1>4. ASSUME NEW i \in Nat \ {0}, NEW k \in Nat \ {0}, i < k
      PROVE  Before(i) + Capacity <= Before(k)
  <2>1. (k - 1) * Capacity = i * Capacity + ((k - 1) - i) * Capacity
    BY <1>1
  <2>2. ((k - 1) - i) \in Nat
    BY <1>4
  <2>3. ((k - 1) - i) * Capacity \in Nat /\ i * Capacity \in Nat
    BY <1>1, <2>2
  <2>4. i * Capacity <= (k - 1) * Capacity
    BY <2>1, <2>3
  <2>5. QED
    BY <1>3, <2>4 DEF Before
<1>5. ASSUME NEW x \in Nat \ {0}
      PROVE  \E i \in Nat \ {0} : \E j \in 1 .. Capacity : x = Before(i) + j
  <2>1. x - 1 \in Nat
    OBVIOUS
  <2>2. PICK r \in Nat : \E j \in 1 .. Capacity : (x - 1) + 1 = Capacity * r + j
    BY ONLY <1>1, <2>1, NumbersInBlocks
  <2>3. r + 1 \in Nat \ {0} /\ Before(r + 1) = Capacity * r
    BY <1>1 DEF Before
  <2>4. QED
    BY <2>2, <2>3
<1>6. QED
  BY <1>2, <1>3, <1>4, <1>5

\* How many pages a file needs: the last one is begun and the file ends on it.
LEMMA PagesForLaws ==
  ASSUME NEW tokens \in Seq(Token), Len(tokens) # 0
  PROVE  /\ PagesFor(tokens) \in Nat \ {0}
         /\ Before(PagesFor(tokens)) < Len(tokens)
         /\ Len(tokens) <= Before(PagesFor(tokens)) + Capacity
<1> DEFINE n == Len(tokens)
           q == ((n + Capacity) - 1) \div Capacity
<1>1. n \in Nat /\ n # 0 /\ Capacity \in Nat /\ Capacity # 0
  BY SchemaStreamAssumption
<1> HIDE DEF n
<1>2. q \in Int /\ Capacity * q <= (n + Capacity) - 1 /\ (n + Capacity) - 1 < Capacity * q + Capacity
  BY <1>1
<1>3. PagesFor(tokens) = q
  BY <1>1 DEF PagesFor, n
<1> HIDE DEF q
<1>4. q # 0 /\ q > 0
  BY <1>1, <1>2
<1>5. Before(q) = Capacity * q - Capacity
  BY <1>1, <1>2 DEF Before
<1>6. Capacity * q \in Int
  BY <1>1, <1>2
<1>7. Before(q) < n /\ n <= Before(q) + Capacity
  BY <1>1, <1>2, <1>5, <1>6
<1>8. QED
  BY <1>2, <1>3, <1>4, <1>7 DEF n

LEMMA PartLaws ==
  ASSUME NEW tokens \in Seq(Token), NEW i \in Nat \ {0}, Before(i) < Len(tokens)
  PROVE  /\ Part(tokens, i) \in Seq(Token) /\ Len(Part(tokens, i)) \in 1 .. Capacity
         /\ \A j \in 1 .. Capacity :
              Before(i) + j <= Len(tokens) => j <= Len(Part(tokens, i)) /\ Part(tokens, i)[j] = tokens[Before(i) + j]
<1> DEFINE n == Len(tokens)
           b == Before(i)
           last == IF b + Capacity < n THEN b + Capacity ELSE n
<1>1. n \in Nat /\ b \in Nat /\ Capacity \in Nat /\ Capacity # 0 /\ i * Capacity = b + Capacity /\ b < n
  BY BlockPlaces, SchemaStreamAssumption
<1>2. Part(tokens, i) = SubSeq(tokens, b + 1, last)
  BY <1>1 DEF Part, Before
<1> HIDE DEF n, b
<1>3. last \in Nat /\ last <= n /\ b + 1 \in Nat \ {0} /\ b + 1 <= last + 1 /\ (last - (b + 1)) + 1 \in 1 .. Capacity
      /\ \A j \in 1 .. Capacity : b + j <= n => j \in 1 .. (last - (b + 1)) + 1
  BY <1>1
<1> HIDE DEF last
<1> DEFINE m == b + 1
           w == SubSeq(tokens, m, last)
<1>4. m \in Nat \ {0} /\ last \in Nat /\ last <= Len(tokens) /\ m <= last + 1
  BY <1>3 DEF n
<1>5. /\ w \in Seq(Token) /\ Len(w) = (last - m) + 1
      /\ \A k \in 1 .. (last - m) + 1 : w[k] = tokens[(m - 1) + k]
  <2> HIDE DEF m
  <2>1. QED
    BY <1>4, SubSeqLaws
<1> HIDE DEF w
<1>6. m - 1 = b
  BY <1>1
<1>7. QED
  BY <1>2, <1>3, <1>5, <1>6 DEF w, n, b

\* The tokens that are copied lie over those that were there.
LEMMA OverLaws ==
  ASSUME NEW old \in Blocks, NEW new \in Seq(Token), Len(new) \in 1 .. Capacity
  PROVE  Over(old, new) \in Blocks /\ \A j \in 1 .. Len(new) : Over(old, new)[j] = new[j]
<1> DEFINE m == Len(new) + 1
           w == SubSeq(old, m, Capacity)
<1>1. old \in Seq(Token) /\ Len(old) = Capacity /\ Capacity \in Nat /\ Capacity # 0
  BY SchemaStreamAssumption DEF Blocks
<1>2. m \in Nat \ {0} /\ m <= Capacity + 1 /\ Capacity <= Len(old) /\ (Capacity - m) + 1 = Capacity - Len(new)
  BY <1>1
<1>3. w \in Seq(Token) /\ Len(w) = (Capacity - m) + 1
  <2> HIDE DEF m
  <2>1. QED
    BY <1>1, <1>2, SubSeqLaws
<1>4. Over(old, new) = new \o w
  BY DEF Over
<1> HIDE DEF w
<1>5. new \o w \in Seq(Token) /\ Len(new \o w) = Len(new) + Len(w) /\ \A j \in 1 .. Len(new) : (new \o w)[j] = new[j]
  BY ONLY new \in Seq(Token), <1>3, ConcatenationLaws
<1>6. Len(new) + Len(w) = Capacity
  BY <1>1, <1>2, <1>3
<1>7. QED
  BY <1>4, <1>5, <1>6 DEF Blocks

\* A file lies on the pages of a chain, one behind the other.
Carries(data, c, tokens) ==
  \A i \in 1 .. Len(c) : \A j \in 1 .. Capacity :
    Before(i) + j <= Len(tokens) => data[c[i]][j] = tokens[Before(i) + j]

LEMMA FilledLaws ==
  ASSUME NEW data \in [Pages -> Blocks], NEW c \in Seq(Pages), IsInjective(c),
         NEW tokens \in Seq(Token), Len(tokens) # 0, Len(c) = PagesFor(tokens)
  PROVE  /\ Filled(data, c, tokens) \in [Pages -> Blocks] /\ Carries(Filled(data, c, tokens), c, tokens)
         /\ \A p \in Pages \ ToSet(c) : Filled(data, c, tokens)[p] = data[p]
<1> DEFINE new == Filled(data, c, tokens)
           l == Len(c)
<1>1. /\ l \in Nat \ {0} /\ DOMAIN c = 1 .. l /\ (\A i \in 1 .. l : c[i] \in Pages)
      /\ (\A i, j \in 1 .. l : c[i] = c[j] => i = j) /\ \A p \in Pages \ ToSet(c) : \A i \in 1 .. l : c[i] # p
  <2>1. l \in Nat \ {0}
    BY PagesForLaws
  <2>2. DOMAIN c = 1 .. l /\ \A i \in 1 .. l : c[i] \in Pages
    OBVIOUS
  <2>3. \A i, j \in 1 .. l : c[i] = c[j] => i = j
    BY <2>2 DEF IsInjective
  <2>4. \A p \in Pages \ ToSet(c) : \A i \in 1 .. l : c[i] # p
    BY <2>2 DEF ToSet
  <2>5. QED
    BY ONLY <2>1, <2>2, <2>3, <2>4
<1>2. l = PagesFor(tokens)
  OBVIOUS
<1> HIDE DEF l
<1>3. ASSUME NEW i \in 1 .. l
      PROVE  Part(tokens, i) \in Seq(Token) /\ Len(Part(tokens, i)) \in 1 .. Capacity /\ i \in Nat \ {0} /\ Before(i) < Len(tokens)
  <2>1. i \in Nat \ {0} /\ i <= l
    BY <1>1
  <2>2. Before(l) < Len(tokens) /\ Before(i) \in Nat /\ Before(l) \in Nat /\ Len(tokens) \in Nat
    <3>1. Before(i) \in Nat /\ Before(l) \in Nat
      BY <1>1, <2>1, BlockPlaces
    <3>2. Before(l) < Len(tokens)
      BY <1>2, PagesForLaws
    <3>3. QED
      BY <3>1, <3>2
  <2>3. i = l \/ Before(i) + Capacity <= Before(l)
    BY <1>1, <2>1, BlockPlaces
  <2>4. Before(i) < Len(tokens)
    BY <2>2, <2>3, SchemaStreamAssumption
  <2>5. QED
    BY <2>1, <2>4, PartLaws
<1>4. \A i \in 1 .. l : new[c[i]] = Over(data[c[i]], Part(tokens, i))
  <2>1. SUFFICES ASSUME NEW i \in 1 .. l PROVE new[c[i]] = Over(data[c[i]], Part(tokens, i))
    OBVIOUS
  <2>2. (CHOOSE k \in DOMAIN c : c[k] = c[i]) = i
    BY <1>1
  <2>3. QED
    BY <1>1, <2>2 DEF Filled
<1>5. \A p \in Pages \ ToSet(c) : new[p] = data[p]
  BY <1>1 DEF Filled
<1>6. ASSUME NEW i \in 1 .. l
      PROVE  /\ new[c[i]] \in Blocks
             /\ \A j \in 1 .. Capacity : Before(i) + j <= Len(tokens) => new[c[i]][j] = tokens[Before(i) + j]
  <2>1. data[c[i]] \in Blocks
    BY <1>1
  <2>2. Over(data[c[i]], Part(tokens, i)) \in Blocks
        /\ \A j \in 1 .. Len(Part(tokens, i)) : Over(data[c[i]], Part(tokens, i))[j] = Part(tokens, i)[j]
    <3>1. Part(tokens, i) \in Seq(Token) /\ Len(Part(tokens, i)) \in 1 .. Capacity
      BY <1>3
    <3>2. QED
      BY ONLY <2>1, <3>1, OverLaws
  <2>3. \A j \in 1 .. Capacity :
          Before(i) + j <= Len(tokens) => j <= Len(Part(tokens, i)) /\ Part(tokens, i)[j] = tokens[Before(i) + j]
    BY <1>3, PartLaws
  <2>4. QED
    BY <1>3, <1>4, <2>2, <2>3
<1>7. new \in [Pages -> Blocks]
  <2>1. ASSUME NEW p \in Pages PROVE new[p] \in Blocks
    <3>1. CASE p \in ToSet(c)
      <4>1. PICK i \in 1 .. l : c[i] = p
        BY <1>1, <3>1 DEF ToSet
      <4>2. QED
        BY <1>6, <4>1
    <3>2. CASE p \notin ToSet(c)
      BY <1>5, <3>2
    <3>3. QED
      BY <3>1, <3>2
  <2>2. new = [p \in Pages |-> new[p]]
    BY DEF Filled
  <2> HIDE DEF new
  <2>3. QED
    BY <2>1, <2>2
<1>8. Carries(new, c, tokens)
  BY <1>6 DEF Carries, l
<1>9. QED
  BY <1>5, <1>7, <1>8

-----------------------------------------------------------------------------
(* What an operation on the file does to the pages.                        *)

\* From f to g the pages P were given up or changed, and Q taken for them: every
\* other page in use is as it was.
Step(f, P, g, Q) ==
  /\ f \in Files /\ g \in Files
  /\ P \subseteq f.allocated /\ Q \subseteq P \cup Free(f)
  /\ g.allocated = (f.allocated \ P) \cup Q
  /\ \A p \in f.allocated \ P : g.next[p] = f.next[p] /\ g.data[p] = f.data[p]

\* The chain c of g is what the file of tokens was written to.
Stored(g, c, tokens) ==
  /\ IsChain(g.next, c) /\ Len(c) = PagesFor(tokens) /\ Carries(g.data, c, tokens)

LEMMA WrittenLaws ==
  ASSUME NEW f \in Files, NEW old, IsChain(f.next, old), ToSet(old) \subseteq f.allocated,
         NEW tokens \in Seq(Token), Len(tokens) # 0,
         PagesFor(tokens) - Len(old) <= Cardinality(Free(f))
  PROVE  \E new \in Seq(Pages) : /\ new[1] = old[1]
                                 /\ PagesFor(tokens) <= Len(old) => ToSet(new) \subseteq ToSet(old)
                                 /\ Step(f, ToSet(old), Written(f, old[1], tokens), ToSet(new))
                                 /\ Stored(Written(f, old[1], tokens), new, tokens)
<1> DEFINE need == PagesFor(tokens)
           r == Resized(f, old, need)
           new == r.chain
           g == Written(f, old[1], tokens)
<1>1. f.next \in [Pages -> PageNumbers] /\ f.data \in [Pages -> Blocks] /\ f.allocated \subseteq Pages
  BY DEF Files
<1>2. ChainFrom(f.next, old[1]) = old
  BY <1>1, ChainsAreFollowed
<1>3. need \in Nat /\ need # 0
  BY PagesForLaws
<1>4. Fitted(f, old, need, new)
      /\ r.file = [allocated |-> (f.allocated \ ToSet(old)) \cup ToSet(new), data |-> f.data, next |-> Linked(f.next, new)]
  BY <1>3, ResizedLaws
<1>5. g = [allocated |-> r.file.allocated, data |-> Filled(r.file.data, new, tokens), next |-> r.file.next]
  BY <1>2 DEF Written
<1> HIDE DEF g, r
<1>6. g = [allocated |-> (f.allocated \ ToSet(old)) \cup ToSet(new), data |-> Filled(f.data, new, tokens),
           next |-> Linked(f.next, new)]
  BY <1>4, <1>5
<1> HIDE DEF new
<1>7. /\ new \in Seq(Pages) /\ Len(new) = need /\ IsInjective(new) /\ new[1] = old[1]
      /\ ToSet(new) \subseteq ToSet(old) \cup Free(f)
      /\ need <= Len(old) => ToSet(new) \subseteq ToSet(old)
  BY <1>4 DEF Fitted
<1>8. /\ Linked(f.next, new) \in [Pages -> PageNumbers] /\ IsChain(Linked(f.next, new), new)
      /\ \A p \in Pages \ ToSet(new) : Linked(f.next, new)[p] = f.next[p]
  BY ONLY <1>1, <1>3, <1>7, LinkedLaws
<1>9. /\ Filled(f.data, new, tokens) \in [Pages -> Blocks] /\ Carries(Filled(f.data, new, tokens), new, tokens)
      /\ \A p \in Pages \ ToSet(new) : Filled(f.data, new, tokens)[p] = f.data[p]
  <2>1. new \in Seq(Pages) /\ IsInjective(new) /\ Len(new) = PagesFor(tokens)
    BY <1>7
  <2>2. tokens \in Seq(Token) /\ Len(tokens) # 0 /\ f.data \in [Pages -> Blocks]
    BY <1>1
  <2>3. QED
    BY ONLY <2>1, <2>2, FilledLaws
<1>10. ToSet(new) \subseteq Pages
  BY <1>7 DEF ToSet
<1>11. /\ g.allocated = (f.allocated \ ToSet(old)) \cup ToSet(new) /\ g.data = Filled(f.data, new, tokens)
       /\ g.next = Linked(f.next, new)
  BY ONLY <1>6
<1>12. g \in Files
  BY ONLY <1>1, <1>6, <1>8, <1>9, <1>10 DEF Files
<1>13. Step(f, ToSet(old), g, ToSet(new))
  <2>1. \A p \in f.allocated \ ToSet(old) : p \in Pages \ ToSet(new)
    BY <1>1, <1>7 DEF Free
  <2>2. \A p \in f.allocated \ ToSet(old) : g.next[p] = f.next[p] /\ g.data[p] = f.data[p]
    BY <1>8, <1>9, <1>11, <2>1
  <2>3. QED
    BY <1>7, <1>11, <1>12, <2>2 DEF Step
<1>14. Stored(g, new, tokens)
  BY <1>7, <1>8, <1>9, <1>11 DEF Stored
<1>15. QED
  BY <1>7, <1>13, <1>14 DEF g

LEMMA TakenLaws ==
  ASSUME NEW f \in Files, NEW n \in Nat, n <= Cardinality(Free(f))
  PROVE  /\ Step(f, {}, Taken(f, n), ToSet(Lowest(n, Free(f))))
         /\ \A p \in ToSet(Lowest(n, Free(f))) : Taken(f, n).next[p] = -1
<1> DEFINE new == ToSet(Lowest(n, Free(f)))
           g == Taken(f, n)
           next == [p \in Pages |-> IF p \in new THEN -1 ELSE f.next[p]]
<1>1. f.next \in [Pages -> PageNumbers] /\ f.data \in [Pages -> Blocks] /\ f.allocated \subseteq Pages
  BY DEF Files
<1>2. new \subseteq Free(f) /\ Free(f) \in SUBSET Pages
  BY LowestLaws DEF Free
<1>3. g = [allocated |-> f.allocated \cup new, data |-> f.data, next |-> next]
  BY DEF Taken
<1> HIDE DEF new, g
<1>4. next \in [Pages -> PageNumbers]
  BY <1>1 DEF PageNumbers
<1>5. (\A p \in new : next[p] = -1) /\ \A p \in Pages \ new : next[p] = f.next[p]
  BY <1>2
<1> HIDE DEF next
<1>6. g.allocated = f.allocated \cup new /\ g.data = f.data /\ g.next = next
  BY ONLY <1>3
<1>7. g \in Files
  BY ONLY <1>1, <1>2, <1>3, <1>4 DEF Files
<1>8. \A p \in f.allocated : p \in Pages \ new
  BY <1>1, <1>2 DEF Free
<1>9. Step(f, {}, g, new)
  BY <1>2, <1>5, <1>6, <1>7, <1>8 DEF Step
<1>10. QED
  BY <1>5, <1>6, <1>9 DEF new, g

LEMMA ReleasedLaws ==
  ASSUME NEW f \in Files, NEW P \in SUBSET f.allocated
  PROVE  Step(f, P, Released(f, P), {})
<1>1. f.next \in [Pages -> PageNumbers] /\ f.data \in [Pages -> Blocks] /\ f.allocated \subseteq Pages
  BY DEF Files
<1>2. Released(f, P) = [allocated |-> f.allocated \ P, data |-> f.data, next |-> f.next]
  BY DEF Released
<1>3. Released(f, P) \in Files
  BY <1>1, <1>2 DEF Files
<1>4. QED
  BY <1>2, <1>3 DEF Step

-----------------------------------------------------------------------------
(* What is written is read.                                                *)

\* Pages one behind the other.
LEMMA BlocksJoined ==
  ASSUME NEW seqs \in Seq(Blocks)
  PROVE  /\ Concat(seqs) \in Seq(Token) /\ Len(Concat(seqs)) = Before(Len(seqs) + 1)
         /\ \A i \in 1 .. Len(seqs) : \A j \in 1 .. Capacity : Concat(seqs)[Before(i) + j] = seqs[i][j]
<1> DEFINE Joined(w) == /\ Concat(w) \in Seq(Token) /\ Len(Concat(w)) = Before(Len(w) + 1)
                        /\ \A i \in 1 .. Len(w) : \A j \in 1 .. Capacity : Concat(w)[Before(i) + j] = w[i][j]
           G == {w \in Seq(Blocks) : Joined(w)}
<1>1. Capacity \in Nat /\ Capacity # 0 /\ Blocks \subseteq Seq(Token)
  BY SchemaStreamAssumption DEF Blocks
<1>2. <<>> \in G
  <2>1. Concat(<<>>) = <<>>
    BY ConcatOfNone
  <2>2. Len(<<>>) = 0 /\ <<>> \in Seq(Blocks) /\ <<>> \in Seq(Token) /\ 0 + 1 = 1
    OBVIOUS
  <2>3. Len(<<>>) = Before(Len(<<>>) + 1)
    BY <2>2, BlockPlaces
  <2>4. \A i \in 1 .. Len(<<>>) : FALSE
    BY <2>2
  <2>5. Joined(<<>>)
    BY ONLY <2>1, <2>2, <2>3, <2>4
  <2>6. QED
    BY <2>2, <2>5
<1>3. ASSUME NEW w \in Seq(Blocks), w \in G, NEW b \in Blocks
      PROVE  Append(w, b) \in G
  <2> DEFINE n == Len(w)
             v == Append(w, b)
             all == Concat(w)
  <2>1. Joined(w)
    BY <1>3
  <2> HIDE DEF G, Joined
  <2>2. all \in Seq(Token) /\ Len(all) = Before(n + 1)
        /\ \A i \in 1 .. n : \A j \in 1 .. Capacity : all[Before(i) + j] = w[i][j]
    BY <2>1 DEF Joined
  <2>3. v \in Seq(Blocks) /\ Len(v) = n + 1 /\ (\A i \in 1 .. n : v[i] = w[i]) /\ v[n + 1] = b /\ n \in Nat
    BY AppendLaws
  <2>4. b \in Seq(Token) /\ Len(b) = Capacity
    BY DEF Blocks
  <2>5. Concat(v) = all \o b
    <3>1. w \in Seq(Seq(Token))
      BY <1>1
    <3>2. QED
      BY ONLY <2>4, <3>1, ConcatAppended
  <2> HIDE DEF v, all
  <2>6. /\ all \o b \in Seq(Token) /\ Len(all \o b) = Before(n + 1) + Capacity
        /\ (\A k \in 1 .. Before(n + 1) : (all \o b)[k] = all[k])
        /\ \A k \in 1 .. Capacity : (all \o b)[k + Before(n + 1)] = b[k]
    <3>1. all \in Seq(Token) /\ b \in Seq(Token)
      BY ONLY <2>2, <2>4
    <3>2. /\ all \o b \in Seq(Token) /\ Len(all \o b) = Len(all) + Len(b)
          /\ (\A k \in 1 .. Len(all) : (all \o b)[k] = all[k])
          /\ \A k \in 1 .. Len(b) : (all \o b)[k + Len(all)] = b[k]
      BY ONLY <3>1, ConcatenationLaws
    <3>3. QED
      BY ONLY <2>2, <2>4, <3>2
  <2>7. Before((n + 1) + 1) = Before(n + 1) + Capacity /\ Before(n + 1) \in Nat
    <3>1. n + 1 \in Nat \ {0}
      BY <2>3
    <3>2. QED
      BY <3>1, BlockPlaces
  <2>8. ASSUME NEW i \in 1 .. n + 1, NEW j \in 1 .. Capacity
        PROVE  (all \o b)[Before(i) + j] = v[i][j]
    <3>1. CASE i = n + 1
      <4>1. (all \o b)[j + Before(n + 1)] = b[j]
        BY <2>6
      <4>2. Before(i) + j = j + Before(n + 1)
        BY <1>1, <2>7, <3>1
      <4>3. QED
        BY <2>3, <3>1, <4>1, <4>2
    <3>2. CASE i # n + 1
      <4>1. i \in 1 .. n /\ i \in Nat \ {0} /\ n + 1 \in Nat \ {0} /\ i < n + 1
        BY <2>3, <3>2
      <4>2. Before(i) + Capacity <= Before(n + 1) /\ Before(i) \in Nat
        BY <4>1, BlockPlaces
      <4>3. Before(i) + j \in 1 .. Before(n + 1)
        BY <1>1, <2>7, <4>2
      <4>4. QED
        BY <2>2, <2>3, <2>6, <4>1, <4>3
    <3>3. QED
      BY <3>1, <3>2
  <2>9. Joined(v)
    BY ONLY <2>3, <2>5, <2>6, <2>7, <2>8 DEF Joined
  <2>10. QED
    BY <2>3, <2>9 DEF G, v
<1> HIDE DEF G
<1>4. \A w \in Seq(Blocks) : w \in G
  BY <1>2, <1>3, SequencesByInduction
<1>5. QED
  BY <1>4 DEF G

\* The file of a stream, whatever is behind it.
LEMMA FileIsDecompressed ==
  ASSUME NEW s \in Seq(Token), NEW tokens \in Seq(Token), Len(FileOf(s)) <= Len(tokens),
         \A x \in 1 .. Len(FileOf(s)) : tokens[x] = FileOf(s)[x]
  PROVE  Decompressed(tokens) = Parsed(Len(s) + 2, s)
<1> DEFINE n == Len(s)
           h == <<n>>
           l == n + 1
<1>1. h \in Seq(Token) /\ Len(h) = 1 /\ h[1] = n /\ n \in Nat
  BY DEF Token
<1>2. FileOf(s) = h \o s
  BY DEF FileOf
<1> HIDE DEF h
<1>3. /\ Len(h \o s) = 1 + n
      /\ (\A i \in 1 .. 1 : (h \o s)[i] = h[i]) /\ \A i \in 1 .. n : (h \o s)[i + 1] = s[i]
  <2>1. h \in Seq(Token) /\ s \in Seq(Token)
    BY ONLY <1>1, s \in Seq(Token)
  <2>2. /\ Len(h \o s) = Len(h) + Len(s)
        /\ (\A i \in 1 .. Len(h) : (h \o s)[i] = h[i]) /\ \A i \in 1 .. Len(s) : (h \o s)[i + Len(h)] = s[i]
    BY ONLY <2>1, ConcatenationLaws
  <2>3. QED
    BY ONLY <1>1, <2>2
<1>4. l <= Len(tokens) /\ tokens[1] = n /\ \A i \in 1 .. n : tokens[i + 1] = s[i]
  <2>1. \A x \in 1 .. l : tokens[x] = (h \o s)[x]
    BY <1>1, <1>2, <1>3
  <2>2. 1 \in 1 .. l /\ 1 \in 1 .. 1 /\ \A i \in 1 .. n : i + 1 \in 1 .. l
    BY <1>1
  <2>3. QED
    BY <1>1, <1>2, <1>3, <2>1, <2>2
<1>5. SubSeq(tokens, 2, l) = s
  <2> DEFINE w == SubSeq(tokens, 2, l)
             two == 2
  <2>1. two \in Nat \ {0} /\ l \in Nat /\ l <= Len(tokens) /\ two <= l + 1 /\ (l - two) + 1 = n /\ two - 1 = 1
    BY <1>1, <1>4
  <2> HIDE DEF two, l
  <2>2. SubSeq(tokens, two, l) \in Seq(Token) /\ Len(SubSeq(tokens, two, l)) = (l - two) + 1
        /\ \A i \in 1 .. (l - two) + 1 : SubSeq(tokens, two, l)[i] = tokens[(two - 1) + i]
    BY <2>1, SubSeqLaws
  <2>3. w \in Seq(Token) /\ Len(w) = n /\ \A i \in 1 .. n : w[i] = tokens[1 + i]
    BY ONLY <2>1, <2>2 DEF two
  <2> HIDE DEF w
  <2>4. \A i \in 1 .. n : 1 + i = i + 1
    BY <1>1
  <2>5. \A i \in 1 .. Len(w) : w[i] = s[i]
    BY <1>4, <2>3, <2>4
  <2>6. w \in Seq(Token) /\ s \in Seq(Token) /\ Len(w) = Len(s)
    BY <2>3
  <2>7. w = s
    BY ONLY <2>5, <2>6, SameSequences
  <2>8. QED
    BY <2>7 DEF w
<1>6. Decompressed(tokens) = Parsed(tokens[1] + 2, SubSeq(tokens, 2, tokens[1] + 1))
  BY <1>1, <1>4 DEF Decompressed
<1>7. QED
  BY <1>4, <1>5, <1>6

\* The file on a chain of pages, read by the whole chain.
PagesRead(data, c) == Concat([i \in DOMAIN c |-> data[c[i]]])

LEMMA FileOfLaws ==
  ASSUME NEW s \in Seq(Token)
  PROVE  FileOf(s) \in Seq(Token) /\ Len(FileOf(s)) = Len(s) + 1 /\ Len(FileOf(s)) # 0
         /\ FileOf(s)[1] = Len(s)
<1> DEFINE h == <<Len(s)>>
<1>1. h \in Seq(Token) /\ Len(h) = 1 /\ h[1] = Len(s) /\ Len(s) \in Nat
  BY DEF Token
<1>2. FileOf(s) = h \o s
  BY DEF FileOf
<1> HIDE DEF h
<1>3. h \o s \in Seq(Token) /\ Len(h \o s) = Len(h) + Len(s) /\ \A i \in 1 .. Len(h) : (h \o s)[i] = h[i]
  BY ONLY <1>1, s \in Seq(Token), ConcatenationLaws
<1>4. QED
  BY <1>1, <1>2, <1>3

LEMMA FilesAreRead ==
  ASSUME NEW g \in Files, NEW c, NEW s \in Seq(Token), Stored(g, c, FileOf(s))
  PROVE  /\ Decompressed(PagesRead(g.data, c)) = Parsed(Len(s) + 2, s)
         /\ Decompressed(g.data[c[1]]).pos # 0 => Decompressed(g.data[c[1]]) = Parsed(Len(s) + 2, s)
<1> DEFINE w == FileOf(s)
           l == Len(c)
           seqs == [i \in DOMAIN c |-> g.data[c[i]]]
           all == Concat(seqs)
           first == g.data[c[1]]
<1>1. g.data \in [Pages -> Blocks] /\ Capacity \in Nat /\ Capacity # 0
  BY SchemaStreamAssumption DEF Files
<1>2. c \in Seq(Pages) /\ l \in Nat /\ l # 0 /\ DOMAIN c = 1 .. l /\ (\A i \in 1 .. l : c[i] \in Pages)
      /\ l = PagesFor(w) /\ Carries(g.data, c, w)
  BY DEF Stored, IsChain
<1>3. w \in Seq(Token) /\ Len(w) = Len(s) + 1 /\ Len(w) # 0 /\ w[1] = Len(s) /\ Len(s) \in Nat
  BY FileOfLaws
<1> HIDE DEF w
<1>4. Len(w) <= Before(l) + Capacity
  BY <1>2, <1>3, PagesForLaws
<1>5. Before(l + 1) = Before(l) + Capacity /\ Before(l) \in Nat /\ Before(1) = 0
  <2>1. l \in Nat \ {0}
    BY <1>2
  <2>2. QED
    BY <2>1, BlockPlaces
<1>6. \A i \in 1 .. l : \A j \in 1 .. Capacity : Before(i) + j <= Len(w) => g.data[c[i]][j] = w[Before(i) + j]
  BY <1>2 DEF Carries
<1> HIDE DEF l
<1>7. seqs \in [1 .. l -> Blocks] /\ \A i \in 1 .. l : seqs[i] = g.data[c[i]]
  BY <1>1, <1>2
<1>8. seqs \in Seq(Blocks) /\ Len(seqs) = l
  <2>1. l \in Nat
    BY <1>2
  <2> HIDE DEF seqs
  <2>2. QED
    BY ONLY <1>7, <2>1, FunctionsAreSequences
<1> HIDE DEF seqs
<1>9. /\ all \in Seq(Token) /\ Len(all) = Before(l + 1)
      /\ \A i \in 1 .. l : \A j \in 1 .. Capacity : all[Before(i) + j] = seqs[i][j]
  BY <1>8, BlocksJoined
<1> HIDE DEF all
<1>10. ASSUME NEW x \in 1 .. Len(w)
       PROVE  all[x] = w[x]
  <2>1. x \in Nat \ {0} /\ x <= Before(l) + Capacity
    <3>1. Len(w) \in Nat
      BY <1>3
    <3>2. QED
      BY <1>1, <1>4, <1>5, <3>1
  <2>2. PICK i \in Nat \ {0} : \E j \in 1 .. Capacity : x = Before(i) + j
    BY <2>1, BlockPlaces
  <2>3. PICK j \in 1 .. Capacity : x = Before(i) + j
    BY <2>2
  <2>4. i \in 1 .. l
    <3>1. SUFFICES ASSUME l < i PROVE FALSE
      BY <1>2, <2>2
    <3>2. l \in Nat \ {0}
      BY <1>2
    <3>3. Before(l) + Capacity <= Before(i) /\ Before(i) \in Nat
      BY <3>1, <3>2, BlockPlaces
    <3>4. QED
      BY <1>1, <1>5, <2>1, <2>3, <3>3
  <2>5. Before(i) + j <= Len(w)
    BY <2>3
  <2>6. QED
    BY <1>6, <1>7, <1>9, <2>3, <2>4, <2>5
<1>11. Decompressed(all) = Parsed(Len(s) + 2, s)
  <2>1. Len(FileOf(s)) <= Len(all) /\ \A x \in 1 .. Len(FileOf(s)) : all[x] = FileOf(s)[x]
    BY <1>4, <1>5, <1>9, <1>10 DEF w
  <2>2. all \in Seq(Token)
    BY <1>9
  <2>3. QED
    BY ONLY s \in Seq(Token), <2>1, <2>2, FileIsDecompressed
<1>12. PagesRead(g.data, c) = all
  BY DEF PagesRead, all, seqs
<1>13. first \in Seq(Token) /\ Len(first) = Capacity /\ 1 \in 1 .. l
  BY <1>1, <1>2 DEF Blocks
<1>14. \A j \in 1 .. Capacity : j <= Len(w) => first[j] = w[j]
  <2>1. SUFFICES ASSUME NEW j \in 1 .. Capacity, j <= Len(w) PROVE first[j] = w[j]
    OBVIOUS
  <2>2. Before(1) + j = j
    BY <1>5
  <2>3. QED
    BY <1>6, <1>13, <2>1, <2>2
<1>15. first[1] = Len(s)
  <2>1. 1 \in 1 .. Capacity /\ 1 <= Len(w)
    BY <1>1, <1>3
  <2>2. QED
    BY <1>3, <1>14, <2>1
<1> HIDE DEF first
<1>16. ASSUME Decompressed(first).pos # 0
       PROVE  Decompressed(first) = Parsed(Len(s) + 2, s)
  <2>1. first[1] + 1 <= Len(first)
    <3>1. SUFFICES ASSUME first[1] + 1 > Len(first) PROVE FALSE
      BY <1>3, <1>13, <1>15, <1>1
    <3>2. Decompressed(first) = Refused
      BY <3>1 DEF Decompressed
    <3>3. QED
      BY <1>16, <3>2 DEF Refused
  <2>2. Len(FileOf(s)) <= Len(first) /\ \A x \in 1 .. Len(FileOf(s)) : first[x] = FileOf(s)[x]
    BY <1>3, <1>13, <1>14, <1>15, <2>1 DEF w
  <2>3. QED
    BY ONLY s \in Seq(Token), <1>13, <2>2, FileIsDecompressed
<1>17. QED
  BY <1>11, <1>12, <1>16 DEF first

-----------------------------------------------------------------------------
(* A stream that is cut open and put together again.                       *)

\* s is h, w and t one behind the other.
Between(s, h, w, t) == s = (h \o w) \o t

LEMMA BetweenPlaces ==
  ASSUME NEW T, NEW h \in Seq(T), NEW w \in Seq(T), NEW t \in Seq(T), NEW s, Between(s, h, w, t)
  PROVE  /\ s \in Seq(T) /\ Len(s) = (Len(h) + Len(w)) + Len(t)
         /\ At(s, 1, h) /\ At(s, Len(h) + 1, w) /\ At(s, (Len(h) + Len(w)) + 1, t)
<1> DEFINE u == h \o w
           o == 1
<1>1. h \in Seq(T) /\ w \in Seq(T) /\ t \in Seq(T)
  OBVIOUS
<1>2. u \in Seq(T) /\ Len(u) = Len(h) + Len(w)
  BY ONLY <1>1, ConcatenationLaws
<1>3. s = u \o t
  BY DEF Between
<1> HIDE DEF u, o
<1>4. s \in Seq(T) /\ Len(s) = Len(u) + Len(t)
  BY ONLY <1>1, <1>2, <1>3, ConcatenationLaws
<1>5. At(s, o, u \o t)
  BY ONLY <1>3, <1>4, AtWhole DEF o
<1>6. At(s, o, u) /\ At(s, o + Len(u), t)
  BY ONLY <1>1, <1>2, <1>4, <1>5, AtParts
<1>7. At(s, o, h) /\ At(s, o + Len(h), w)
  BY ONLY <1>1, <1>4, <1>6, AtParts DEF u
<1>8. Len(h) \in Nat /\ Len(w) \in Nat
  OBVIOUS
<1>9. o + Len(u) = (Len(h) + Len(w)) + 1 /\ o + Len(h) = Len(h) + 1
  BY ONLY <1>2, <1>8 DEF o
<1>10. QED
  BY <1>2, <1>4, <1>6, <1>7, <1>9 DEF o

LEMMA AtIsCut ==
  ASSUME NEW T, NEW s \in Seq(T), NEW w \in Seq(T), NEW p, NEW e, At(s, p, w), e = (p + Len(w)) - 1
  PROVE  SubSeq(s, p, e) = w
<1> DEFINE u == SubSeq(s, p, e)
<1>1. p \in Nat \ {0} /\ p + Len(w) <= Len(s) + 1 /\ \A i \in 1 .. Len(w) : s[(p - 1) + i] = w[i]
  BY DEF At
<1>2. Len(w) \in Nat /\ Len(s) \in Nat
  OBVIOUS
<1>3. e \in Nat /\ e <= Len(s) /\ p <= e + 1 /\ (e - p) + 1 = Len(w)
  BY <1>1, <1>2
<1>4. u \in Seq(T) /\ Len(u) = (e - p) + 1 /\ \A i \in 1 .. (e - p) + 1 : u[i] = s[(p - 1) + i]
  BY ONLY s \in Seq(T), <1>1, <1>3, SubSeqLaws
<1> HIDE DEF u
<1>5. u \in Seq(T) /\ w \in Seq(T) /\ Len(u) = Len(w) /\ \A i \in 1 .. Len(u) : u[i] = w[i]
  BY <1>1, <1>3, <1>4
<1>6. u = w
  BY ONLY <1>5, SameSequences
<1>7. QED
  BY <1>6 DEF u

\* An array with a record more.
LEMMA ArrayGrows ==
  ASSUME NEW R, NEW f, Texts(f, R, Token), NEW recs \in Seq(R), NEW x \in R,
         NEW h \in Seq(Token), NEW t \in Seq(Token), NEW k, k = Len(recs) + 1
  PROVE  Between((((h \o One(k)) \o All(f, recs)) \o f[x]) \o t, h, Array(f, Append(recs, x)), t)
<1> DEFINE a == All(f, recs)
           e == f[x]
           o == One(k)
           more == Append(recs, x)
<1>1. f \in [R -> Seq(Token)]
  BY DEF Texts
<1>2. a \in Seq(Token) /\ e \in Seq(Token) /\ All(f, more) = a \o e
  BY <1>1, AllTyped, AllAppended
<1>3. Len(more) = k
  BY AppendLaws
<1>4. o \in Seq(Token)
  BY DEF One, Token
<1>5. Array(f, more) = o \o (a \o e)
  BY <1>2, <1>3 DEF Array, One
<1> HIDE DEF a, e, o, more
<1> DEFINE ho == h \o o
<1>6. h \in Seq(Token)
  OBVIOUS
<1>7. ho \in Seq(Token) /\ a \o e \in Seq(Token)
  BY ONLY <1>2, <1>4, <1>6, ConcatenationLaws
<1>8. ho \o (a \o e) = h \o (o \o (a \o e))
  <2> DEFINE ae == a \o e
  <2>1. ae \in Seq(Token)
    BY <1>7
  <2> HIDE DEF ae, ho
  <2>2. (h \o o) \o ae = h \o (o \o ae)
    BY ONLY <1>4, <1>6, <2>1, Associative, SMTT(60)
  <2>3. QED
    BY <2>2 DEF ae, ho
<1> HIDE DEF ho
<1>9. (ho \o a) \o e = ho \o (a \o e)
  BY ONLY <1>2, <1>7, Associative, SMTT(60)
<1>10. QED
  BY <1>5, <1>8, <1>9 DEF Between, ho, a, e, o, more

\* Where the n-th record of an array in s is, and where it ends.
SpanIn(s, p, f, recs, n, q, r) ==
  /\ q = (p + 1) + Len(All(f, SubSeq(recs, 1, n - 1))) /\ At(s, p + 1, All(f, SubSeq(recs, 1, n - 1)))
  /\ r = q + Len(f[recs[n]]) /\ At(s, p + 1, All(f, SubSeq(recs, 1, n)))
  /\ r = (p + 1) + Len(All(f, SubSeq(recs, 1, n)))

\* An array with a record less.
LEMMA ArrayShrinks ==
  ASSUME NEW R, NEW f, Texts(f, R, Token), NEW recs \in Seq(R), NEW n \in 1 .. Len(recs),
         NEW h \in Seq(Token), NEW t \in Seq(Token), NEW s, Between(s, h, Array(f, recs), t)
  PROVE  \E q, r : /\ SpanIn(s, Len(h) + 1, f, recs, n, q, r)
                   /\ Between(Cut(s, Len(h) + 1, <<q, r>>), h, Array(f, RemoveAt(recs, n)), t)
<1> DEFINE a == SubSeq(recs, 1, n - 1)
           b == SubSeq(recs, n + 1, Len(recs))
           x == recs[n]
           w == All(f, a)
           y == f[x]
           z == All(f, b)
           o == One(Len(recs))
           l == Len(h)
           c == l + 1
           p == c + 1
           q == p + Len(w)
           r == q + Len(y)
<1>1. /\ a \in Seq(R) /\ Len(a) = n - 1 /\ b \in Seq(R) /\ Len(b) = Len(recs) - n
      /\ x \in R /\ recs = (a \o One(x)) \o b /\ SubSeq(recs, 1, n) = a \o One(x)
  BY Split
<1>2. Parted(f, Token, a, x, b)
  BY ONLY <1>1, Texts(f, R, Token), AllParted
<1>3. RemoveAt(recs, n) = a \o b
  BY DEF RemoveAt
<1> HIDE DEF a, b, x
<1>4. Len(a \o b) = Len(recs) - 1
  <2>1. Len(a \o b) = Len(a) + Len(b)
    BY ONLY <1>1, ConcatenationLaws
  <2>2. Len(recs) \in Nat
    OBVIOUS
  <2>3. QED
    BY <1>1, <2>1, <2>2
<1>5. /\ w \in Seq(Token) /\ y \in Seq(Token) /\ z \in Seq(Token)
      /\ All(f, recs) = (w \o y) \o z /\ All(f, a \o One(x)) = w \o y /\ All(f, a \o b) = w \o z
  BY <1>1, <1>2 DEF Parted
<1>6. o \in Seq(Token) /\ Len(o) = 1 /\ o[1] = Len(recs)
  BY DEF One, Token
<1>7. Array(f, recs) = o \o ((w \o y) \o z)
  BY <1>5 DEF Array, One
<1> HIDE DEF w, y, z, o
<1> DEFINE wy == w \o y
           all == wy \o z
           arr == o \o all
<1>8. wy \in Seq(Token) /\ Len(wy) = Len(w) + Len(y)
  BY ONLY <1>5, ConcatenationLaws
<1> HIDE DEF wy
<1>9. all \in Seq(Token) /\ Len(all) = Len(wy) + Len(z)
  BY ONLY <1>5, <1>8, ConcatenationLaws
<1> HIDE DEF all
<1>10. arr \in Seq(Token) /\ Len(arr) = 1 + Len(all)
  <2>1. o \in Seq(Token) /\ all \in Seq(Token)
    BY ONLY <1>6, <1>9
  <2>2. o \o all \in Seq(Token) /\ Len(o \o all) = Len(o) + Len(all)
    BY ONLY <2>1, ConcatenationLaws
  <2>3. QED
    BY ONLY <1>6, <2>2
<1>11. Array(f, recs) = arr
  BY <1>7 DEF all, wy
<1> HIDE DEF arr
<1>12. Between(s, h, arr, t)
  BY <1>11
<1>13. h \in Seq(Token) /\ t \in Seq(Token) /\ l \in Nat /\ Len(w) \in Nat /\ Len(y) \in Nat /\ Len(z) \in Nat
       /\ Len(t) \in Nat
  BY <1>5
<1> HIDE DEF l
<1>14. s \in Seq(Token) /\ Len(s) = (l + Len(arr)) + Len(t)
       /\ At(s, 1, h) /\ At(s, c, arr) /\ At(s, (l + Len(arr)) + 1, t)
  <2>1. s \in Seq(Token) /\ Len(s) = (Len(h) + Len(arr)) + Len(t)
        /\ At(s, 1, h) /\ At(s, Len(h) + 1, arr) /\ At(s, (Len(h) + Len(arr)) + 1, t)
    <3>1. h \in Seq(Token) /\ arr \in Seq(Token) /\ t \in Seq(Token) /\ Between(s, h, arr, t)
      BY <1>10, <1>12
    <3>2. QED
      BY ONLY <3>1, BetweenPlaces
  <2>2. QED
    BY <2>1 DEF l
<1> HIDE DEF c
<1>15. At(s, c, o) /\ At(s, c + Len(o), all)
  BY ONLY <1>6, <1>9, <1>14, AtParts DEF arr
<1>16. At(s, p, all)
  BY <1>6, <1>15
<1> HIDE DEF p
<1>17. At(s, p, wy) /\ At(s, p + Len(wy), z)
  BY ONLY <1>5, <1>8, <1>14, <1>16, AtParts DEF all
<1>18. At(s, p, w) /\ At(s, q, y)
  BY ONLY <1>5, <1>14, <1>17, AtParts DEF wy
<1>19. c \in Nat \ {0} /\ p \in Nat \ {0}
  BY <1>15, <1>17 DEF At
<1>20. r = p + Len(wy) /\ r + Len(z) = (l + Len(arr)) + 1 /\ c = l + 1 /\ p = c + 1
  BY <1>8, <1>9, <1>10, <1>13, <1>19 DEF c, p
<1>21. At(s, r, z \o t)
  <2>1. At(s, r, z) /\ At(s, r + Len(z), t)
    BY <1>14, <1>17, <1>20
  <2> HIDE DEF r
  <2>2. QED
    BY ONLY <1>5, <1>13, <1>14, <2>1, AtParts
<1>22. z \o t \in Seq(Token) /\ Len(z \o t) = Len(z) + Len(t)
  BY ONLY <1>5, <1>13, ConcatenationLaws
<1>23. s[c] = Len(recs)
  <2>1. \A i \in 1 .. Len(o) : s[(c - 1) + i] = o[i]
    BY <1>15 DEF At
  <2>2. 1 \in 1 .. Len(o) /\ (c - 1) + 1 = c
    BY <1>6, <1>19
  <2>3. QED
    BY <1>6, <2>1, <2>2
<1>24. SubSeq(s, 1, c - 1) = h
  <2> DEFINE one == 1
             e == c - 1
  <2>1. At(s, one, h) /\ e = (one + Len(h)) - 1
    BY <1>13, <1>14, <1>20 DEF l
  <2> HIDE DEF one, e
  <2>2. SubSeq(s, one, e) = h
    BY ONLY <1>13, <1>14, <2>1, AtIsCut
  <2>3. QED
    BY <2>2 DEF one, e
<1>25. SubSeq(s, c + 1, q - 1) = w
  <2> DEFINE e == q - 1
  <2>1. At(s, p, w) /\ e = (p + Len(w)) - 1
    BY <1>18
  <2> HIDE DEF e
  <2>2. SubSeq(s, p, e) = w
    BY ONLY <1>5, <1>14, <2>1, AtIsCut, SMTT(60)
  <2>3. QED
    BY <1>20, <2>2 DEF e
<1>26. SubSeq(s, r, Len(s)) = z \o t
  <2> DEFINE e == Len(s)
             zt == z \o t
  <2>1. At(s, r, zt) /\ e = (r + Len(zt)) - 1 /\ zt \in Seq(Token)
    <3>1. r \in Nat
      BY <1>13, <1>19
    <3>2. Len(s) = (l + Len(arr)) + Len(t)
      BY <1>14
    <3>3. Len(arr) \in Nat
      BY <1>10
    <3> HIDE DEF r
    <3>4. (r + (Len(z) + Len(t))) - 1 = (l + Len(arr)) + Len(t)
      BY ONLY <1>13, <1>20, <3>1, <3>3, SMTT(60)
    <3>5. Len(zt) = Len(z) + Len(t) /\ zt \in Seq(Token)
      BY <1>22
    <3>6. QED
      BY <1>21, <3>2, <3>4, <3>5
  <2> HIDE DEF e, zt, r
  <2>2. SubSeq(s, r, e) = zt
    BY ONLY <1>14, <2>1, AtIsCut
  <2>3. QED
    BY <2>2 DEF e, zt
<1> DEFINE k == One(Len(recs) - 1)
<1>27. k \in Seq(Token)
  BY DEF One, Token
<1>28. k = <<s[c] - 1>>
  BY <1>23 DEF One
<1>29. Array(f, a \o b) = k \o (w \o z)
  BY <1>4, <1>5 DEF Array, One
<1>30. Cut(s, c, <<q, r>>) = ((h \o k) \o w) \o (z \o t)
  <2> HIDE DEF k, q, r
  <2>1. Cut(s, c, <<q, r>>) = ((SubSeq(s, 1, c - 1) \o <<s[c] - 1>>) \o SubSeq(s, c + 1, q - 1)) \o SubSeq(s, r, Len(s))
    BY DEF Cut
  <2>2. QED
    BY <1>24, <1>25, <1>26, <1>28, <2>1
<1> HIDE DEF k
<1>31. ((h \o k) \o w) \o (z \o t) = (h \o (k \o (w \o z))) \o t
  <2> DEFINE hk == h \o k
             hkw == hk \o w
             wz == w \o z
  <2>1. hk \in Seq(Token) /\ wz \in Seq(Token)
    BY ONLY <1>5, <1>13, <1>27, ConcatenationLaws
  <2> HIDE DEF hk, wz
  <2>2. hkw \in Seq(Token)
    BY ONLY <1>5, <2>1, ConcatenationLaws
  <2> HIDE DEF hkw
  <2>3. (hkw \o z) \o t = hkw \o (z \o t)
    <3>1. hkw \in Seq(Token) /\ z \in Seq(Token) /\ t \in Seq(Token)
      BY ONLY <1>5, <1>13, <2>2
    <3>2. QED
      BY ONLY <3>1, Associative, SMTT(60)
  <2>4. (hk \o w) \o z = hk \o (w \o z)
    <3>1. hk \in Seq(Token) /\ w \in Seq(Token) /\ z \in Seq(Token)
      BY ONLY <1>5, <2>1
    <3>2. QED
      BY ONLY <3>1, Associative, SMTT(60)
  <2>5. (h \o k) \o wz = h \o (k \o wz)
    <3>1. h \in Seq(Token) /\ k \in Seq(Token) /\ wz \in Seq(Token)
      BY ONLY <1>13, <1>27, <2>1
    <3>2. QED
      BY ONLY <3>1, Associative, SMTT(60)
  <2>6. QED
    BY <2>3, <2>4, <2>5 DEF hkw, hk, wz
<1>32. Between(Cut(s, c, <<q, r>>), h, Array(f, RemoveAt(recs, n)), t)
  <2> HIDE DEF q, r
  <2>1. QED
    BY <1>3, <1>29, <1>30, <1>31 DEF Between
<1>33. SpanIn(s, c, f, recs, n, q, r)
  <2>1. All(f, SubSeq(recs, 1, n)) = wy
    BY <1>1, <1>5 DEF wy
  <2>2. p = c + 1 /\ q = p + Len(w) /\ r = q + Len(y) /\ r = p + Len(wy)
    BY <1>20
  <2> HIDE DEF q, r
  <2>3. QED
    BY <1>17, <1>18, <2>1, <2>2 DEF SpanIn, w, y, a, x
<1>34. QED
  BY <1>32, <1>33 DEF c, l

\* The loop of the parser finds both ends of a record.
LEMMA SpansAreFound ==
  ASSUME NEW R, NEW f, Texts(f, R, Token), NEW recs \in Seq(R), NEW n \in 1 .. Len(recs),
         NEW s \in Seq(Token), NEW parse, Finds(parse, s, R, f),
         NEW p, NEW q, NEW r, SpanIn(s, p, f, recs, n, q, r)
  PROVE  Repeated(parse, p + 1, n - 1).pos = q /\ Repeated(parse, p + 1, n).pos = r
<1> DEFINE pp == p + 1
<1>1. ASSUME NEW k \in 0 .. Len(recs), At(s, pp, All(f, SubSeq(recs, 1, k)))
      PROVE  Repeated(parse, pp, k) = Parsed(pp + Len(All(f, SubSeq(recs, 1, k))), SubSeq(recs, 1, k))
  <2> DEFINE a == SubSeq(recs, 1, k)
  <2>1. a \in Seq(R) /\ Len(a) = k
    BY ONLY recs \in Seq(R), k \in 0 .. Len(recs), PrefixLaws
  <2>2. f \in [R -> Seq(Token)] /\ At(s, pp, All(f, a))
    BY <1>1 DEF Texts
  <2> HIDE DEF a, pp
  <2>3. Repeated(parse, pp, Len(a)) = Parsed(pp + Len(All(f, a)), a)
    <3>1. a \in Seq(R)
      BY <2>1
    <3>2. f \in [R -> Seq(Token)]
      BY <2>2
    <3>3. At(s, pp, All(f, a))
      BY <2>2
    <3>4. QED
      BY ONLY <3>1, <3>2, <3>3, s \in Seq(Token), Finds(parse, s, R, f), RecordsAreRead, SMTT(60)
  <2>4. QED
    BY <2>1, <2>3 DEF a
<1>2. n - 1 \in 0 .. Len(recs) /\ n \in 0 .. Len(recs)
  OBVIOUS
<1>3. /\ q = pp + Len(All(f, SubSeq(recs, 1, n - 1))) /\ At(s, pp, All(f, SubSeq(recs, 1, n - 1)))
      /\ r = pp + Len(All(f, SubSeq(recs, 1, n))) /\ At(s, pp, All(f, SubSeq(recs, 1, n)))
  BY DEF SpanIn
<1> HIDE DEF pp
<1>4. Repeated(parse, pp, n - 1).pos = q
  BY <1>1, <1>2, <1>3 DEF Parsed
<1>5. Repeated(parse, pp, n).pos = r
  BY <1>1, <1>2, <1>3 DEF Parsed
<1>6. QED
  BY <1>4, <1>5 DEF pp

BehindIndexes(d) == RuleArray(d) \o Trailer(d.root)
BehindColumns(d) == IndexArray(d) \o BehindIndexes(d)

LEMMA StreamBetween ==
  ASSUME NEW d \in Schemas
  PROVE  /\ BehindIndexes(d) \in Seq(Token) /\ BehindColumns(d) \in Seq(Token) /\ <<>> \in Seq(Token)
         /\ ColumnArray(d) \o IndexArray(d) \in Seq(Token)
         /\ Between(Stream(d), <<>>, ColumnArray(d), BehindColumns(d))
         /\ Between(Stream(d), ColumnArray(d), IndexArray(d), BehindIndexes(d))
         /\ Between(Stream(d), ColumnArray(d) \o IndexArray(d), RuleArray(d), Trailer(d.root))
<1> DEFINE a == ColumnArray(d)
           b == IndexArray(d)
           c == RuleArray(d)
           t == Trailer(d.root)
           none == <<>>
           ab == a \o b
           ct == c \o t
           bct == b \o ct
<1>1. /\ a \in Seq(Token) /\ b \in Seq(Token) /\ c \in Seq(Token) /\ t \in Seq(Token)
      /\ Stream(d) = ((a \o b) \o c) \o t
  BY StreamParts
<1>2. none \in Seq(Token) /\ none \o a = a
  BY <1>1
<1> HIDE DEF a, b, c, t, none
<1>3. ab \in Seq(Token) /\ ct \in Seq(Token)
  BY ONLY <1>1, ConcatenationLaws
<1>4. (ab \o c) \o t = ab \o (c \o t)
  <2> HIDE DEF ab, ct
  <2>1. ab \in Seq(Token) /\ c \in Seq(Token) /\ t \in Seq(Token)
    BY ONLY <1>1, <1>3
  <2>2. QED
    BY ONLY <2>1, Associative
<1> HIDE DEF ct
<1>5. bct \in Seq(Token)
  BY ONLY <1>1, <1>3, ConcatenationLaws
<1>6. (a \o b) \o ct = a \o (b \o ct)
  <2>1. a \in Seq(Token) /\ b \in Seq(Token) /\ ct \in Seq(Token)
    BY ONLY <1>1, <1>3
  <2>2. QED
    BY ONLY <2>1, Associative
<1>7. Stream(d) = (none \o a) \o bct
  BY <1>1, <1>2, <1>4, <1>6 DEF ct
<1>8. Stream(d) = (a \o b) \o ct
  BY <1>1, <1>4 DEF ct
<1>9. BehindIndexes(d) = ct /\ BehindColumns(d) = bct
  BY DEF BehindIndexes, BehindColumns, ct, c, t, b
<1> HIDE DEF bct
<1>10. QED
  BY <1>1, <1>2, <1>3, <1>5, <1>7, <1>8, <1>9 DEF Between, a, b, c, t, none

\* The trailer, and the arrays as far as the operations splice them.
LEMMA StreamCuts ==
  ASSUME NEW d \in Schemas
  PROVE  LET s == Stream(d)
             m == 1 + Len(ColumnArray(d))
             n == m + Len(IndexArray(d))
             o == n + Len(RuleArray(d))
         IN  /\ SubSeq(s, 2, m - 1) = All(ColumnText, d.columns) /\ SubSeq(s, m, Len(s)) = BehindColumns(d)
             /\ SubSeq(s, 1, m - 1) = ColumnArray(d) /\ SubSeq(s, m + 1, n - 1) = All(IndexText, d.indexes)
             /\ SubSeq(s, n, Len(s)) = BehindIndexes(d) /\ SubSeq(s, n + 1, o - 1) = All(RuleText, d.constraints)
             /\ SubSeq(s, o, Len(s)) = Trailer(d.root)
<1> DEFINE s == Stream(d)
           a == ColumnArray(d)
           b == IndexArray(d)
           c == RuleArray(d)
           t == Trailer(d.root)
           ct == BehindIndexes(d)
           bct == BehindColumns(d)
           m == 1 + Len(a)
           n == m + Len(b)
           o == n + Len(c)
           cols == All(ColumnText, d.columns)
           idxs == All(IndexText, d.indexes)
           rules == All(RuleText, d.constraints)
<1>1. /\ d.columns \in Seq(ColumnRecs) /\ d.indexes \in Seq(IndexRecs) /\ d.constraints \in Seq(RuleRecs)
      /\ a \in Seq(Token) /\ b \in Seq(Token) /\ c \in Seq(Token) /\ t \in Seq(Token) /\ s \in Seq(Token)
      /\ Len(s) = ((Len(a) + Len(b)) + Len(c)) + 2 /\ Len(t) = 2
      /\ Len(a) \in Nat /\ Len(b) \in Nat /\ Len(c) \in Nat
  BY StreamParts
<1>2. At(s, 1, a) /\ At(s, m, b) /\ At(s, n, c) /\ At(s, o, t)
  BY StreamPlaces
<1>3. ColumnText \in [ColumnRecs -> Seq(Token)] /\ IndexText \in [IndexRecs -> Seq(Token)] /\ RuleText \in [RuleRecs -> Seq(Token)]
  BY ColumnTexts, IndexTexts, RuleTexts
<1>4. cols \in Seq(Token) /\ Len(a) = 1 + Len(cols) /\ Len(cols) \in Nat
  BY <1>1, <1>3, ArrayLaws DEF ColumnArray
<1>5. idxs \in Seq(Token) /\ Len(b) = 1 + Len(idxs) /\ Len(idxs) \in Nat
  BY <1>1, <1>3, ArrayLaws DEF IndexArray
<1>6. rules \in Seq(Token) /\ Len(c) = 1 + Len(rules) /\ Len(rules) \in Nat
  BY <1>1, <1>3, ArrayLaws DEF RuleArray
<1>7. At(s, 1 + 1, cols)
  <2>1. At(s, 1, Array(ColumnText, d.columns))
    BY <1>2 DEF ColumnArray
  <2>2. QED
    BY ONLY <1>1, <2>1, ColumnArrayIsRead
<1>8. At(s, m + 1, idxs)
  <2> HIDE DEF m
  <2>1. At(s, m, Array(IndexText, d.indexes))
    BY <1>2 DEF IndexArray
  <2>2. QED
    BY ONLY <1>1, <2>1, IndexArrayIsRead
<1>9. At(s, n + 1, rules)
  <2> HIDE DEF n
  <2>1. At(s, n, Array(RuleText, d.constraints))
    BY <1>2 DEF RuleArray
  <2>2. QED
    BY ONLY <1>1, <2>1, RuleArrayIsRead
<1>10. /\ bct \in Seq(Token) /\ ct \in Seq(Token) /\ Len(s) = Len(a) + Len(bct) /\ At(s, m, bct)
       /\ Len(s) = (Len(a) + Len(b)) + Len(ct) /\ At(s, n, ct)
  <2> DEFINE none == <<>>
  <2>1. none \in Seq(Token) /\ Len(none) = 0 /\ bct \in Seq(Token) /\ ct \in Seq(Token)
        /\ Between(s, none, a, bct) /\ Between(s, a, b, ct)
    BY StreamBetween
  <2> HIDE DEF none, s, a, b, ct, bct
  <2>2. Len(s) = (Len(none) + Len(a)) + Len(bct) /\ At(s, (Len(none) + Len(a)) + 1, bct)
    <3>1. none \in Seq(Token) /\ a \in Seq(Token) /\ bct \in Seq(Token) /\ Between(s, none, a, bct)
      BY ONLY <1>1, <2>1
    <3>2. QED
      BY ONLY <3>1, BetweenPlaces
  <2>3. Len(s) = (Len(a) + Len(b)) + Len(ct) /\ At(s, (Len(a) + Len(b)) + 1, ct)
    <3>1. a \in Seq(Token) /\ b \in Seq(Token) /\ ct \in Seq(Token) /\ Between(s, a, b, ct)
      BY ONLY <1>1, <2>1
    <3>2. QED
      BY ONLY <3>1, BetweenPlaces
  <2>4. 0 + Len(a) = Len(a) /\ Len(a) + 1 = m /\ (Len(a) + Len(b)) + 1 = n
    BY <1>1
  <2>5. QED
    BY <2>1, <2>2, <2>3, <2>4
<1> HIDE DEF s, a, b, c, t, ct, bct, cols, idxs, rules
<1>11. SubSeq(s, 2, m - 1) = cols /\ SubSeq(s, 1, m - 1) = a
  <2> DEFINE e == m - 1
             one == 1
             two == 1 + 1
  <2>1. e = (two + Len(cols)) - 1 /\ e = (one + Len(a)) - 1 /\ At(s, two, cols) /\ At(s, one, a) /\ two = 2
    BY <1>1, <1>2, <1>4, <1>7
  <2> HIDE DEF e, one, two
  <2>2. SubSeq(s, two, e) = cols
    <3>1. s \in Seq(Token) /\ cols \in Seq(Token) /\ At(s, two, cols) /\ e = (two + Len(cols)) - 1
      BY ONLY <1>1, <1>4, <2>1
    <3>2. QED
      BY ONLY <3>1, AtIsCut
  <2>3. SubSeq(s, one, e) = a
    BY ONLY <1>1, <2>1, AtIsCut
  <2>4. QED
    BY <2>1, <2>2, <2>3 DEF e, one
<1>12. SubSeq(s, m + 1, n - 1) = idxs
  <2> DEFINE e == n - 1
             p == m + 1
  <2>1. e = (p + Len(idxs)) - 1 /\ At(s, p, idxs)
    BY <1>1, <1>5, <1>8
  <2> HIDE DEF e, p
  <2>2. SubSeq(s, p, e) = idxs
    BY ONLY <1>1, <1>5, <2>1, AtIsCut
  <2>3. QED
    BY <2>2 DEF e, p
<1>13. SubSeq(s, n + 1, o - 1) = rules
  <2> DEFINE e == o - 1
             p == n + 1
  <2>1. e = (p + Len(rules)) - 1 /\ At(s, p, rules)
    BY <1>1, <1>6, <1>9
  <2> HIDE DEF e, p
  <2>2. SubSeq(s, p, e) = rules
    BY ONLY <1>1, <1>6, <2>1, AtIsCut
  <2>3. QED
    BY <2>2 DEF e, p
<1>14. SubSeq(s, m, Len(s)) = bct /\ SubSeq(s, n, Len(s)) = ct /\ SubSeq(s, o, Len(s)) = t
  <2> DEFINE e == Len(s)
  <2>1. Len(bct) \in Nat /\ Len(ct) \in Nat
    BY <1>10
  <2>2. e = (m + Len(bct)) - 1 /\ e = (n + Len(ct)) - 1 /\ e = (o + Len(t)) - 1
    <3> DEFINE x == Len(a)
               y == Len(b)
               z == Len(c)
               u == Len(bct)
               v == Len(ct)
               w == Len(t)
    <3>1. x \in Nat /\ y \in Nat /\ z \in Nat /\ u \in Nat /\ v \in Nat /\ w = 2
          /\ e = ((x + y) + z) + 2 /\ e = x + u /\ e = (x + y) + v
      BY <1>1, <1>10, <2>1
    <3>2. m = 1 + x /\ n = (1 + x) + y /\ o = ((1 + x) + y) + z
      OBVIOUS
    <3> HIDE DEF x, y, z, u, v, w, e, m, n, o
    <3>3. e = (m + u) - 1 /\ e = (n + v) - 1 /\ e = (o + w) - 1
      BY ONLY <3>1, <3>2
    <3>4. QED
      BY <3>3 DEF u, v, w
  <2> HIDE DEF e, m, n, o
  <2>3. SubSeq(s, m, e) = bct
    <3>1. s \in Seq(Token) /\ bct \in Seq(Token) /\ At(s, m, bct) /\ e = (m + Len(bct)) - 1
      BY ONLY <1>1, <1>10, <2>2
    <3>2. QED
      BY ONLY <3>1, AtIsCut
  <2>4. SubSeq(s, n, e) = ct
    <3>1. s \in Seq(Token) /\ ct \in Seq(Token) /\ At(s, n, ct) /\ e = (n + Len(ct)) - 1
      BY ONLY <1>1, <1>10, <2>2
    <3>2. QED
      BY ONLY <3>1, AtIsCut
  <2>5. SubSeq(s, o, e) = t
    <3>1. s \in Seq(Token) /\ t \in Seq(Token) /\ At(s, o, t) /\ e = (o + Len(t)) - 1
      BY ONLY <1>1, <1>2, <2>2
    <3>2. QED
      BY ONLY <3>1, AtIsCut
  <2>6. QED
    BY <2>3, <2>4, <2>5 DEF e
<1>15. QED
  BY <1>11, <1>12, <1>13, <1>14 DEF s, a, b, c, t, ct, bct, cols, idxs, rules

\* Schemas with one array changed.
WithColumns(d, columns) == [columns |-> columns, indexes |-> d.indexes, constraints |-> d.constraints, root |-> d.root]
WithIndexes(d, indexes) == [columns |-> d.columns, indexes |-> indexes, constraints |-> d.constraints, root |-> d.root]
WithRules(d, rules) == [columns |-> d.columns, indexes |-> d.indexes, constraints |-> rules, root |-> d.root]

LEMMA ChangedSchemas ==
  ASSUME NEW d \in Schemas
  PROVE  /\ \A columns \in Seq(ColumnRecs) :
              /\ WithColumns(d, columns) \in Schemas /\ ColumnArray(WithColumns(d, columns)) = Array(ColumnText, columns)
              /\ BehindColumns(WithColumns(d, columns)) = BehindColumns(d)
         /\ \A indexes \in Seq(IndexRecs) :
              /\ WithIndexes(d, indexes) \in Schemas /\ ColumnArray(WithIndexes(d, indexes)) = ColumnArray(d)
              /\ IndexArray(WithIndexes(d, indexes)) = Array(IndexText, indexes)
              /\ BehindIndexes(WithIndexes(d, indexes)) = BehindIndexes(d)
         /\ \A rules \in Seq(RuleRecs) :
              /\ WithRules(d, rules) \in Schemas /\ ColumnArray(WithRules(d, rules)) = ColumnArray(d)
              /\ IndexArray(WithRules(d, rules)) = IndexArray(d)
              /\ RuleArray(WithRules(d, rules)) = Array(RuleText, rules)
              /\ WithRules(d, rules).root = d.root
<1>1. /\ d.columns \in Seq(ColumnRecs) /\ d.indexes \in Seq(IndexRecs) /\ d.constraints \in Seq(RuleRecs)
      /\ d.root \in Pages
  BY DEF Schemas
<1>2. ASSUME NEW columns \in Seq(ColumnRecs)
      PROVE  /\ WithColumns(d, columns) \in Schemas /\ ColumnArray(WithColumns(d, columns)) = Array(ColumnText, columns)
             /\ BehindColumns(WithColumns(d, columns)) = BehindColumns(d)
  <2>1. WithColumns(d, columns) \in Schemas
    BY <1>1 DEF WithColumns, Schemas
  <2>2. QED
    BY <2>1 DEF WithColumns, ColumnArray, BehindColumns, BehindIndexes, IndexArray, RuleArray
<1>3. ASSUME NEW indexes \in Seq(IndexRecs)
      PROVE  /\ WithIndexes(d, indexes) \in Schemas /\ ColumnArray(WithIndexes(d, indexes)) = ColumnArray(d)
             /\ IndexArray(WithIndexes(d, indexes)) = Array(IndexText, indexes)
             /\ BehindIndexes(WithIndexes(d, indexes)) = BehindIndexes(d)
  <2>1. WithIndexes(d, indexes) \in Schemas
    BY <1>1 DEF WithIndexes, Schemas
  <2>2. QED
    BY <2>1 DEF WithIndexes, ColumnArray, BehindIndexes, IndexArray, RuleArray
<1>4. ASSUME NEW rules \in Seq(RuleRecs)
      PROVE  /\ WithRules(d, rules) \in Schemas /\ ColumnArray(WithRules(d, rules)) = ColumnArray(d)
             /\ IndexArray(WithRules(d, rules)) = IndexArray(d)
             /\ RuleArray(WithRules(d, rules)) = Array(RuleText, rules)
             /\ WithRules(d, rules).root = d.root
  <2>1. WithRules(d, rules) \in Schemas
    BY <1>1 DEF WithRules, Schemas
  <2>2. QED
    BY <2>1 DEF WithRules, ColumnArray, IndexArray, RuleArray
<1>5. QED
  BY <1>2, <1>3, <1>4

TextsOfRecords == Texts(ColumnText, ColumnRecs, Token) /\ Texts(IndexText, IndexRecs, Token)
                  /\ Texts(RuleText, RuleRecs, Token)

LEMMA RecordsHaveTexts == TextsOfRecords
BY ColumnTexts, IndexTexts, RuleTexts DEF TextsOfRecords, Texts

\* ADD COLUMN splices the record of its column in behind the others.
ColumnSpliced(s, col) ==
  <<s[1] + 1>> \o SubSeq(s, 2, Columns(s).pos - 1) \o ColumnDef(col) \o SubSeq(s, Columns(s).pos, Len(s))

LEMMA ColumnAdded ==
  ASSUME NEW d \in Schemas, NEW col \in ColumnRecs
  PROVE  ColumnSpliced(Stream(d), col) = Stream(WithColumns(d, Append(d.columns, col)))
<1> DEFINE s == Stream(d)
           m == 1 + Len(ColumnArray(d))
           cols == d.columns
           all == All(ColumnText, cols)
           bct == BehindColumns(d)
           more == Append(cols, col)
           e == WithColumns(d, more)
           none == <<>>
           k == Len(cols) + 1
           x == ColumnText[col]
<1>1. cols \in Seq(ColumnRecs)
  BY StreamParts
<1>2. Columns(s) = Parsed(m, cols) /\ s[1] = Len(cols)
  BY StreamIsParsed
<1>3. SubSeq(s, 2, m - 1) = all /\ SubSeq(s, m, Len(s)) = bct
  BY StreamCuts
<1>4. more \in Seq(ColumnRecs)
  BY <1>1, AppendLaws
<1>5. e \in Schemas /\ ColumnArray(e) = Array(ColumnText, more) /\ BehindColumns(e) = bct
  BY <1>4, ChangedSchemas
<1>6. Between(Stream(e), none, ColumnArray(e), BehindColumns(e)) /\ none \in Seq(Token) /\ bct \in Seq(Token)
  BY <1>5, StreamBetween
<1>7. Texts(ColumnText, ColumnRecs, Token)
  BY RecordsHaveTexts DEF TextsOfRecords
<1>8. ColumnDef(col) = x
  BY DEF ColumnText
<1> HIDE DEF s, m, cols, all, bct, more, e, none, x
<1>9. Between((((none \o One(k)) \o All(ColumnText, cols)) \o ColumnText[col]) \o bct, none, Array(ColumnText, Append(cols, col)), bct)
  <2>1. k = Len(cols) + 1
    OBVIOUS
  <2> HIDE DEF k
  <2>2. QED
    BY ONLY <1>1, <1>6, <1>7, <2>1, col \in ColumnRecs, ArrayGrows
<1>10. none \o One(k) = <<s[1] + 1>>
  BY <1>2 DEF none, One
<1>11. ColumnSpliced(s, col) = ((<<s[1] + 1>> \o all) \o x) \o bct
  <2>1. Columns(s).pos = m
    BY ONLY <1>2 DEF Parsed
  <2>2. QED
    BY ONLY <1>3, <1>8, <2>1 DEF ColumnSpliced
<1>12. Between(ColumnSpliced(s, col), none, Array(ColumnText, more), bct)
  BY <1>9, <1>10, <1>11 DEF all, x, more
<1>13. ColumnSpliced(s, col) = Stream(e)
  BY <1>5, <1>6, <1>12 DEF Between
<1>14. QED
  BY <1>13 DEF s, e, more, cols

\* DROP COLUMN cuts the record of its column out.
LEMMA ColumnDropped ==
  ASSUME NEW d \in Schemas, NEW n \in 1 .. Len(d.columns)
  PROVE  Cut(Stream(d), 1, Span(ParseColumnDef, Stream(d), 1, n)) = Stream(WithColumns(d, RemoveAt(d.columns, n)))
<1> DEFINE s == Stream(d)
           cols == d.columns
           bct == BehindColumns(d)
           less == RemoveAt(cols, n)
           e == WithColumns(d, less)
           none == <<>>
           c == Len(none) + 1
           parse == [p \in Nat |-> ParseColumnDef(s, p)]
<1>1. cols \in Seq(ColumnRecs) /\ s \in Seq(Token)
  BY StreamParts
<1>2. less \in Seq(ColumnRecs)
  BY <1>1, RemoveAtLaws
<1>3. e \in Schemas /\ ColumnArray(e) = Array(ColumnText, less) /\ BehindColumns(e) = bct
  BY <1>2, ChangedSchemas
<1>4. Between(Stream(e), none, ColumnArray(e), BehindColumns(e)) /\ none \in Seq(Token) /\ bct \in Seq(Token)
  BY <1>3, StreamBetween
<1>5. Between(s, none, Array(ColumnText, cols), bct)
  BY StreamBetween DEF ColumnArray
<1>6. Texts(ColumnText, ColumnRecs, Token)
  BY RecordsHaveTexts DEF TextsOfRecords
<1>7. Finds(parse, s, ColumnRecs, ColumnText)
  BY <1>1, ColumnsAreFound
<1>8. n \in 1 .. Len(cols)
  OBVIOUS
<1>9. c = 1
  OBVIOUS
<1>10. Span(ParseColumnDef, s, 1, n) = <<Repeated(parse, 1 + 1, n - 1).pos, Repeated(parse, 1 + 1, n).pos>>
  BY DEF Span, Times
<1> HIDE DEF s, cols, bct, less, e, none, parse
<1>11. \E q, r : /\ SpanIn(s, Len(none) + 1, ColumnText, cols, n, q, r)
                 /\ Between(Cut(s, Len(none) + 1, <<q, r>>), none, Array(ColumnText, RemoveAt(cols, n)), bct)
  <2>1. none \in Seq(Token) /\ bct \in Seq(Token)
    BY <1>4
  <2>2. cols \in Seq(ColumnRecs)
    BY <1>1
  <2>3. QED
    BY ONLY <1>5, <1>6, <1>8, <2>1, <2>2, ArrayShrinks
<1>12. PICK q, r : /\ SpanIn(s, c, ColumnText, cols, n, q, r)
                   /\ Between(Cut(s, c, <<q, r>>), none, Array(ColumnText, RemoveAt(cols, n)), bct)
  BY <1>11
<1> HIDE DEF c
<1>13. Repeated(parse, c + 1, n - 1).pos = q /\ Repeated(parse, c + 1, n).pos = r
  <2>1. SpanIn(s, c, ColumnText, cols, n, q, r)
    BY <1>12
  <2>2. cols \in Seq(ColumnRecs)
    BY <1>1
  <2>3. s \in Seq(Token)
    BY <1>1
  <2>4. QED
    BY ONLY <1>6, <1>7, <1>8, <2>1, <2>2, <2>3, SpansAreFound
<1>14. Span(ParseColumnDef, s, 1, n) = <<q, r>>
  BY <1>9, <1>10, <1>13
<1>15. Between(Cut(s, 1, <<q, r>>), none, Array(ColumnText, less), bct)
  BY <1>9, <1>12 DEF less
<1>16. Cut(s, 1, <<q, r>>) = Stream(e)
  BY <1>3, <1>4, <1>15 DEF Between
<1>17. Cut(s, 1, Span(ParseColumnDef, s, 1, n)) = Stream(e)
  BY <1>14, <1>16
<1>18. QED
  BY <1>17 DEF s, e, less, cols

\* DROP INDEX cuts the record of its index out.
LEMMA IndexDropped ==
  ASSUME NEW d \in Schemas, NEW n \in 1 .. Len(d.indexes)
  PROVE  Cut(Stream(d), Columns(Stream(d)).pos, Span(ParseIndexRecord, Stream(d), Columns(Stream(d)).pos, n))
           = Stream(WithIndexes(d, RemoveAt(d.indexes, n)))
<1> DEFINE s == Stream(d)
           recs == d.indexes
           h == ColumnArray(d)
           ct == BehindIndexes(d)
           less == RemoveAt(recs, n)
           e == WithIndexes(d, less)
           c == Len(h) + 1
           parse == [p \in Nat |-> ParseIndexRecord(s, p)]
<1>1. recs \in Seq(IndexRecs) /\ s \in Seq(Token) /\ h \in Seq(Token) /\ Len(h) \in Nat
  BY StreamParts
<1>2. less \in Seq(IndexRecs)
  BY <1>1, RemoveAtLaws
<1>3. e \in Schemas /\ ColumnArray(e) = h /\ IndexArray(e) = Array(IndexText, less) /\ BehindIndexes(e) = ct
  BY <1>2, ChangedSchemas
<1>4. Between(Stream(e), ColumnArray(e), IndexArray(e), BehindIndexes(e)) /\ ct \in Seq(Token)
  BY <1>3, StreamBetween
<1>5. Between(s, h, Array(IndexText, recs), ct)
  BY StreamBetween DEF IndexArray
<1>6. Texts(IndexText, IndexRecs, Token)
  BY RecordsHaveTexts DEF TextsOfRecords
<1>7. Finds(parse, s, IndexRecs, IndexText)
  BY <1>1, IndexesAreFound
<1>8. n \in 1 .. Len(recs)
  OBVIOUS
<1>9. Columns(s).pos = c
  <2>1. Columns(s) = Parsed(1 + Len(h), d.columns)
    BY StreamIsParsed
  <2>2. 1 + Len(h) = c
    BY <1>1
  <2> HIDE DEF c, h, s
  <2>3. QED
    BY ONLY <2>1, <2>2 DEF Parsed
<1>10. Span(ParseIndexRecord, s, c, n) = <<Repeated(parse, c + 1, n - 1).pos, Repeated(parse, c + 1, n).pos>>
  BY DEF Span, Times
<1> HIDE DEF s, recs, h, ct, less, e, parse
<1>11. \E q, r : /\ SpanIn(s, Len(h) + 1, IndexText, recs, n, q, r)
                 /\ Between(Cut(s, Len(h) + 1, <<q, r>>), h, Array(IndexText, RemoveAt(recs, n)), ct)
  <2>1. h \in Seq(Token) /\ ct \in Seq(Token)
    BY <1>1, <1>4
  <2>2. recs \in Seq(IndexRecs)
    BY <1>1
  <2>3. QED
    BY ONLY <1>5, <1>6, <1>8, <2>1, <2>2, ArrayShrinks
<1>12. PICK q, r : /\ SpanIn(s, c, IndexText, recs, n, q, r)
                   /\ Between(Cut(s, c, <<q, r>>), h, Array(IndexText, RemoveAt(recs, n)), ct)
  BY <1>11
<1> HIDE DEF c
<1>13. Repeated(parse, c + 1, n - 1).pos = q /\ Repeated(parse, c + 1, n).pos = r
  <2>1. SpanIn(s, c, IndexText, recs, n, q, r)
    BY <1>12
  <2>2. recs \in Seq(IndexRecs)
    BY <1>1
  <2>3. s \in Seq(Token)
    BY <1>1
  <2>4. QED
    BY ONLY <1>6, <1>7, <1>8, <2>1, <2>2, <2>3, SpansAreFound
<1>14. Span(ParseIndexRecord, s, c, n) = <<q, r>>
  BY <1>10, <1>13
<1>15. Between(Cut(s, c, <<q, r>>), h, Array(IndexText, less), ct)
  BY <1>12 DEF less
<1>16. Cut(s, c, <<q, r>>) = Stream(e)
  BY <1>3, <1>4, <1>15 DEF Between
<1>17. Cut(s, c, Span(ParseIndexRecord, s, c, n)) = Stream(e)
  BY <1>14, <1>16
<1>18. QED
  BY <1>9, <1>17 DEF s, e, less, recs

\* What a splice of CREATE INDEX puts together, without and with a constraint.
SplicedParts(s, m, n, record, rest) ==
  (((SubSeq(s, 1, m - 1) \o <<s[m] + 1>>) \o SubSeq(s, m + 1, n - 1)) \o record) \o rest
RestWith(s, n, o, constraint) ==
  ((<<s[n] + 1>> \o SubSeq(s, n + 1, o - 1)) \o constraint) \o SubSeq(s, o, Len(s))

LEMMA IndexSpliced ==
  ASSUME NEW d \in Schemas, NEW i \in IndexRecs, NEW t \in Seq(Token), NEW m, m = 1 + Len(ColumnArray(d)),
         NEW n, n = m + Len(IndexArray(d))
  PROVE  Between(SplicedParts(Stream(d), m, n, IndexRecord(i), t), ColumnArray(d),
                 Array(IndexText, Append(d.indexes, i)), t)
<1> DEFINE s == Stream(d)
           h == ColumnArray(d)
           recs == d.indexes
           all == All(IndexText, recs)
           k == Len(recs) + 1
           x == IndexText[i]
<1>1. recs \in Seq(IndexRecs) /\ h \in Seq(Token)
  BY StreamParts
<1>2. s[m] = Len(recs)
  BY StreamIsParsed
<1>3. SubSeq(s, 1, m - 1) = h /\ SubSeq(s, m + 1, n - 1) = all
  BY StreamCuts
<1>4. Texts(IndexText, IndexRecs, Token)
  BY RecordsHaveTexts DEF TextsOfRecords
<1>5. IndexRecord(i) = x
  BY DEF IndexText
<1> HIDE DEF s, h, recs, all, x
<1>6. Between((((h \o One(k)) \o All(IndexText, recs)) \o IndexText[i]) \o t, h, Array(IndexText, Append(recs, i)), t)
  <2>1. k = Len(recs) + 1
    OBVIOUS
  <2> HIDE DEF k
  <2>2. recs \in Seq(IndexRecs) /\ h \in Seq(Token)
    BY <1>1
  <2>3. QED
    BY ONLY <1>4, <2>1, <2>2, i \in IndexRecs, t \in Seq(Token), ArrayGrows
<1>7. One(k) = <<s[m] + 1>>
  BY <1>2 DEF One
<1>8. SplicedParts(s, m, n, IndexRecord(i), t) = (((h \o One(k)) \o all) \o x) \o t
  BY <1>3, <1>5, <1>7 DEF SplicedParts
<1>9. QED
  BY <1>6, <1>8 DEF all, x, s, h, recs

\* CREATE INDEX splices the record of its index in behind the others.
LEMMA IndexAdded ==
  ASSUME NEW d \in Schemas, NEW i \in IndexRecs
  PROVE  SplicedIndex(Stream(d), IndexRecord(i), <<>>) = Stream(WithIndexes(d, Append(d.indexes, i)))
<1> DEFINE s == Stream(d)
           m == 1 + Len(ColumnArray(d))
           n == m + Len(IndexArray(d))
           h == ColumnArray(d)
           more == Append(d.indexes, i)
           e == WithIndexes(d, more)
           ct == BehindIndexes(d)
           w == SplicedIndex(s, IndexRecord(i), <<>>)
<1>1. Columns(s).pos = m /\ Indexes(s).pos = n
  <2>1. Columns(s) = Parsed(m, d.columns) /\ Indexes(s) = Parsed(n, d.indexes)
    BY StreamIsParsed
  <2> HIDE DEF s, m, n
  <2>2. QED
    BY ONLY <2>1 DEF Parsed
<1>2. SubSeq(s, n, Len(s)) = ct
  BY StreamCuts
<1>3. ct \in Seq(Token)
  BY StreamBetween
<1>4. more \in Seq(IndexRecs)
  BY StreamParts, AppendLaws
<1>5. e \in Schemas /\ ColumnArray(e) = h /\ IndexArray(e) = Array(IndexText, more) /\ BehindIndexes(e) = ct
  BY <1>4, ChangedSchemas
<1>6. Between(Stream(e), ColumnArray(e), IndexArray(e), BehindIndexes(e))
  BY <1>5, StreamBetween
<1> HIDE DEF ct
<1>7. Between(SplicedParts(s, m, n, IndexRecord(i), ct), h, Array(IndexText, more), ct)
  <2>1. m = 1 + Len(ColumnArray(d)) /\ n = m + Len(IndexArray(d))
    OBVIOUS
  <2> HIDE DEF m, n
  <2>2. QED
    BY <1>3, <2>1, IndexSpliced
<1> HIDE DEF s, m, n, h, more, e
<1>8. w = SplicedParts(s, m, n, IndexRecord(i), ct)
  BY ONLY <1>1, <1>2 DEF SplicedIndex, SplicedParts
<1>9. w = Stream(e)
  BY <1>5, <1>6, <1>7, <1>8 DEF Between
<1>10. QED
  BY <1>9 DEF s, e, more

\* CREATE UNIQUE INDEX does the same with its constraint.
LEMMA IndexAndRuleAdded ==
  ASSUME NEW d \in Schemas, NEW i \in IndexRecs, NEW k \in RuleRecs
  PROVE  SplicedIndex(Stream(d), IndexRecord(i), ConstraintRecord(k))
           = Stream(WithRules(WithIndexes(d, Append(d.indexes, i)), Append(d.constraints, k)))
<1> DEFINE s == Stream(d)
           m == 1 + Len(ColumnArray(d))
           n == m + Len(IndexArray(d))
           o == n + Len(RuleArray(d))
           h == ColumnArray(d)
           tr == Trailer(d.root)
           none == <<>>
           recs == d.constraints
           more == Append(d.indexes, i)
           rules == Append(recs, k)
           di == WithIndexes(d, more)
           e == WithRules(di, rules)
           text == ConstraintRecord(k)
           rest == RestWith(s, n, o, text)
           arr == Array(RuleText, rules)
           w == SplicedIndex(s, IndexRecord(i), text)
           c == Len(recs) + 1
<1>1. Columns(s).pos = m /\ Indexes(s).pos = n /\ Len(s) - TrailerSize + 1 = o
  <2>1. Columns(s) = Parsed(m, d.columns) /\ Indexes(s) = Parsed(n, d.indexes) /\ Len(s) = o + 1
    BY StreamIsParsed
  <2>2. o \in Nat
    BY StreamParts
  <2> HIDE DEF s, m, n, o
  <2>3. Columns(s).pos = m /\ Indexes(s).pos = n
    BY ONLY <2>1 DEF Parsed
  <2>4. Len(s) - TrailerSize + 1 = o
    BY ONLY <2>1, <2>2 DEF TrailerSize
  <2>5. QED
    BY <2>3, <2>4
<1>2. SubSeq(s, n + 1, o - 1) = All(RuleText, recs) /\ SubSeq(s, o, Len(s)) = tr
  BY StreamCuts
<1>3. s[n] = Len(recs)
  BY StreamIsParsed
<1>4. recs \in Seq(RuleRecs) /\ d.indexes \in Seq(IndexRecs) /\ tr \in Seq(Token) /\ none \in Seq(Token) /\ h \in Seq(Token)
  BY StreamParts, StreamBetween
<1>5. more \in Seq(IndexRecs) /\ rules \in Seq(RuleRecs)
  BY <1>4, AppendLaws
<1>6. di \in Schemas /\ ColumnArray(di) = h /\ IndexArray(di) = Array(IndexText, more) /\ di.root = d.root
  <2>1. di \in Schemas /\ ColumnArray(di) = h /\ IndexArray(di) = Array(IndexText, more)
    BY <1>5, ChangedSchemas
  <2>2. di.root = d.root
    BY DEF WithIndexes
  <2>3. QED
    BY <2>1, <2>2
<1> HIDE DEF di
<1>7. e \in Schemas /\ ColumnArray(e) = h /\ IndexArray(e) = Array(IndexText, more) /\ RuleArray(e) = arr /\ e.root = d.root
  <2> HIDE DEF rules, more, h
  <2>1. /\ e \in Schemas /\ ColumnArray(e) = ColumnArray(di) /\ IndexArray(e) = IndexArray(di)
        /\ RuleArray(e) = arr /\ e.root = di.root
    BY ONLY <1>5, <1>6, ChangedSchemas DEF e, arr
  <2>2. QED
    BY ONLY <1>6, <2>1
<1>8. Between(Stream(e), ColumnArray(e), IndexArray(e), BehindIndexes(e)) /\ BehindIndexes(e) = arr \o tr
  BY <1>7, StreamBetween DEF BehindIndexes
<1>9. Texts(RuleText, RuleRecs, Token)
  BY RecordsHaveTexts DEF TextsOfRecords
<1>10. text = RuleText[k] /\ text # <<>>
  <2>1. text = RuleText[k]
    BY DEF RuleText
  <2>2. Len(RuleText[k]) >= 1
    BY RuleTexts
  <2>3. text # <<>>
    BY <2>1, <2>2
  <2>4. QED
    BY <2>1, <2>3
<1> HIDE DEF s, h, tr, none, recs, text, o
<1>11. Between((((none \o One(c)) \o All(RuleText, recs)) \o RuleText[k]) \o tr, none, Array(RuleText, Append(recs, k)), tr)
  <2>1. c = Len(recs) + 1
    OBVIOUS
  <2> HIDE DEF c
  <2>2. none \in Seq(Token) /\ tr \in Seq(Token) /\ recs \in Seq(RuleRecs)
    BY <1>4
  <2>3. QED
    BY ONLY <1>9, <2>1, <2>2, k \in RuleRecs, ArrayGrows
<1>12. none \o One(c) = <<s[n] + 1>>
  BY <1>3 DEF none, One
<1> HIDE DEF n
<1>13. rest = (((none \o One(c)) \o All(RuleText, recs)) \o RuleText[k]) \o tr
  BY <1>2, <1>10, <1>12 DEF RestWith
<1>14. arr \in Seq(Token) /\ none \o arr = arr
  <2>1. RuleText \in [RuleRecs -> Seq(Token)]
    BY RuleTexts
  <2> HIDE DEF rules
  <2>2. arr \in Seq(Token)
    BY <1>5, <2>1, ArrayLaws
  <2> HIDE DEF arr
  <2>3. QED
    BY <2>2 DEF none
<1>15. rest = arr \o tr
  BY <1>11, <1>13, <1>14 DEF Between
<1>16. rest \in Seq(Token)
  <2> HIDE DEF arr, rest
  <2>1. arr \in Seq(Token) /\ tr \in Seq(Token)
    BY ONLY <1>4, <1>14
  <2>2. arr \o tr \in Seq(Token)
    BY ONLY <2>1, ConcatenationLaws
  <2>3. QED
    BY <1>15, <2>2
<1> HIDE DEF rest
<1>17. Between(SplicedParts(s, m, n, IndexRecord(i), rest), h, Array(IndexText, more), rest)
  <2>1. m = 1 + Len(ColumnArray(d)) /\ n = m + Len(IndexArray(d))
    BY DEF n
  <2> HIDE DEF m
  <2>2. QED
    BY <1>16, <2>1, IndexSpliced DEF s, h
<1> HIDE DEF m, more, e, arr
<1>18. w = SplicedParts(s, m, n, IndexRecord(i), rest)
  BY ONLY <1>1, <1>10 DEF SplicedIndex, SplicedParts, RestWith, rest
<1>19. w = Stream(e)
  BY <1>7, <1>8, <1>15, <1>17, <1>18 DEF Between
<1>20. QED
  BY <1>19 DEF s, e, di, rules, recs, more, text

-----------------------------------------------------------------------------
(* A stream that is cut off is not read as another one.                    *)

\* t is what is left of s when its end is cut off.
Beginning(t, s) ==
  t \in Seq(Token) /\ s \in Seq(Token) /\ Len(t) <= Len(s) /\ \A i \in 1 .. Len(t) : t[i] = s[i]

\* What is not refused of the beginning is read just so of the whole.
Agrees(a, b) == a.pos \in Nat /\ (a.pos # 0 => b = a)

LEMMA Agreements ==
  /\ \A b : Agrees(Refused, b)
  /\ \A q \in Nat : \A v : Agrees(Parsed(q, v), Parsed(q, v)) /\ Parsed(q, v).pos = q /\ Parsed(q, v).val = v
  /\ Refused.pos = 0
BY DEF Agrees, Refused, Parsed

LEMMA BeginningFits ==
  ASSUME NEW s, NEW t, Beginning(t, s), NEW p \in Nat, NEW k \in Nat \ {0}, Fits(t, p, k)
  PROVE  /\ Fits(s, p, k) /\ t[p] = s[p] /\ Len(t) <= Len(s) /\ Len(t) \in Nat /\ Len(s) \in Nat
         /\ \A j \in 1 .. k - 1 : t[p + j] = s[p + j]
<1>1. Len(t) \in Nat /\ Len(s) \in Nat /\ Len(t) <= Len(s) /\ \A i \in 1 .. Len(t) : t[i] = s[i]
  BY DEF Beginning
<1>2. p > 0 /\ p + k - 1 <= Len(t)
  BY DEF Fits
<1>3. Fits(s, p, k)
  BY <1>1, <1>2 DEF Fits
<1>4. p \in 1 .. Len(t) /\ \A j \in 1 .. k - 1 : p + j \in 1 .. Len(t)
  BY <1>1, <1>2
<1>5. QED
  BY <1>1, <1>3, <1>4

LEMMA RepeatedAgrees ==
  ASSUME NEW f, NEW g, \A p \in Nat : Agrees(f[p], g[p]), NEW pos \in Nat, NEW n \in Nat
  PROVE  Agrees(Repeated(f, pos, n), Repeated(g, pos, n))
<1> DEFINE G == {k \in Nat : Agrees(Repeated(f, pos, k), Repeated(g, pos, k))}
<1>1. /\ Repeated(f, pos, 0) = Parsed(pos, <<>>) /\ Repeated(g, pos, 0) = Parsed(pos, <<>>)
      /\ \A k \in Nat : Repeated(f, pos, k + 1) = ReadOn(f, Repeated(f, pos, k))
      /\ \A k \in Nat : Repeated(g, pos, k + 1) = ReadOn(g, Repeated(g, pos, k))
  BY RepeatedSteps
<1>2. 0 \in G
  BY <1>1, Agreements
<1>3. ASSUME NEW k \in Nat, k \in G PROVE k + 1 \in G
  <2> DEFINE a == Repeated(f, pos, k)
             b == Repeated(g, pos, k)
  <2>1. Agrees(a, b)
    BY <1>3
  <2>2. Repeated(f, pos, k + 1) = ReadOn(f, a) /\ Repeated(g, pos, k + 1) = ReadOn(g, b)
    BY <1>1
  <2> HIDE DEF a, b, G
  <2>3. Agrees(ReadOn(f, a), ReadOn(g, b))
    <3>1. CASE a.pos = 0
      <4>1. ReadOn(f, a) = Refused
        BY <3>1 DEF ReadOn
      <4>2. QED
        BY <4>1, Agreements
    <3>2. CASE a.pos # 0
      <4>1. a.pos \in Nat /\ b = a
        BY <2>1, <3>2 DEF Agrees
      <4>2. Agrees(f[a.pos], g[a.pos])
        BY <4>1
      <4>3. CASE f[a.pos].pos = 0
        <5>1. ReadOn(f, a) = Refused
          BY <4>3 DEF ReadOn
        <5>2. QED
          BY <5>1, Agreements
      <4>4. CASE f[a.pos].pos # 0
        <5>1. g[b.pos] = f[a.pos] /\ f[a.pos].pos \in Nat
          BY <4>1, <4>2, <4>4 DEF Agrees
        <5>2. ReadOn(g, b) = ReadOn(f, a)
          BY <4>1, <5>1 DEF ReadOn
        <5>3. ReadOn(f, a) = Parsed(f[a.pos].pos, Append(a.val, f[a.pos].val))
          BY <3>2, <4>4 DEF ReadOn
        <5>4. QED
          BY <5>1, <5>2, <5>3, Agreements
      <4>5. QED
        BY <4>3, <4>4
    <3>3. QED
      BY <3>1, <3>2
  <2>4. QED
    BY <2>2, <2>3 DEF G
<1> HIDE DEF G
<1>4. n \in G
  BY <1>2, <1>3, NumbersByInduction
<1>5. QED
  BY <1>4 DEF G

LEMMA TypedValuesAgree ==
  ASSUME NEW s, NEW t, Beginning(t, s), NEW p \in Nat
  PROVE  Agrees(ParseTypedValue(t, p), ParseTypedValue(s, p))
<1>1. CASE ~Fits(t, p, 1)
  <2>1. ParseTypedValue(t, p) = Refused
    BY <1>1 DEF ParseTypedValue
  <2>2. QED
    BY <2>1, Agreements
<1>2. CASE Fits(t, p, 1)
  <2>1. Fits(s, p, 1) /\ t[p] = s[p]
    BY <1>2, BeginningFits
  <2>2. CASE t[p] = Absent
    <3>1. ParseTypedValue(t, p) = Parsed(p + 1, Absent) /\ ParseTypedValue(s, p) = Parsed(p + 1, Absent)
      BY <1>2, <2>1, <2>2 DEF ParseTypedValue
    <3>2. QED
      BY <3>1, Agreements
  <2>3. CASE t[p] # Absent /\ t[p] = 1 /\ Fits(t, p, 2)
    <3>1. Fits(s, p, 2) /\ t[p + 1] = s[p + 1]
      BY <2>3, BeginningFits
    <3> DEFINE q == p + 2
               x == t[p + 1]
    <3>2. ParseTypedValue(t, p) = Parsed(q, x) /\ ParseTypedValue(s, p) = Parsed(q, x)
      BY <1>2, <2>1, <2>3, <3>1 DEF ParseTypedValue
    <3>3. q \in Nat
      OBVIOUS
    <3> HIDE DEF q, x
    <3>4. QED
      BY <3>2, <3>3, Agreements
  <2>4. CASE t[p] # Absent /\ ~(t[p] = 1 /\ Fits(t, p, 2))
    <3>1. ParseTypedValue(t, p) = Refused
      BY <1>2, <2>4 DEF ParseTypedValue
    <3>2. QED
      BY <3>1, Agreements
  <2>5. QED
    BY <2>2, <2>3, <2>4
<1>3. QED
  BY <1>1, <1>2

LEMMA ColumnDefsAgree ==
  ASSUME NEW s, NEW t, Beginning(t, s), NEW p \in Nat
  PROVE  Agrees(ParseColumnDef(t, p), ParseColumnDef(s, p))
<1> DEFINE v == ParseTypedValue(t, p + 2)
           w == ParseTypedValue(s, p + 2)
<1>1. Agrees(v, w)
  <2>1. p + 2 \in Nat
    OBVIOUS
  <2>2. QED
    BY <2>1, TypedValuesAgree
<1> HIDE DEF v, w
<1>2. CASE ~Fits(t, p, 2) \/ v.pos = 0
  <2>1. ParseColumnDef(t, p) = Refused
    BY <1>2 DEF ParseColumnDef, v
  <2>2. QED
    BY <2>1, Agreements
<1>3. CASE Fits(t, p, 2) /\ v.pos # 0
  <2>1. Fits(s, p, 2) /\ t[p] = s[p] /\ t[p + 1] = s[p + 1]
    BY <1>3, BeginningFits
  <2>2. w = v /\ v.pos \in Nat
    BY <1>1, <1>3 DEF Agrees
  <2> DEFINE c == [name |-> t[p], id |-> t[p + 1]]
  <2>3. ParseColumnDef(t, p) = Parsed(v.pos, c)
    BY <1>3 DEF ParseColumnDef, v
  <2>4. ParseColumnDef(s, p) = Parsed(v.pos, c)
    BY <1>3, <2>1, <2>2 DEF ParseColumnDef, w
  <2>5. QED
    BY <2>2, <2>3, <2>4, Agreements
<1>4. QED
  BY <1>2, <1>3

LEMMA IndexColumnsAgree ==
  ASSUME NEW s, NEW t, Beginning(t, s), NEW p \in Nat
  PROVE  Agrees(ParseIndexColumn(t, p), ParseIndexColumn(s, p))
<1> DEFINE OK(w) == Fits(w, p, 4) /\ IsFlag(w[p + 1]) /\ IsFlag(w[p + 2]) /\ w[p + 3] = MaxIndexedSize
           c == [name |-> t[p], descending |-> t[p + 1] = FlagTrue, nocase |-> t[p + 2] = FlagTrue]
<1>1. CASE ~OK(t)
  <2>1. ParseIndexColumn(t, p) = Refused
    BY <1>1 DEF ParseIndexColumn
  <2>2. QED
    BY <2>1, Agreements
<1>2. CASE OK(t)
  <2>1. /\ Fits(s, p, 4) /\ t[p] = s[p] /\ t[p + 1] = s[p + 1]
        /\ t[p + 2] = s[p + 2] /\ t[p + 3] = s[p + 3]
    BY <1>2, BeginningFits
  <2>2. ParseIndexColumn(t, p) = Parsed(p + 4, c)
    BY <1>2 DEF ParseIndexColumn
  <2>3. ParseIndexColumn(s, p) = Parsed(p + 4, c)
    BY <1>2, <2>1 DEF ParseIndexColumn
  <2> HIDE DEF c
  <2>4. QED
    BY <2>2, <2>3, Agreements
<1>3. QED
  BY <1>1, <1>2

LEMMA CoveredColumnsAgree ==
  ASSUME NEW s, NEW t, Beginning(t, s), NEW p \in Nat
  PROVE  Agrees(ParseCoveredColumn(t, p), ParseCoveredColumn(s, p))
<1>1. CASE ~Fits(t, p, 2)
  <2>1. ParseCoveredColumn(t, p) = Refused
    BY <1>1 DEF ParseCoveredColumn
  <2>2. QED
    BY <2>1, Agreements
<1>2. CASE Fits(t, p, 2)
  <2>1. Fits(s, p, 2) /\ t[p] = s[p] /\ t[p + 1] = s[p + 1]
    BY <1>2, BeginningFits
  <2>2. ParseCoveredColumn(t, p) = Parsed(p + 2, [id |-> t[p], name |-> t[p + 1]])
        /\ ParseCoveredColumn(s, p) = Parsed(p + 2, [id |-> t[p], name |-> t[p + 1]])
    BY <1>2, <2>1 DEF ParseCoveredColumn
  <2>3. QED
    BY <2>2, Agreements
<1>3. QED
  BY <1>1, <1>2

LEMMA IndexRecordsAgree ==
  ASSUME NEW s, NEW t, Beginning(t, s), NEW p \in Nat
  PROVE  Agrees(ParseIndexRecord(t, p), ParseIndexRecord(s, p))
<1> DEFINE Bad(w) == ~Fits(w, p, 7) \/ w[p + 2] # 0 \/ ~IsFlag(w[p + 3]) \/ ~IsFlag(w[p + 4])
                     \/ w[p + 5] \notin 1..Len(w)
           Cols(w) == Repeated([x \in Nat |-> ParseIndexColumn(w, x)], p + 7, w[p + 5])
           Rec(w, v) == [name |-> w[p], id |-> w[p + 1], unique |-> w[p + 3] = FlagTrue,
                         primary |-> w[p + 4] = FlagTrue, root |-> w[p + 6], columns |-> v]
<1>1. \A w : ParseIndexRecord(w, p) = IF Bad(w) THEN Refused
                                      ELSE IF Cols(w).pos = 0 THEN Refused ELSE Parsed(Cols(w).pos, Rec(w, Cols(w).val))
  BY DEF ParseIndexRecord, Times
<1>2. CASE Bad(t)
  <2>1. ParseIndexRecord(t, p) = Refused
    BY <1>1, <1>2
  <2>2. QED
    BY <2>1, Agreements
<1>3. CASE ~Bad(t)
  <2>1. /\ Fits(s, p, 7) /\ t[p] = s[p] /\ Len(t) <= Len(s) /\ Len(t) \in Nat /\ Len(s) \in Nat
        /\ \A j \in 1 .. 6 : t[p + j] = s[p + j]
    <3>1. Fits(t, p, 7) /\ 7 - 1 = 6
      BY <1>3
    <3>2. QED
      BY ONLY <3>1, Beginning(t, s), p \in Nat, BeginningFits
  <2>2. t[p + 1] = s[p + 1] /\ t[p + 2] = s[p + 2] /\ t[p + 3] = s[p + 3] /\ t[p + 4] = s[p + 4]
        /\ t[p + 5] = s[p + 5] /\ t[p + 6] = s[p + 6]
    BY <2>1
  <2> DEFINE n == t[p + 5]
  <2>3. n \in Nat /\ n \in 1 .. Len(t) /\ ~Bad(s)
    BY <1>3, <2>1, <2>2
  <2> DEFINE f == [x \in Nat |-> ParseIndexColumn(t, x)]
             g == [x \in Nat |-> ParseIndexColumn(s, x)]
             a == Repeated(f, p + 7, n)
             b == Repeated(g, p + 7, n)
  <2>4. \A x \in Nat : Agrees(f[x], g[x])
    BY IndexColumnsAgree
  <2>5. a = Cols(t) /\ b = Cols(s)
    BY <2>2
  <2>6. Agrees(a, b)
    <3> DEFINE q == p + 7
    <3>1. q \in Nat /\ n \in Nat
      BY <2>3
    <3> HIDE DEF f, g, q, n
    <3>2. QED
      BY ONLY <2>4, <3>1, RepeatedAgrees DEF q
  <2>7. Rec(s, a.val) = Rec(t, a.val)
    BY <2>1, <2>2
  <2> HIDE DEF Bad, Cols, Rec, a, b
  <2>8. CASE a.pos = 0
    <3>1. ParseIndexRecord(t, p) = Refused
      BY <1>1, <2>5, <2>8
    <3>2. QED
      BY <3>1, Agreements
  <2>9. CASE a.pos # 0
    <3>1. b = a /\ a.pos \in Nat
      BY <2>6, <2>9 DEF Agrees
    <3>2. ParseIndexRecord(t, p) = Parsed(a.pos, Rec(t, a.val))
      BY <1>1, <1>3, <2>5, <2>9
    <3>3. ParseIndexRecord(s, p) = Parsed(a.pos, Rec(t, a.val))
      BY <1>1, <2>3, <2>5, <2>7, <2>9, <3>1
    <3>4. QED
      BY <3>1, <3>2, <3>3, Agreements
  <2>10. QED
    BY <2>8, <2>9
<1>4. QED
  BY <1>2, <1>3

LEMMA KeysAgree ==
  ASSUME NEW s, NEW t, Beginning(t, s), NEW p \in Nat
  PROVE  Agrees(ParseKey(t, p), ParseKey(s, p))
<1> DEFINE Bad(w) == ~Fits(w, p, 9) \/ w[p + 5] # 1 \/ w[p + 8] \notin 0..Len(w)
           Cols(w) == Repeated([x \in Nat |-> ParseCoveredColumn(w, x)], p + 9, w[p + 8])
           Rec(w, v) == [kind |-> w[p], name |-> w[p + 1], id |-> w[p + 2],
                         owner |-> w[p + 4], table |-> w[p + 6], index |-> w[p + 7], columns |-> v]
<1>1. \A w : ParseKey(w, p) = IF Bad(w) THEN Refused
                              ELSE IF Cols(w).pos = 0 THEN Refused ELSE Parsed(Cols(w).pos, Rec(w, Cols(w).val))
  BY DEF ParseKey, Times
<1>2. CASE Bad(t)
  <2>1. ParseKey(t, p) = Refused
    BY <1>1, <1>2
  <2>2. QED
    BY <2>1, Agreements
<1>3. CASE ~Bad(t)
  <2>1. /\ Fits(s, p, 9) /\ t[p] = s[p] /\ Len(t) <= Len(s) /\ Len(t) \in Nat /\ Len(s) \in Nat
        /\ \A j \in 1 .. 8 : t[p + j] = s[p + j]
    <3>1. Fits(t, p, 9) /\ 9 - 1 = 8
      BY <1>3
    <3>2. QED
      BY ONLY <3>1, Beginning(t, s), p \in Nat, BeginningFits
  <2>2. t[p + 1] = s[p + 1] /\ t[p + 2] = s[p + 2] /\ t[p + 4] = s[p + 4] /\ t[p + 5] = s[p + 5]
        /\ t[p + 6] = s[p + 6] /\ t[p + 7] = s[p + 7] /\ t[p + 8] = s[p + 8]
    BY <2>1
  <2> DEFINE n == t[p + 8]
  <2>3. n \in Nat /\ n \in 0 .. Len(t) /\ ~Bad(s)
    BY <1>3, <2>1, <2>2
  <2> DEFINE f == [x \in Nat |-> ParseCoveredColumn(t, x)]
             g == [x \in Nat |-> ParseCoveredColumn(s, x)]
             a == Repeated(f, p + 9, n)
             b == Repeated(g, p + 9, n)
  <2>4. \A x \in Nat : Agrees(f[x], g[x])
    BY CoveredColumnsAgree
  <2>5. a = Cols(t) /\ b = Cols(s)
    BY <2>2
  <2>6. Agrees(a, b)
    <3> DEFINE q == p + 9
    <3>1. q \in Nat /\ n \in Nat
      BY <2>3
    <3> HIDE DEF f, g, q, n
    <3>2. QED
      BY ONLY <2>4, <3>1, RepeatedAgrees DEF q
  <2>7. Rec(s, a.val) = Rec(t, a.val)
    BY <2>1, <2>2
  <2> HIDE DEF Bad, Cols, Rec, a, b
  <2>8. CASE a.pos = 0
    <3>1. ParseKey(t, p) = Refused
      BY <1>1, <2>5, <2>8
    <3>2. QED
      BY <3>1, Agreements
  <2>9. CASE a.pos # 0
    <3>1. b = a /\ a.pos \in Nat
      BY <2>6, <2>9 DEF Agrees
    <3>2. ParseKey(t, p) = Parsed(a.pos, Rec(t, a.val))
      BY <1>1, <1>3, <2>5, <2>9
    <3>3. ParseKey(s, p) = Parsed(a.pos, Rec(t, a.val))
      BY <1>1, <2>3, <2>5, <2>7, <2>9, <3>1
    <3>4. QED
      BY <3>1, <3>2, <3>3, Agreements
  <2>10. QED
    BY <2>8, <2>9
<1>4. QED
  BY <1>2, <1>3

LEMMA ColumnConstraintsAgree ==
  ASSUME NEW s, NEW t, Beginning(t, s), NEW p \in Nat
  PROVE  Agrees(ParseColumnConstraint(t, p), ParseColumnConstraint(s, p))
<1> DEFINE Bad(w) == ~Fits(w, p, 8) \/ w[p + 5] # 1
           Low(w) == ParseTypedValue(w, p + 8)
           High(w) == ParseTypedValue(w, Low(w).pos)
           Bare(w) == [kind |-> w[p], name |-> w[p + 1], id |-> w[p + 2],
                       owner |-> w[p + 4], table |-> w[p + 6], columns |-> <<[name |-> w[p + 7]]>>]
           Rec(w, x, y) == [kind |-> w[p], name |-> w[p + 1], id |-> w[p + 2],
                            owner |-> w[p + 4], table |-> w[p + 6], columns |-> <<[name |-> w[p + 7]]>>,
                            min |-> x, max |-> y]
           End == p + 8
<1>1. \A w : ParseColumnConstraint(w, p) =
               IF Bad(w) THEN Refused
               ELSE IF w[p] = NotNull THEN Parsed(End, Bare(w))
               ELSE IF Low(w).pos = 0 \/ High(w).pos = 0 THEN Refused
               ELSE Parsed(High(w).pos, Rec(w, Low(w).val, High(w).val))
  BY DEF ParseColumnConstraint
<1>2. CASE Bad(t)
  <2>1. ParseColumnConstraint(t, p) = Refused
    BY <1>1, <1>2
  <2>2. QED
    BY <2>1, Agreements
<1>3. CASE ~Bad(t)
  <2>1. /\ Fits(s, p, 8) /\ t[p] = s[p] /\ \A j \in 1 .. 7 : t[p + j] = s[p + j]
    <3>1. Fits(t, p, 8) /\ 8 - 1 = 7
      BY <1>3
    <3>2. QED
      BY ONLY <3>1, Beginning(t, s), p \in Nat, BeginningFits
  <2>2. t[p + 1] = s[p + 1] /\ t[p + 2] = s[p + 2] /\ t[p + 4] = s[p + 4] /\ t[p + 5] = s[p + 5]
        /\ t[p + 6] = s[p + 6] /\ t[p + 7] = s[p + 7]
    BY <2>1
  <2>3. ~Bad(s)
    BY <1>3, <2>1, <2>2
  <2>4. Bare(s) = Bare(t) /\ \A x, y : Rec(s, x, y) = Rec(t, x, y)
    BY <2>1, <2>2
  <2>5. End \in Nat
    OBVIOUS
  <2>6. Agrees(Low(t), Low(s))
    BY <2>5, TypedValuesAgree
  <2>7. CASE t[p] = NotNull
    <3> HIDE DEF Bad, Bare, Rec, End
    <3>1. ParseColumnConstraint(t, p) = Parsed(End, Bare(t)) /\ ParseColumnConstraint(s, p) = Parsed(End, Bare(t))
      BY <1>1, <1>3, <2>1, <2>3, <2>4, <2>7
    <3>2. QED
      BY <2>5, <3>1, Agreements
  <2>8. CASE t[p] # NotNull /\ (Low(t).pos = 0 \/ High(t).pos = 0)
    <3> HIDE DEF Bad, Bare, Rec, End, Low, High
    <3>1. ParseColumnConstraint(t, p) = Refused
      BY <1>1, <1>3, <2>8
    <3>2. QED
      BY <3>1, Agreements
  <2>9. CASE t[p] # NotNull /\ Low(t).pos # 0 /\ High(t).pos # 0
    <3> DEFINE low == Low(t)
               high == High(t)
    <3>1. low.pos \in Nat /\ Low(s) = low
      BY <2>6, <2>9 DEF Agrees
    <3>2. Agrees(high, ParseTypedValue(s, low.pos))
      <4> HIDE DEF Low
      <4>1. QED
        BY <3>1, TypedValuesAgree
    <3>3. high.pos \in Nat /\ High(s) = high
      BY <2>9, <3>1, <3>2 DEF Agrees
    <3>4. low = Low(t) /\ high = High(t)
      OBVIOUS
    <3> HIDE DEF Bad, Bare, Rec, End, Low, High, low, high
    <3>5. ParseColumnConstraint(t, p) = Parsed(high.pos, Rec(t, low.val, high.val))
      BY <1>1, <1>3, <2>9, <3>4
    <3>6. ParseColumnConstraint(s, p) = Parsed(high.pos, Rec(t, low.val, high.val))
      BY <1>1, <2>1, <2>3, <2>4, <2>9, <3>1, <3>3, <3>4
    <3>7. QED
      BY <3>3, <3>5, <3>6, Agreements
  <2>10. QED
    BY <2>7, <2>8, <2>9
<1>4. QED
  BY <1>2, <1>3

LEMMA ConstraintsAgree ==
  ASSUME NEW s, NEW t, Beginning(t, s), NEW p \in Nat
  PROVE  Agrees(ParseConstraint(t, p), ParseConstraint(s, p))
<1>1. CASE ~Fits(t, p, 5) \/ t[p + 3] # 0 \/ t[p] \notin KeyKinds \cup ColumnKinds
  <2>1. ParseConstraint(t, p) = Refused
    BY <1>1 DEF ParseConstraint
  <2>2. QED
    BY <2>1, Agreements
<1>2. CASE Fits(t, p, 5) /\ t[p + 3] = 0 /\ t[p] \in KeyKinds \cup ColumnKinds
  <2>1. Fits(s, p, 5) /\ t[p] = s[p] /\ t[p + 3] = s[p + 3]
    BY <1>2, BeginningFits
  <2>2. CASE t[p] \in KeyKinds
    <3>1. ParseConstraint(t, p) = ParseKey(t, p) /\ ParseConstraint(s, p) = ParseKey(s, p)
      BY <1>2, <2>1, <2>2 DEF ParseConstraint
    <3>2. QED
      BY <3>1, KeysAgree
  <2>3. CASE t[p] \notin KeyKinds
    <3>1. ParseConstraint(t, p) = ParseColumnConstraint(t, p) /\ ParseConstraint(s, p) = ParseColumnConstraint(s, p)
      BY <1>2, <2>1, <2>3 DEF ParseConstraint
    <3>2. QED
      BY <3>1, ColumnConstraintsAgree
  <2>4. QED
    BY <2>2, <2>3
<1>3. QED
  BY <1>1, <1>2

\* The arrays, given what each parser makes of a place.
ArrayOf(parse, s, pos) ==
  IF Fits(s, pos, 1) /\ s[pos] \in 0..(Len(s) - pos) THEN Repeated(parse, pos + 1, s[pos]) ELSE Refused

LEMMA ArraysAgree ==
  ASSUME NEW s, NEW t, Beginning(t, s), NEW f, NEW g, \A p \in Nat : Agrees(f[p], g[p]), NEW p \in Nat
  PROVE  Agrees(ArrayOf(f, t, p), ArrayOf(g, s, p))
<1>1. CASE ~(Fits(t, p, 1) /\ t[p] \in 0..(Len(t) - p))
  <2>1. ArrayOf(f, t, p) = Refused
    BY <1>1 DEF ArrayOf
  <2>2. QED
    BY <2>1, Agreements
<1>2. CASE Fits(t, p, 1) /\ t[p] \in 0..(Len(t) - p)
  <2> DEFINE q == p + 1
             n == t[p]
  <2>1. Fits(s, p, 1) /\ t[p] = s[p] /\ Len(t) <= Len(s) /\ Len(t) \in Nat /\ Len(s) \in Nat
    BY <1>2, BeginningFits
  <2>2. q \in Nat /\ n \in Nat /\ n \in 0..(Len(s) - p)
    BY <1>2, <2>1
  <2>3. ArrayOf(f, t, p) = Repeated(f, q, n) /\ ArrayOf(g, s, p) = Repeated(g, q, n)
    BY <1>2, <2>1, <2>2 DEF ArrayOf
  <2> HIDE DEF q, n
  <2>4. QED
    BY <2>2, <2>3, RepeatedAgrees
<1>3. QED
  BY <1>1, <1>2

\* A stream whose end is cut off is refused.
LEMMA CutStreamRefused ==
  ASSUME NEW d \in Schemas, NEW l \in 0 .. Len(Stream(d)) - 1
  PROVE  ~Understood(SubSeq(Stream(d), 1, l))
<1> DEFINE s == Stream(d)
           t == SubSeq(s, 1, l)
           ColumnAt(w) == [p \in Nat |-> ParseColumnDef(w, p)]
           IndexAt(w) == [p \in Nat |-> ParseIndexRecord(w, p)]
           RuleAt(w) == [p \in Nat |-> ParseConstraint(w, p)]
<1>1. s \in Seq(Token) /\ Understood(s) /\ Len(s) \in Nat
  BY StreamParts, StreamIsParsed
<1> HIDE DEF s
<1>2. Beginning(t, s) /\ Len(t) = l
  <2>1. l \in 0 .. Len(s) /\ l < Len(s) /\ l \in Nat
    BY <1>1 DEF s
  <2>2. t \in Seq(Token) /\ Len(t) = l /\ \A i \in 1 .. l : t[i] = s[i]
    BY ONLY <1>1, <2>1, PrefixLaws
  <2>3. QED
    BY <1>1, <2>1, <2>2 DEF Beginning
<1> HIDE DEF t
<1>3. /\ \A p \in Nat : Agrees(ColumnAt(t)[p], ColumnAt(s)[p])
      /\ \A p \in Nat : Agrees(IndexAt(t)[p], IndexAt(s)[p])
      /\ \A p \in Nat : Agrees(RuleAt(t)[p], RuleAt(s)[p])
  BY <1>2, ColumnDefsAgree, IndexRecordsAgree, ConstraintsAgree
<1>4. \A w : /\ Columns(w) = ArrayOf(ColumnAt(w), w, 1)
             /\ Indexes(w) = ArrayOf(IndexAt(w), w, Columns(w).pos)
             /\ KeyRules(w) = ArrayOf(RuleAt(w), w, Indexes(w).pos)
  BY DEF Columns, Indexes, KeyRules, ParseArray, Times, ArrayOf
<1> HIDE DEF ColumnAt, IndexAt, RuleAt
<1>5. ~Fits(t, 0, 1)
  BY DEF Fits
<1>6. SUFFICES ASSUME Understood(t) PROVE FALSE
  BY DEF t, s
<1>7. KeyRules(t).pos # 0 /\ Len(t) - KeyRules(t).pos + 1 = TrailerSize
  BY <1>6 DEF Understood, EndsInTrailer
<1>8. Indexes(t).pos # 0
  <2>1. SUFFICES ASSUME Indexes(t).pos = 0 PROVE KeyRules(t) = Refused
    BY <1>7, Agreements
  <2>2. QED
    BY <1>4, <1>5, <2>1 DEF ArrayOf
<1>9. Columns(t).pos # 0
  <2>1. SUFFICES ASSUME Columns(t).pos = 0 PROVE Indexes(t) = Refused
    BY <1>8, Agreements
  <2>2. QED
    BY <1>4, <1>5, <2>1 DEF ArrayOf
<1>10. Columns(s) = Columns(t) /\ Columns(t).pos \in Nat
  <2>1. Agrees(ArrayOf(ColumnAt(t), t, 1), ArrayOf(ColumnAt(s), s, 1))
    BY <1>2, <1>3, ArraysAgree
  <2>2. QED
    BY <1>4, <1>9, <2>1 DEF Agrees
<1>11. Indexes(s) = Indexes(t) /\ Indexes(t).pos \in Nat
  <2> DEFINE p == Columns(t).pos
  <2>1. Agrees(ArrayOf(IndexAt(t), t, p), ArrayOf(IndexAt(s), s, p))
    BY <1>2, <1>3, <1>10, ArraysAgree
  <2>2. QED
    BY <1>4, <1>8, <1>10, <2>1 DEF Agrees
<1>12. KeyRules(s) = KeyRules(t) /\ KeyRules(t).pos \in Nat
  <2> DEFINE p == Indexes(t).pos
  <2>1. Agrees(ArrayOf(RuleAt(t), t, p), ArrayOf(RuleAt(s), s, p))
    BY <1>2, <1>3, <1>11, ArraysAgree
  <2>2. QED
    BY <1>4, <1>7, <1>11, <2>1 DEF Agrees
<1>13. Len(s) - KeyRules(t).pos + 1 = TrailerSize
  BY <1>1, <1>12 DEF Understood, EndsInTrailer
<1>14. Len(s) = l /\ l < Len(s)
  <2>1. l < Len(s) /\ l \in Nat
    BY <1>1 DEF s
  <2>2. QED
    BY <1>1, <1>2, <1>7, <1>12, <1>13, <2>1 DEF TrailerSize
<1>15. QED
  BY <1>1, <1>14

-----------------------------------------------------------------------------
(* What every state has.                                                   *)

Roots(d) == {d.indexes[i].root : i \in DOMAIN d.indexes}
Pieces(a, c, d) == ((ToSet(a) \cup ToSet(c)) \cup {d.root}) \cup Roots(d)
RootsDiffer(d) == \A i, j \in DOMAIN d.indexes : d.indexes[i].root = d.indexes[j].root => i = j
Apart(a, c, d) ==
  /\ ToSet(a) \cap ToSet(c) = {} /\ d.root \notin ToSet(a) \cup ToSet(c)
  /\ Roots(d) \cap ((ToSet(a) \cup ToSet(c)) \cup {d.root}) = {}
  /\ RootsDiffer(d)

\* A table's two chains, its schema and its pages.
Places == [system : Pages, schema : Pages]
Holds(f, pl, d, a, c) ==
  /\ pl \in Places /\ d \in Schemas
  /\ IsChain(f.next, a) /\ a[1] = pl.system
  /\ Stored(f, c, FileOf(Stream(d))) /\ c[1] = pl.schema
  /\ Apart(a, c, d) /\ Pieces(a, c, d) \subseteq f.allocated

SystemChain(f, pl) == ChainFrom(f.next, pl.system)
SchemaChain(f, pl) == ChainFrom(f.next, pl.schema)
Kept(f, pl, d) == Holds(f, pl, d, SystemChain(f, pl), SchemaChain(f, pl))
Owns(f, pl, d) == Pieces(SystemChain(f, pl), SchemaChain(f, pl), d)

Arranged(f, pls, ds) ==
  /\ f \in Files /\ DOMAIN pls \subseteq Tables /\ DOMAIN ds = DOMAIN pls
  /\ \A t \in DOMAIN pls : Kept(f, pls[t], ds[t])
  /\ \A t, u \in DOMAIN pls : t # u => Owns(f, pls[t], ds[t]) \cap Owns(f, pls[u], ds[u]) = {}
  /\ UNION {Owns(f, pls[t], ds[t]) : t \in DOMAIN pls} = f.allocated

IInv ==
  /\ Arranged(file, place, declared)
  /\ IDsAreUnique
  /\ lastObjectID \in Nat /\ edits \in 0 .. MaxEdits

\* A chain none of whose pages is given up or changed.
LEMMA ChainStays ==
  ASSUME NEW f, NEW P, NEW g, NEW Q, Step(f, P, g, Q),
         NEW c, IsChain(f.next, c), ToSet(c) \subseteq f.allocated \ P
  PROVE  IsChain(g.next, c) /\ ToSet(c) \subseteq g.allocated
         /\ \A tokens : Stored(f, c, tokens) => Stored(g, c, tokens)
<1>1. c \in Seq(Pages) /\ Len(c) # 0 /\ IsInjective(c) /\ f.next[c[Len(c)]] = -1
      /\ \A i \in 1 .. Len(c) - 1 : f.next[c[i]] = c[i + 1]
  BY DEF IsChain
<1>2. \A i \in 1 .. Len(c) : c[i] \in f.allocated \ P
  BY <1>1 DEF ToSet
<1>3. \A p \in f.allocated \ P : g.next[p] = f.next[p] /\ g.data[p] = f.data[p]
  BY DEF Step
<1>4. Len(c) \in Nat /\ Len(c) \in 1 .. Len(c) /\ \A i \in 1 .. Len(c) - 1 : i \in 1 .. Len(c)
  BY <1>1
<1>5. IsChain(g.next, c)
  BY <1>1, <1>2, <1>3, <1>4 DEF IsChain
<1>6. ToSet(c) \subseteq g.allocated
  BY DEF Step
<1>7. ASSUME NEW tokens, Stored(f, c, tokens) PROVE Stored(g, c, tokens)
  <2>1. Len(c) = PagesFor(tokens) /\ Carries(f.data, c, tokens)
    BY <1>7 DEF Stored
  <2>2. Carries(g.data, c, tokens)
    BY <1>2, <1>3, <2>1 DEF Carries
  <2>3. QED
    BY <1>5, <2>1, <2>2 DEF Stored
<1>8. QED
  BY <1>5, <1>6, <1>7

\* Steps of which one works on pages the other has taken or left alone.
LEMMA StepsCompose ==
  ASSUME NEW f, NEW P, NEW g, NEW Q, Step(f, P, g, Q), NEW R, NEW h, NEW S, Step(g, R, h, S), R \subseteq Q
  PROVE  Step(f, P, h, (Q \ R) \cup S)
<1>1. /\ f \in Files /\ g \in Files /\ h \in Files /\ P \subseteq f.allocated /\ Q \subseteq P \cup Free(f)
      /\ g.allocated = (f.allocated \ P) \cup Q /\ S \subseteq R \cup Free(g)
      /\ h.allocated = (g.allocated \ R) \cup S
  BY DEF Step
<1>2. \A p \in f.allocated \ P : p \in g.allocated \ R
  BY <1>1 DEF Free
<1>3. \A p \in f.allocated \ P : h.next[p] = f.next[p] /\ h.data[p] = f.data[p]
  BY <1>2 DEF Step
<1>4. h.allocated = (f.allocated \ P) \cup ((Q \ R) \cup S)
  BY <1>1 DEF Free
<1>5. (Q \ R) \cup S \subseteq P \cup Free(f)
  BY <1>1 DEF Free
<1>6. QED
  BY <1>1, <1>3, <1>4, <1>5 DEF Step

\* A step seen as one that also has pages it leaves alone.
LEMMA StepsWiden ==
  ASSUME NEW f, NEW P, NEW g, NEW Q, Step(f, P, g, Q), NEW W, W \subseteq f.allocated \ P
  PROVE  Step(f, P \cup W, g, Q \cup W)
BY DEF Step

LEMMA StepsWithoutChange ==
  ASSUME NEW f \in Files
  PROVE  Step(f, {}, f, {})
BY DEF Step

LEMMA HoldsIsKept ==
  ASSUME NEW f \in Files, NEW pl, NEW d, NEW a, NEW c, Holds(f, pl, d, a, c)
  PROVE  SystemChain(f, pl) = a /\ SchemaChain(f, pl) = c /\ Kept(f, pl, d) /\ Owns(f, pl, d) = Pieces(a, c, d)
<1>1. f.next \in [Pages -> PageNumbers] /\ IsChain(f.next, a) /\ IsChain(f.next, c)
      /\ a[1] = pl.system /\ c[1] = pl.schema
  BY DEF Holds, Stored, Files
<1>2. ChainFrom(f.next, a[1]) = a /\ ChainFrom(f.next, c[1]) = c
  BY <1>1, ChainsAreFollowed
<1>3. SystemChain(f, pl) = a /\ SchemaChain(f, pl) = c
  BY <1>1, <1>2 DEF SystemChain, SchemaChain
<1>4. QED
  BY <1>3 DEF Kept, Owns

\* A table none of whose pages is given up or changed.
LEMMA HoldsElsewhere ==
  ASSUME NEW f, NEW P, NEW g, NEW Q, Step(f, P, g, Q),
         NEW pl, NEW d, Kept(f, pl, d), Owns(f, pl, d) \cap P = {}
  PROVE  Kept(g, pl, d) /\ Owns(g, pl, d) = Owns(f, pl, d)
<1> DEFINE a == SystemChain(f, pl)
           c == SchemaChain(f, pl)
<1>1. Holds(f, pl, d, a, c) /\ Owns(f, pl, d) = Pieces(a, c, d)
  BY DEF Kept, Owns
<1> HIDE DEF a, c
<1>2. /\ IsChain(f.next, a) /\ a[1] = pl.system /\ Stored(f, c, FileOf(Stream(d))) /\ c[1] = pl.schema
      /\ pl \in Places /\ d \in Schemas /\ Apart(a, c, d) /\ Pieces(a, c, d) \subseteq f.allocated /\ IsChain(f.next, c)
  BY <1>1 DEF Holds, Stored
<1>3. ToSet(a) \subseteq f.allocated \ P /\ ToSet(c) \subseteq f.allocated \ P
  BY <1>1, <1>2 DEF Pieces
<1>4. IsChain(g.next, a)
  BY <1>2, <1>3, ChainStays
<1>5. Stored(g, c, FileOf(Stream(d)))
  BY <1>2, <1>3, ChainStays
<1>6. Pieces(a, c, d) \subseteq g.allocated /\ g \in Files
  BY <1>1, <1>2 DEF Step
<1>7. Holds(g, pl, d, a, c)
  BY <1>2, <1>4, <1>5, <1>6 DEF Holds
<1>8. QED
  BY <1>1, <1>6, <1>7, HoldsIsKept

\* A table's stream is changed and written again, after roots of its indexes P were
\* freed and the pages Q taken for new ones.
LEMMA TableRewritten ==
  ASSUME NEW f, NEW P, NEW h, NEW Q, Step(f, P, h, Q),
         NEW pl, NEW d, NEW a, NEW c, Holds(f, pl, d, a, c), P \subseteq Roots(d), Q \subseteq Free(f),
         NEW e \in Schemas, e.root = d.root, Roots(e) = (Roots(d) \ P) \cup Q, RootsDiffer(e),
         PagesFor(FileOf(Stream(e))) - Len(ChainFrom(h.next, pl.schema)) <= Cardinality(Free(h))
  PROVE  \E new \in Seq(Pages) :
           LET g == Written(h, pl.schema, FileOf(Stream(e)))
           IN  Holds(g, pl, e, a, new) /\ Step(f, Pieces(a, c, d), g, Pieces(a, new, e))
<1> DEFINE w == FileOf(Stream(e))
           g == Written(h, pl.schema, w)
           A == ToSet(a)
           C == ToSet(c)
<1>1. /\ f \in Files /\ h \in Files /\ P \subseteq f.allocated
      /\ h.allocated = (f.allocated \ P) \cup Q
  BY DEF Step
<1>2. /\ IsChain(f.next, a) /\ a[1] = pl.system /\ IsChain(f.next, c) /\ c[1] = pl.schema
      /\ pl \in Places /\ Pieces(a, c, d) \subseteq f.allocated
  BY DEF Holds, Stored
<1>3. /\ A \subseteq f.allocated /\ C \subseteq f.allocated /\ d.root \in f.allocated /\ Roots(d) \subseteq f.allocated
      /\ A \cap C = {} /\ d.root \notin A \cup C /\ Roots(d) \cap ((A \cup C) \cup {d.root}) = {}
  BY DEF Holds, Pieces, Apart
<1>4. A \subseteq f.allocated \ P /\ C \subseteq f.allocated \ P
  BY <1>3
<1>5. IsChain(h.next, a) /\ IsChain(h.next, c) /\ A \subseteq h.allocated /\ C \subseteq h.allocated
  BY <1>2, <1>4, ChainStays
<1>6. ChainFrom(h.next, pl.schema) = c
  BY <1>1, <1>2, <1>5, ChainsAreFollowed DEF Files
<1>7. w \in Seq(Token) /\ Len(w) # 0
  BY StreamParts, FileOfLaws
<1>8. PagesFor(w) - Len(c) <= Cardinality(Free(h))
  BY <1>6
<1> HIDE DEF w, A, C
<1>9. \E new \in Seq(Pages) : /\ new[1] = c[1]
                              /\ Step(h, ToSet(c), Written(h, c[1], w), ToSet(new))
                              /\ Stored(Written(h, c[1], w), new, w)
  <2>1. h \in Files
    BY <1>1
  <2>2. IsChain(h.next, c)
    BY <1>5
  <2>3. ToSet(c) \subseteq h.allocated
    BY <1>5 DEF C
  <2>4. QED
    BY <1>7, <1>8, <2>1, <2>2, <2>3, WrittenLaws
<1>10. PICK new \in Seq(Pages) : new[1] = pl.schema /\ Step(h, C, g, ToSet(new)) /\ Stored(g, new, w)
  BY <1>2, <1>9 DEF C
<1> HIDE DEF g
<1> DEFINE N == ToSet(new)
<1>11. /\ g \in Files /\ N \subseteq C \cup Free(h) /\ g.allocated = (h.allocated \ C) \cup N
  BY <1>10 DEF Step
<1>12. IsChain(g.next, a) /\ A \subseteq g.allocated
  <2>1. ToSet(a) \subseteq h.allocated \ C
    BY <1>3, <1>5 DEF A
  <2>2. QED
    BY <1>5, <1>10, <2>1, ChainStays DEF A
<1> HIDE DEF N
<1>13. Free(h) = Pages \ h.allocated /\ Free(f) = Pages \ f.allocated
  BY DEF Free
<1>14. A \cap N = {} /\ e.root \notin A \cup N /\ Roots(e) \cap ((A \cup N) \cup {e.root}) = {}
  BY <1>1, <1>3, <1>11, <1>13
<1>15. Apart(a, new, e)
  BY <1>14 DEF Apart, A, N
<1> DEFINE PS == ((A \cup N) \cup {e.root}) \cup Roots(e)
           OS == ((A \cup C) \cup {d.root}) \cup Roots(d)
<1>16. PS \subseteq g.allocated
  BY <1>1, <1>3, <1>11, <1>13
<1>17. Pieces(a, new, e) = PS /\ Pieces(a, c, d) = OS
  BY DEF Pieces, A, C, N
<1>18. Holds(g, pl, e, a, new)
  BY <1>2, <1>10, <1>12, <1>15, <1>16, <1>17 DEF Holds, w
<1>19. Step(f, OS, g, PS)
  <2>1. OS \subseteq f.allocated
    BY <1>3
  <2>2. PS \subseteq OS \cup Free(f)
    BY <1>1, <1>11, <1>13
  <2>3. g.allocated = (f.allocated \ OS) \cup PS
    BY <1>1, <1>3, <1>11, <1>13
  <2>4. \A p \in f.allocated \ OS : p \in f.allocated \ P /\ p \in h.allocated \ C
    BY <1>1, <1>3
  <2>5. \A p \in f.allocated \ OS : g.next[p] = f.next[p] /\ g.data[p] = f.data[p]
    <3>1. \A p \in f.allocated \ P : h.next[p] = f.next[p] /\ h.data[p] = f.data[p]
      BY DEF Step
    <3>2. \A p \in h.allocated \ C : g.next[p] = h.next[p] /\ g.data[p] = h.data[p]
      BY <1>10 DEF Step
    <3>3. QED
      BY <2>4, <3>1, <3>2
  <2>6. QED
    BY <1>1, <1>11, <2>1, <2>2, <2>3, <2>5 DEF Step
<1>20. QED
  BY <1>17, <1>18, <1>19 DEF g, w

\* All tables but t stay, with what is declared of them.
OthersStay(t, pls, ds, npls, nds) ==
  /\ DOMAIN nds = DOMAIN npls
  /\ \A u : u # t => (u \in DOMAIN npls <=> u \in DOMAIN pls)
  /\ \A u \in DOMAIN pls \ {t} : npls[u] = pls[u] /\ nds[u] = ds[u]

LEMMA ArrangedAfter ==
  ASSUME NEW f, NEW pls, NEW ds, Arranged(f, pls, ds), NEW t \in Tables,
         NEW P, P = (IF t \in DOMAIN pls THEN Owns(f, pls[t], ds[t]) ELSE {}),
         NEW g, NEW Q, Step(f, P, g, Q), NEW npls, NEW nds, OthersStay(t, pls, ds, npls, nds),
         t \in DOMAIN npls => Kept(g, npls[t], nds[t]) /\ Q = Owns(g, npls[t], nds[t]),
         t \notin DOMAIN npls => Q = {}
  PROVE  Arranged(g, npls, nds)
<1> DEFINE O(u) == Owns(f, pls[u], ds[u])
           N(u) == Owns(g, npls[u], nds[u])
           D == DOMAIN pls \ {t}
<1>1. /\ DOMAIN pls \subseteq Tables /\ \A u \in DOMAIN pls : Kept(f, pls[u], ds[u])
      /\ \A u, v \in DOMAIN pls : u # v => O(u) \cap O(v) = {}
      /\ UNION {O(u) : u \in DOMAIN pls} = f.allocated
  BY DEF Arranged
<1>2. DOMAIN nds = DOMAIN npls /\ DOMAIN npls \ {t} = D /\ \A u \in D : npls[u] = pls[u] /\ nds[u] = ds[u]
  BY DEF OthersStay
<1>3. /\ g \in Files /\ Q \subseteq P \cup Free(f) /\ g.allocated = (f.allocated \ P) \cup Q
  BY DEF Step
<1>4. ASSUME NEW u \in D
      PROVE  O(u) \cap P = {} /\ O(u) \subseteq f.allocated /\ Kept(g, npls[u], nds[u]) /\ N(u) = O(u)
  <2>1. O(u) \cap P = {}
    BY <1>1
  <2>2. O(u) \subseteq f.allocated
    BY <1>1
  <2>3. Kept(f, pls[u], ds[u])
    BY <1>1
  <2>4. Kept(g, pls[u], ds[u]) /\ Owns(g, pls[u], ds[u]) = O(u)
    BY <2>1, <2>3, HoldsElsewhere
  <2>5. QED
    BY <1>2, <2>1, <2>2, <2>4
<1>5. \A u \in DOMAIN npls : Kept(g, npls[u], nds[u])
  BY <1>2, <1>4
<1>6. ASSUME NEW u \in D PROVE O(u) \cap Q = {}
  BY <1>3, <1>4 DEF Free
<1>7. t \in DOMAIN npls => N(t) = Q
  OBVIOUS
<1>8. t \in DOMAIN pls => P = O(t)
  OBVIOUS
<1>9. t \notin DOMAIN pls => P = {}
  OBVIOUS
<1> HIDE DEF O, N
<1>10. \A u, v \in DOMAIN npls : u # v => N(u) \cap N(v) = {}
  <2>1. SUFFICES ASSUME NEW u \in DOMAIN npls, NEW v \in DOMAIN npls, u # v PROVE N(u) \cap N(v) = {}
    OBVIOUS
  <2>2. CASE u \in D /\ v \in D
    BY <1>1, <1>4, <2>1, <2>2
  <2>3. CASE u \in D /\ v = t
    BY <1>4, <1>6, <1>7, <2>3
  <2>4. CASE u = t /\ v \in D
    BY <1>4, <1>6, <1>7, <2>4
  <2>5. QED
    BY <1>2, <2>1, <2>2, <2>3, <2>4
<1>11. ASSUME NEW x PROVE x \in g.allocated <=> \E u \in DOMAIN npls : x \in N(u)
  <2>1. x \in f.allocated <=> \E u \in DOMAIN pls : x \in O(u)
    BY <1>1
  <2>2. x \in f.allocated \ P <=> \E u \in D : x \in O(u)
    BY <1>4, <1>8, <1>9, <2>1
  <2>3. \A u \in D : u \in DOMAIN npls /\ N(u) = O(u)
    BY <1>2, <1>4
  <2>4. \A u \in DOMAIN npls : u \in D \/ u = t
    BY <1>2
  <2>5. QED
    BY <1>3, <1>7, <2>2, <2>3, <2>4
<1>12. UNION {N(u) : u \in DOMAIN npls} = g.allocated
  BY <1>11
<1>13. DOMAIN npls \subseteq Tables
  BY <1>1, <1>2
<1>14. QED
  BY <1>2, <1>3, <1>5, <1>10, <1>12, <1>13 DEF Arranged, N

-----------------------------------------------------------------------------
(* The steps.                                                              *)

\* What a schema operation works on is the stream of what is declared.
LEMMA ReadableStreams ==
  ASSUME Arranged(file, place, declared), NEW t, Exists(t), Readable(t)
  PROVE  /\ declared[t] \in Schemas /\ StreamOf(t) = Stream(declared[t])
         /\ Columns(StreamOf(t)).val = declared[t].columns /\ Indexes(StreamOf(t)).val = declared[t].indexes
         /\ KeyRules(StreamOf(t)).val = declared[t].constraints
         /\ Meaning(StreamOf(t)).root = declared[t].root
<1> DEFINE d == declared[t]
           s == Stream(d)
           c == SchemaChain(file, place[t])
           first == file.data[place[t].schema]
<1>1. file \in Files /\ d \in Schemas /\ Stored(file, c, FileOf(s)) /\ c[1] = place[t].schema
  BY DEF Arranged, Exists, Kept, Holds
<1>2. s \in Seq(Token)
  BY <1>1, StreamParts
<1>3. Decompressed(first).pos # 0 /\ StreamOf(t) = Decompressed(first).val
  BY DEF Readable, FirstPage, StreamOf
<1> HIDE DEF s, c
<1>4. Decompressed(file.data[c[1]]).pos # 0 => Decompressed(file.data[c[1]]) = Parsed(Len(s) + 2, s)
  BY <1>1, <1>2, FilesAreRead
<1>5. Decompressed(first) = Parsed(Len(s) + 2, s)
  BY <1>1, <1>3, <1>4
<1>6. StreamOf(t) = s
  BY ONLY <1>3, <1>5 DEF Parsed
<1>7. Columns(s).val = d.columns /\ Indexes(s).val = d.indexes /\ KeyRules(s).val = d.constraints /\ Meaning(s) = d
  <2> DEFINE m == 1 + Len(ColumnArray(d))
             n == m + Len(IndexArray(d))
             o == n + Len(RuleArray(d))
  <2>1. Columns(s) = Parsed(m, d.columns) /\ Indexes(s) = Parsed(n, d.indexes)
        /\ KeyRules(s) = Parsed(o, d.constraints) /\ Meaning(s) = d
    BY <1>1, StreamIsParsed DEF s
  <2> HIDE DEF m, n, o, d
  <2>2. QED
    BY ONLY <2>1 DEF Parsed
<1>8. QED
  BY <1>1, <1>6, <1>7 DEF s

LEMMA RootsWithMore ==
  ASSUME NEW d \in Schemas, RootsDiffer(d), NEW i \in IndexRecs, i.root \notin Roots(d),
         NEW e, e.indexes = Append(d.indexes, i)
  PROVE  Roots(e) = Roots(d) \cup {i.root} /\ RootsDiffer(e)
<1> DEFINE recs == d.indexes
           l == Len(recs)
           more == Append(recs, i)
<1>1. recs \in Seq(IndexRecs) /\ l \in Nat /\ DOMAIN recs = 1 .. l
  BY DEF Schemas
<1>2. DOMAIN more = 1 .. l + 1 /\ (\A k \in 1 .. l : more[k] = recs[k]) /\ more[l + 1] = i
  BY <1>1, AppendLaws
<1>3. /\ \A k, m \in 1 .. l : recs[k].root = recs[m].root => k = m
      /\ \A k \in 1 .. l : recs[k].root # i.root
      /\ Roots(d) = {recs[k].root : k \in 1 .. l}
  BY <1>1 DEF RootsDiffer, Roots
<1>4. e.indexes = more
  OBVIOUS
<1> HIDE DEF l, more, recs
<1>5. \A k \in 1 .. l + 1 : k \in 1 .. l \/ k = l + 1
  BY <1>1
<1>6. \A k \in 1 .. l : k \in 1 .. l + 1
  BY <1>1
<1>7. l + 1 \in 1 .. l + 1
  BY <1>1
<1>8. Roots(e) = {more[k].root : k \in 1 .. l + 1}
  BY <1>2, <1>4 DEF Roots
<1>9. Roots(e) = Roots(d) \cup {i.root}
  <2>1. \A x : x \in Roots(e) <=> \E k \in 1 .. l + 1 : x = more[k].root
    BY <1>8
  <2>2. \A x : x \in Roots(d) <=> \E k \in 1 .. l : x = recs[k].root
    BY <1>3
  <2>3. \A x : x \in Roots(e) => x \in Roots(d) \cup {i.root}
    BY <1>2, <1>5, <2>1, <2>2
  <2>4. \A x \in Roots(d) : x \in Roots(e)
    BY <1>2, <1>6, <2>1, <2>2
  <2>5. i.root \in Roots(e)
    BY <1>2, <1>7, <2>1
  <2>6. QED
    BY <2>3, <2>4, <2>5
<1>10. RootsDiffer(e)
  <2>1. ASSUME NEW k \in 1 .. l + 1, NEW m \in 1 .. l + 1, more[k].root = more[m].root PROVE k = m
    BY <1>2, <1>3, <1>5, <2>1
  <2>2. QED
    BY <1>2, <1>4, <2>1 DEF RootsDiffer
<1>11. QED
  BY <1>9, <1>10

LEMMA RootsWithLess ==
  ASSUME NEW d \in Schemas, RootsDiffer(d), NEW n \in DOMAIN d.indexes,
         NEW e, e.indexes = RemoveAt(d.indexes, n)
  PROVE  Roots(e) = Roots(d) \ {d.indexes[n].root} /\ RootsDiffer(e)
<1> DEFINE recs == d.indexes
           l == Len(recs)
           less == RemoveAt(recs, n)
           Old(k) == IF k < n THEN k ELSE k + 1
<1>1. recs \in Seq(IndexRecs) /\ l \in Nat /\ DOMAIN recs = 1 .. l /\ n \in 1 .. l
  BY DEF Schemas
<1>2. DOMAIN less = 1 .. l - 1 /\ \A k \in 1 .. l - 1 : less[k] = IF k < n THEN recs[k] ELSE recs[k + 1]
  BY <1>1, RemoveAtLaws
<1>3. /\ \A k, m \in 1 .. l : recs[k].root = recs[m].root => k = m
      /\ Roots(d) = {recs[k].root : k \in 1 .. l}
  BY <1>1 DEF RootsDiffer, Roots
<1>4. e.indexes = less
  OBVIOUS
<1> HIDE DEF l, less, recs
<1>5. \A k \in 1 .. l - 1 : Old(k) \in 1 .. l /\ Old(k) # n /\ less[k] = recs[Old(k)]
  BY <1>1, <1>2
<1>6. \A k, m \in 1 .. l - 1 : Old(k) = Old(m) => k = m
  BY <1>1
<1>7. \A m \in 1 .. l : m # n => \E k \in 1 .. l - 1 : Old(k) = m
  <2>1. SUFFICES ASSUME NEW m \in 1 .. l, m # n PROVE \E k \in 1 .. l - 1 : Old(k) = m
    OBVIOUS
  <2>2. CASE m < n
    <3>1. m \in 1 .. l - 1 /\ Old(m) = m
      BY <1>1, <2>2
    <3>2. QED
      BY <3>1
  <2>3. CASE n < m
    <3>1. m - 1 \in 1 .. l - 1 /\ Old(m - 1) = m
      BY <1>1, <2>3
    <3>2. QED
      BY <3>1
  <2>4. QED
    BY <1>1, <2>1, <2>2, <2>3
<1> HIDE DEF Old
<1>8. Roots(e) = {less[k].root : k \in 1 .. l - 1}
  BY <1>2, <1>4 DEF Roots
<1>9. Roots(e) = Roots(d) \ {recs[n].root}
  <2>1. \A x : x \in Roots(e) <=> \E k \in 1 .. l - 1 : x = less[k].root
    BY <1>8
  <2>2. \A x : x \in Roots(d) <=> \E k \in 1 .. l : x = recs[k].root
    BY <1>3
  <2>3. \A x \in Roots(e) : x \in Roots(d) /\ x # recs[n].root
    BY <1>1, <1>3, <1>5, <2>1, <2>2
  <2>4. \A x \in Roots(d) : x # recs[n].root => x \in Roots(e)
    BY <1>5, <1>7, <2>1, <2>2
  <2>5. QED
    BY <2>3, <2>4
<1>10. RootsDiffer(e)
  <2>1. ASSUME NEW k \in 1 .. l - 1, NEW m \in 1 .. l - 1, less[k].root = less[m].root PROVE k = m
    BY <1>3, <1>5, <1>6, <2>1
  <2>2. QED
    BY <1>2, <1>4, <2>1 DEF RootsDiffer
<1>11. QED
  BY <1>9, <1>10 DEF recs

\* What the operations have in common that change a table's schema.
LEMMA StoreArranges ==
  ASSUME Arranged(file, place, declared), NEW t, Exists(t),
         NEW P, NEW h, NEW Q, Step(file, P, h, Q), P \subseteq Roots(declared[t]), Q \subseteq Free(file),
         NEW e \in Schemas, e.root = declared[t].root, Roots(e) = (Roots(declared[t]) \ P) \cup Q, RootsDiffer(e),
         Store(t, h, Stream(e)), declared' = Edited(t, e), place' = place
  PROVE  Arranged(file', place', declared')
<1> DEFINE d == declared[t]
           pl == place[t]
           a == SystemChain(file, pl)
           c == SchemaChain(file, pl)
           w == FileOf(Stream(e))
           g == Written(h, pl.schema, w)
<1>1. t \in DOMAIN place /\ t \in Tables /\ DOMAIN declared = DOMAIN place
  BY DEF Exists, Arranged
<1>2. Holds(file, pl, d, a, c) /\ Owns(file, pl, d) = Pieces(a, c, d)
  BY <1>1 DEF Arranged, Kept, Owns
<1>3. PagesFor(w) - Len(ChainFrom(h.next, pl.schema)) <= Cardinality(Free(h)) /\ file' = g
  BY DEF Store
<1> HIDE DEF a, c
<1>4. \E new \in Seq(Pages) : Holds(g, pl, e, a, new) /\ Step(file, Pieces(a, c, d), g, Pieces(a, new, e))
  BY <1>2, <1>3, TableRewritten
<1>5. PICK new \in Seq(Pages) : Holds(g, pl, e, a, new) /\ Step(file, Pieces(a, c, d), g, Pieces(a, new, e))
  BY <1>4
<1> HIDE DEF g
<1>6. Kept(g, pl, e) /\ Owns(g, pl, e) = Pieces(a, new, e)
  BY <1>5, HoldsIsKept DEF Step
<1>7. declared'[t] = e /\ DOMAIN declared' = DOMAIN place /\ \A u \in DOMAIN place \ {t} : declared'[u] = declared[u]
  BY <1>1 DEF Edited
<1>8. OthersStay(t, place, declared, place', declared')
  BY <1>7 DEF OthersStay
<1> DEFINE PP == Pieces(a, c, d)
           QQ == Pieces(a, new, e)
           pls == place'
           ds == declared'
<1>9. Arranged(g, pls, ds)
  <2>1. PP = IF t \in DOMAIN place THEN Owns(file, place[t], declared[t]) ELSE {}
    BY <1>1, <1>2
  <2>2. Step(file, PP, g, QQ)
    BY <1>5
  <2>3. t \in DOMAIN pls /\ Kept(g, pls[t], ds[t]) /\ QQ = Owns(g, pls[t], ds[t])
    BY <1>1, <1>6, <1>7
  <2>4. OthersStay(t, place, declared, pls, ds)
    BY <1>8
  <2> HIDE DEF PP, QQ, pls, ds
  <2>5. QED
    BY <1>1, <2>1, <2>2, <2>3, <2>4, ArrangedAfter
<1>10. QED
  BY <1>3, <1>9

-----------------------------------------------------------------------------
(* The ids.                                                                *)

Recs == (ColumnRecs \cup IndexRecs) \cup RuleRecs

LEMMA RecordsHaveIDs ==
  /\ \A r \in Recs : r.id \in Int
  /\ \A d \in Schemas : \A f \in Numbering : d[f] \in Seq(Recs) /\ DOMAIN d[f] = 1 .. Len(d[f]) /\ Len(d[f]) \in Nat
                                             /\ \A i \in 1 .. Len(d[f]) : d[f][i] \in Recs /\ d[f][i].id \in Int
<1>1. \A r \in Recs : r.id \in Int
  BY DEF Recs, ColumnRecs, IndexRecs, RuleRecs, KeyRecs, NotNullRecs, CheckRecs
<1>2. ASSUME NEW d \in Schemas, NEW f \in Numbering PROVE d[f] \in Seq(Recs)
  <2>1. d.columns \in Seq(ColumnRecs) /\ d.indexes \in Seq(IndexRecs) /\ d.constraints \in Seq(RuleRecs)
    BY DEF Schemas
  <2>2. ColumnRecs \subseteq Recs /\ IndexRecs \subseteq Recs /\ RuleRecs \subseteq Recs
    BY DEF Recs
  <2>3. d.columns \in Seq(Recs) /\ d.indexes \in Seq(Recs) /\ d.constraints \in Seq(Recs)
    BY ONLY <2>1, <2>2
  <2>4. QED
    BY <2>3 DEF Numbering
<1> HIDE DEF Recs
<1>3. QED
  BY <1>1, <1>2

\* No two records of a schema have one id, and none has one behind the last.
UniqueIn(d, last) ==
  \A f, g \in Numbering : \A i \in DOMAIN d[f], j \in DOMAIN d[g] :
    d[f][i].id <= last /\ (d[f][i].id = d[g][j].id => f = g /\ i = j)

\* Every id of e is one d has or a new one.
FreshOrFrom(d, e, last) ==
  \A f \in Numbering : \A i \in DOMAIN e[f] :
    e[f][i].id > last \/ \E k \in DOMAIN d[f] : e[f][i].id = d[f][k].id

LEMMA IDsWithMore ==
  ASSUME NEW d \in Schemas, NEW last \in Nat, UniqueIn(d, last), NEW e, NEW h \in Numbering,
         \A f \in Numbering : f # h => e[f] = d[f], NEW r \in Recs, r.id = last + 1, e[h] = Append(d[h], r)
  PROVE  UniqueIn(e, last + 1) /\ FreshOrFrom(d, e, last)
<1> DEFINE l == Len(d[h])
<1>1. \A f \in Numbering : d[f] \in Seq(Recs) /\ DOMAIN d[f] = 1 .. Len(d[f]) /\ Len(d[f]) \in Nat
                           /\ \A i \in 1 .. Len(d[f]) : d[f][i].id \in Int
  BY RecordsHaveIDs
<1>2. DOMAIN e[h] = 1 .. l + 1 /\ (\A i \in 1 .. l : e[h][i] = d[h][i]) /\ e[h][l + 1] = r /\ l \in Nat
      /\ DOMAIN d[h] = 1 .. l
  <2>1. d[h] \in Seq(Recs)
    BY <1>1
  <2>2. QED
    BY <1>1, <2>1, AppendLaws
<1>3. ASSUME NEW f \in Numbering, NEW i \in DOMAIN e[f]
      PROVE  \/ f = h /\ i = l + 1 /\ e[f][i].id = last + 1
             \/ i \in DOMAIN d[f] /\ e[f][i].id = d[f][i].id
  <2>1. CASE f = h
    <3>1. i = l + 1 \/ i \in 1 .. l
      BY <1>2, <2>1
    <3>2. QED
      BY <1>2, <2>1, <3>1
  <2>2. CASE f # h
    BY <2>2
  <2>3. QED
    BY <2>1, <2>2
<1>4. ASSUME NEW f \in Numbering, NEW i \in DOMAIN d[f] PROVE d[f][i].id \in Int /\ d[f][i].id <= last
  BY <1>1 DEF UniqueIn
<1>5. UniqueIn(e, last + 1)
  <2>1. SUFFICES ASSUME NEW f \in Numbering, NEW g \in Numbering, NEW i \in DOMAIN e[f], NEW j \in DOMAIN e[g]
                 PROVE  e[f][i].id <= last + 1 /\ (e[f][i].id = e[g][j].id => f = g /\ i = j)
    BY DEF UniqueIn
  <2>2. e[f][i].id <= last + 1
    BY <1>3, <1>4
  <2>3. ASSUME e[f][i].id = e[g][j].id PROVE f = g /\ i = j
    <3>1. CASE f = h /\ i = l + 1 /\ e[f][i].id = last + 1
      <4>1. ~(j \in DOMAIN d[g] /\ e[g][j].id = d[g][j].id)
        BY <1>4, <2>3, <3>1
      <4>2. QED
        BY <1>3, <3>1, <4>1
    <3>2. CASE i \in DOMAIN d[f] /\ e[f][i].id = d[f][i].id
      <4>1. d[f][i].id \in Int /\ d[f][i].id <= last /\ last \in Nat
        BY <1>4, <3>2
      <4>2. e[g][j].id # last + 1
        BY ONLY <2>3, <3>2, <4>1
      <4>3. j \in DOMAIN d[g] /\ e[g][j].id = d[g][j].id
        BY <1>3, <4>2
      <4>4. d[f][i].id = d[g][j].id
        BY <2>3, <3>2, <4>3
      <4>5. UniqueIn(d, last) /\ f \in Numbering /\ g \in Numbering /\ i \in DOMAIN d[f] /\ j \in DOMAIN d[g]
        BY <3>2, <4>3
      <4>6. QED
        BY ONLY <4>4, <4>5 DEF UniqueIn
    <3>3. QED
      BY <1>3, <3>1, <3>2
  <2>4. QED
    BY <2>2, <2>3
<1>6. FreshOrFrom(d, e, last)
  <2>1. SUFFICES ASSUME NEW f \in Numbering, NEW i \in DOMAIN e[f]
                 PROVE  e[f][i].id > last \/ \E k \in DOMAIN d[f] : e[f][i].id = d[f][k].id
    BY DEF FreshOrFrom
  <2>2. QED
    BY <1>3
<1>7. QED
  BY <1>5, <1>6

LEMMA IDsWithLess ==
  ASSUME NEW d \in Schemas, NEW last \in Nat, UniqueIn(d, last), NEW e, NEW h \in Numbering,
         \A f \in Numbering : f # h => e[f] = d[f], NEW n \in DOMAIN d[h], e[h] = RemoveAt(d[h], n)
  PROVE  UniqueIn(e, last) /\ FreshOrFrom(d, e, last)
<1> DEFINE l == Len(d[h])
           Old(f, i) == IF f = h /\ ~(i < n) THEN i + 1 ELSE i
<1>1. \A f \in Numbering : d[f] \in Seq(Recs) /\ DOMAIN d[f] = 1 .. Len(d[f]) /\ Len(d[f]) \in Nat
  BY RecordsHaveIDs
<1>2. DOMAIN e[h] = 1 .. l - 1 /\ (\A i \in 1 .. l - 1 : e[h][i] = IF i < n THEN d[h][i] ELSE d[h][i + 1])
      /\ l \in Nat /\ DOMAIN d[h] = 1 .. l /\ n \in 1 .. l
  <2>1. d[h] \in Seq(Recs)
    BY <1>1
  <2>2. QED
    BY <1>1, <2>1, RemoveAtLaws
<1> HIDE DEF l
<1>3. ASSUME NEW f \in Numbering, NEW i \in DOMAIN e[f]
      PROVE  Old(f, i) \in DOMAIN d[f] /\ e[f][i] = d[f][Old(f, i)] /\ i \in Int
  <2>1. CASE f = h
    <3>1. i \in 1 .. l - 1
      BY <1>2, <2>1
    <3>2. Old(f, i) \in 1 .. l
      BY <1>2, <3>1
    <3>3. QED
      BY <1>2, <2>1, <3>1, <3>2
  <2>2. CASE f # h
    BY <1>1, <2>2
  <2>3. QED
    BY <2>1, <2>2
<1>4. ASSUME NEW f \in Numbering, NEW i \in Int, NEW j \in Int, Old(f, i) = Old(f, j) PROVE i = j
  BY <1>2, <1>4
<1> HIDE DEF Old
<1>5. UniqueIn(e, last)
  <2>1. SUFFICES ASSUME NEW f \in Numbering, NEW g \in Numbering, NEW i \in DOMAIN e[f], NEW j \in DOMAIN e[g]
                 PROVE  e[f][i].id <= last /\ (e[f][i].id = e[g][j].id => f = g /\ i = j)
    BY DEF UniqueIn
  <2>2. e[f][i].id <= last
    BY <1>3 DEF UniqueIn
  <2>3. ASSUME e[f][i].id = e[g][j].id PROVE f = g /\ i = j
    <3>1. f = g /\ Old(f, i) = Old(g, j)
      BY <1>3, <2>3 DEF UniqueIn
    <3>2. QED
      BY <1>3, <1>4, <3>1
  <2>4. QED
    BY <2>2, <2>3
<1>6. FreshOrFrom(d, e, last)
  BY <1>3 DEF FreshOrFrom
<1>7. QED
  BY <1>5, <1>6

\* The invariant of the ids for other variables.
IDsUnique(ds, last) ==
  \A t, u \in DOMAIN ds : \A f, g \in Numbering :
    \A i \in DOMAIN ds[t][f], j \in DOMAIN ds[u][g] :
      ds[t][f][i].id <= last /\ (ds[t][f][i].id = ds[u][g][j].id => t = u /\ f = g /\ i = j)

Fresh(e, last) == \A f \in Numbering : \A i \in DOMAIN e[f] : e[f][i].id > last

\* The ids of all tables, after one of them has changed.
LEMMA IDsAfter ==
  ASSUME NEW ds, NEW nds, NEW last \in Nat, NEW new \in Nat, last <= new,
         \A u \in DOMAIN ds : ds[u] \in Schemas, IDsUnique(ds, last),
         NEW t, \A u \in DOMAIN nds : u # t => u \in DOMAIN ds /\ nds[u] = ds[u],
         t \in DOMAIN nds => /\ nds[t] \in Schemas /\ UniqueIn(nds[t], new)
                             /\ Fresh(nds[t], last) \/ (t \in DOMAIN ds /\ FreshOrFrom(ds[t], nds[t], last))
  PROVE  IDsUnique(nds, new)
<1>0. /\ \A u, v \in DOMAIN ds : \A f, g \in Numbering : \A i \in DOMAIN ds[u][f], j \in DOMAIN ds[v][g] :
           ds[u][f][i].id <= last /\ (ds[u][f][i].id = ds[v][g][j].id => u = v /\ f = g /\ i = j)
      /\ t \in DOMAIN nds => /\ nds[t] \in Schemas /\ UniqueIn(nds[t], new)
                              /\ \A f \in Numbering : \A i \in DOMAIN nds[t][f] :
                                   \/ nds[t][f][i].id > last
                                   \/ t \in DOMAIN ds /\ \E k \in DOMAIN ds[t][f] : nds[t][f][i].id = ds[t][f][k].id
  BY DEF IDsUnique, Fresh, FreshOrFrom
<1>1. ASSUME NEW u \in DOMAIN nds, u # t, NEW f \in Numbering, NEW i \in DOMAIN nds[u][f]
      PROVE  /\ u \in DOMAIN ds /\ nds[u] = ds[u] /\ i \in DOMAIN ds[u][f]
             /\ nds[u][f][i].id \in Int /\ nds[u][f][i].id <= last
  BY <1>0, <1>1, RecordsHaveIDs
<1>2. ASSUME t \in DOMAIN nds, NEW f \in Numbering, NEW i \in DOMAIN nds[t][f]
      PROVE  /\ nds[t][f][i].id \in Int /\ nds[t][f][i].id <= new
             /\ \/ nds[t][f][i].id > last
                \/ (t \in DOMAIN ds /\ \E k \in DOMAIN ds[t][f] : nds[t][f][i].id = ds[t][f][k].id)
  BY <1>0, <1>2, RecordsHaveIDs DEF UniqueIn
<1>3. ASSUME NEW u \in DOMAIN nds, u # t, NEW f \in Numbering, NEW i \in DOMAIN nds[u][f],
             t \in DOMAIN nds, NEW g \in Numbering, NEW j \in DOMAIN nds[t][g]
      PROVE  nds[u][f][i].id # nds[t][g][j].id
  <2>1. SUFFICES ASSUME nds[u][f][i].id = nds[t][g][j].id PROVE FALSE
    OBVIOUS
  <2>2. nds[u][f][i].id \in Int /\ nds[u][f][i].id <= last /\ u \in DOMAIN ds /\ nds[u] = ds[u] /\ i \in DOMAIN ds[u][f]
    BY <1>1, <1>3
  <2>3. PICK k \in DOMAIN ds[t][g] : t \in DOMAIN ds /\ nds[t][g][j].id = ds[t][g][k].id
    BY <1>2, <1>3, <2>1, <2>2
  <2>4. QED
    BY <1>0, <1>3, <2>1, <2>2, <2>3
<1>4. SUFFICES ASSUME NEW u \in DOMAIN nds, NEW v \in DOMAIN nds, NEW f \in Numbering, NEW g \in Numbering,
                      NEW i \in DOMAIN nds[u][f], NEW j \in DOMAIN nds[v][g]
               PROVE  nds[u][f][i].id <= new /\ (nds[u][f][i].id = nds[v][g][j].id => u = v /\ f = g /\ i = j)
  BY DEF IDsUnique
<1>5. nds[u][f][i].id <= new
  <2>1. nds[u][f][i].id \in Int /\ (nds[u][f][i].id <= last \/ nds[u][f][i].id <= new)
    BY <1>1, <1>2
  <2>2. QED
    BY <2>1
<1>6. ASSUME nds[u][f][i].id = nds[v][g][j].id PROVE u = v /\ f = g /\ i = j
  <2>1. CASE u # t /\ v # t
    BY <1>0, <1>1, <1>6, <2>1
  <2>2. CASE u = t /\ v = t
    BY <1>0, <1>6, <2>2 DEF UniqueIn
  <2>3. CASE (u = t /\ v # t) \/ (u # t /\ v = t)
    BY <1>3, <1>6, <2>3
  <2>4. QED
    BY <2>1, <2>2, <2>3
<1>7. QED
  BY <1>5, <1>6

LEMMA OwnIDsUnique ==
  ASSUME IDsAreUnique, NEW t \in DOMAIN declared
  PROVE  UniqueIn(declared[t], lastObjectID)
BY DEF IDsAreUnique, UniqueIn

\* Every operation on a table's schema but DROP TABLE keeps the invariant.
LEMMA StoreKeeps ==
  ASSUME IInv, EditsLeft, NEW t, Exists(t),
         NEW P, NEW h, NEW Q, Step(file, P, h, Q), P \subseteq Roots(declared[t]), Q \subseteq Free(file),
         NEW e \in Schemas, e.root = declared[t].root, Roots(e) = (Roots(declared[t]) \ P) \cup Q, RootsDiffer(e),
         Store(t, h, Stream(e)), declared' = Edited(t, e), place' = place,
         lastObjectID' \in Nat, lastObjectID <= lastObjectID',
         UniqueIn(e, lastObjectID'), FreshOrFrom(declared[t], e, lastObjectID)
  PROVE  IInv'
<1>1. Arranged(file, place, declared) /\ IDsUnique(declared, lastObjectID) /\ lastObjectID \in Nat
  BY DEF IInv, IDsAreUnique, IDsUnique
<1>2. Arranged(file', place', declared')
  BY <1>1, StoreArranges
<1>3. t \in DOMAIN declared /\ DOMAIN declared = DOMAIN place
      /\ \A u \in DOMAIN declared : declared[u] \in Schemas
  BY <1>1 DEF Arranged, Exists, Kept, Holds
<1>4. DOMAIN declared' = DOMAIN declared /\ declared'[t] = e
      /\ \A u \in DOMAIN declared : u # t => declared'[u] = declared[u]
  BY <1>3 DEF Edited
<1> DEFINE ds == declared
           nds == declared'
           last == lastObjectID
           new == lastObjectID'
<1>5. IDsUnique(nds, new)
  <2>1. last \in Nat /\ IDsUnique(ds, last) /\ (\A u \in DOMAIN ds : ds[u] \in Schemas)
        /\ new \in Nat /\ last <= new /\ (\A u \in DOMAIN nds : u # t => u \in DOMAIN ds /\ nds[u] = ds[u])
        /\ (t \in DOMAIN nds => /\ nds[t] \in Schemas /\ UniqueIn(nds[t], new)
                                /\ Fresh(nds[t], last) \/ (t \in DOMAIN ds /\ FreshOrFrom(ds[t], nds[t], last)))
    BY <1>1, <1>3, <1>4
  <2> HIDE DEF ds, nds, last, new
  <2>2. QED
    BY ONLY <2>1, IDsAfter
<1>6. edits' \in 0 .. MaxEdits
  BY SchemaStreamAssumption DEF IInv, EditsLeft
<1>7. QED
  BY <1>2, <1>5, <1>6 DEF IInv, IDsAreUnique, IDsUnique

\* What an operation that reads a table's stream knows of the table.
LEMMA TableIsRead ==
  ASSUME IInv, NEW t, Exists(t), Readable(t)
  PROVE  /\ declared[t] \in Schemas /\ StreamOf(t) = Stream(declared[t])
         /\ Columns(StreamOf(t)).val = declared[t].columns /\ Indexes(StreamOf(t)).val = declared[t].indexes
         /\ KeyRules(StreamOf(t)).val = declared[t].constraints
         /\ Meaning(StreamOf(t)).root = declared[t].root
         /\ file \in Files /\ lastObjectID \in Nat /\ t \in Tables
         /\ RootsDiffer(declared[t]) /\ Roots(declared[t]) \subseteq file.allocated
         /\ UniqueIn(declared[t], lastObjectID)
<1>1. Arranged(file, place, declared) /\ IDsAreUnique /\ lastObjectID \in Nat
  BY DEF IInv
<1>2. t \in DOMAIN place /\ t \in DOMAIN declared /\ t \in Tables /\ file \in Files /\ Kept(file, place[t], declared[t])
  BY <1>1 DEF Arranged, Exists
<1>3. RootsDiffer(declared[t]) /\ Roots(declared[t]) \subseteq file.allocated
  BY <1>2 DEF Kept, Holds, Apart, Pieces
<1>4. UniqueIn(declared[t], lastObjectID)
  BY <1>1, <1>2, OwnIDsUnique
<1>5. QED
  BY <1>1, <1>2, <1>3, <1>4, ReadableStreams

-----------------------------------------------------------------------------
(* The operations.                                                         *)

LEMMA EditedSchemas ==
  ASSUME NEW d \in Schemas, NEW x
  PROVE  [d EXCEPT !.columns = x] = WithColumns(d, x) /\ [d EXCEPT !.indexes = x] = WithIndexes(d, x)
<1>1. d = [columns |-> d.columns, indexes |-> d.indexes, constraints |-> d.constraints, root |-> d.root]
  BY DEF Schemas
<1>2. [d EXCEPT !.columns = x] = [columns |-> x, indexes |-> d.indexes, constraints |-> d.constraints, root |-> d.root]
  BY <1>1
<1>3. [d EXCEPT !.indexes = x] = [columns |-> d.columns, indexes |-> x, constraints |-> d.constraints, root |-> d.root]
  BY <1>1
<1>4. QED
  BY <1>2, <1>3 DEF WithColumns, WithIndexes

LEMMA AddColumnKeeps ==
  ASSUME IInv, NEW t \in Tables, NEW name \in ColumnNames, AddColumn(t, name)
  PROVE  IInv'
<1> DEFINE d == declared[t]
           col == [name |-> name, id |-> lastObjectID + 1]
           e == WithColumns(d, Append(d.columns, col))
<1>1. /\ EditsLeft /\ Exists(t) /\ Readable(t)
      /\ Store(t, file, ColumnSpliced(StreamOf(t), col))
      /\ declared' = Edited(t, [declared[t] EXCEPT !.columns = Append(@, col)])
      /\ lastObjectID' = lastObjectID + 1 /\ place' = place
  BY DEF AddColumn, ColumnSpliced
<1>2. d \in Schemas /\ StreamOf(t) = Stream(d) /\ file \in Files /\ lastObjectID \in Nat
      /\ RootsDiffer(d) /\ UniqueIn(d, lastObjectID)
  BY <1>1, TableIsRead
<1>3. col \in ColumnRecs /\ col \in Recs /\ col.id = lastObjectID + 1
  BY <1>2 DEF ColumnRecs, Recs
<1> HIDE DEF col
<1>4. d.columns \in Seq(ColumnRecs)
  BY <1>2 DEF Schemas
<1>5. Append(d.columns, col) \in Seq(ColumnRecs)
  BY <1>3, <1>4
<1>6. e \in Schemas
  BY <1>2, <1>5, ChangedSchemas
<1>7. [declared[t] EXCEPT !.columns = Append(@, col)] = e
  BY <1>2, EditedSchemas
<1>8. Store(t, file, Stream(e))
  BY <1>1, <1>2, <1>3, ColumnAdded
<1>9. e.root = d.root /\ e.indexes = d.indexes /\ e.constraints = d.constraints /\ e.columns = Append(d.columns, col)
  BY DEF WithColumns
<1>10. Roots(e) = (Roots(d) \ {}) \cup {} /\ RootsDiffer(e)
  BY <1>2, <1>9 DEF Roots, RootsDiffer
<1>11. UniqueIn(e, lastObjectID + 1) /\ FreshOrFrom(d, e, lastObjectID)
  <2> DEFINE h == "columns"
  <2>1. h \in Numbering /\ (\A f \in Numbering : f # h => e[f] = d[f]) /\ e[h] = Append(d[h], col)
    BY <1>9 DEF Numbering
  <2> HIDE DEF e, d, h
  <2>2. QED
    BY <1>2, <1>3, <2>1, IDsWithMore
<1> HIDE DEF e
<1>12. Step(file, {}, file, {}) /\ lastObjectID <= lastObjectID + 1 /\ lastObjectID + 1 \in Nat
  BY <1>2, StepsWithoutChange
<1>13. QED
  <2> DEFINE N == {}
  <2>1. /\ Step(file, N, file, N) /\ N \subseteq Roots(declared[t]) /\ N \subseteq Free(file)
        /\ e.root = declared[t].root /\ Roots(e) = (Roots(declared[t]) \ N) \cup N
        /\ declared' = Edited(t, e) /\ place' = place
        /\ lastObjectID' \in Nat /\ lastObjectID <= lastObjectID'
        /\ UniqueIn(e, lastObjectID') /\ FreshOrFrom(declared[t], e, lastObjectID)
    BY <1>1, <1>7, <1>9, <1>10, <1>11, <1>12
  <2> HIDE DEF N
  <2>2. QED
    BY <1>1, <1>6, <1>8, <1>10, <2>1, StoreKeeps

LEMMA DropColumnKeeps ==
  ASSUME IInv, NEW t \in Tables, NEW name \in ColumnNames, DropColumn(t, name)
  PROVE  IInv'
<1> DEFINE d == declared[t]
           s == StreamOf(t)
           n == Place(d.columns, name)
           e == WithColumns(d, RemoveAt(d.columns, n))
<1>1. /\ EditsLeft /\ Exists(t) /\ Readable(t)
      /\ name \in Names(Columns(s).val)
      /\ Store(t, file, Cut(s, 1, Span(ParseColumnDef, s, 1, Place(Columns(s).val, name))))
      /\ declared' = Edited(t, [declared[t] EXCEPT !.columns = Without(@, name)])
      /\ lastObjectID' = lastObjectID /\ place' = place
  BY DEF DropColumn
<1>2. /\ d \in Schemas /\ s = Stream(d) /\ file \in Files /\ lastObjectID \in Nat
      /\ RootsDiffer(d) /\ UniqueIn(d, lastObjectID) /\ Columns(s).val = d.columns
  BY <1>1, TableIsRead
<1> HIDE DEF s
<1>3. d.columns \in Seq(ColumnRecs) /\ name \in Names(d.columns)
  BY <1>1, <1>2 DEF Schemas
<1>4. n \in DOMAIN d.columns /\ n \in 1 .. Len(d.columns)
  BY <1>3, PlaceLaws
<1>5. RemoveAt(d.columns, n) \in Seq(ColumnRecs) /\ Without(d.columns, name) = RemoveAt(d.columns, n)
  BY <1>3, <1>4, RemoveAtLaws DEF Without
<1> HIDE DEF n
<1>6. e \in Schemas
  BY <1>2, <1>5, ChangedSchemas
<1>7. [declared[t] EXCEPT !.columns = Without(@, name)] = e
  BY <1>2, <1>5, EditedSchemas
<1>8. Cut(Stream(d), 1, Span(ParseColumnDef, Stream(d), 1, n)) = Stream(e)
  BY <1>2, <1>4, ColumnDropped
<1>9. Store(t, file, Stream(e))
  BY <1>1, <1>2, <1>8 DEF n
<1>10. e.root = d.root /\ e.indexes = d.indexes /\ e.constraints = d.constraints /\ e.columns = RemoveAt(d.columns, n)
  BY DEF WithColumns
<1>11. Roots(e) = (Roots(d) \ {}) \cup {} /\ RootsDiffer(e)
  BY <1>2, <1>10 DEF Roots, RootsDiffer
<1>12. UniqueIn(e, lastObjectID) /\ FreshOrFrom(d, e, lastObjectID)
  <2> DEFINE h == "columns"
  <2>1. h \in Numbering /\ (\A f \in Numbering : f # h => e[f] = d[f]) /\ e[h] = RemoveAt(d[h], n) /\ n \in DOMAIN d[h]
    BY <1>4, <1>10 DEF Numbering
  <2> HIDE DEF e, d, h
  <2>2. QED
    BY <1>2, <2>1, IDsWithLess
<1> HIDE DEF e
<1>13. Step(file, {}, file, {}) /\ lastObjectID <= lastObjectID
  BY <1>2, StepsWithoutChange
<1>14. QED
  <2> DEFINE N == {}
  <2>1. /\ Step(file, N, file, N) /\ N \subseteq Roots(declared[t]) /\ N \subseteq Free(file)
        /\ e.root = declared[t].root /\ Roots(e) = (Roots(declared[t]) \ N) \cup N
        /\ declared' = Edited(t, e) /\ place' = place
        /\ lastObjectID' \in Nat /\ lastObjectID <= lastObjectID'
        /\ UniqueIn(e, lastObjectID') /\ FreshOrFrom(declared[t], e, lastObjectID)
    BY <1>1, <1>2, <1>7, <1>10, <1>11, <1>12, <1>13
  <2> HIDE DEF N
  <2>2. QED
    BY <1>1, <1>6, <1>9, <1>11, <2>1, StoreKeeps

LEMMA DropIndexKeeps ==
  ASSUME IInv, NEW t \in Tables, NEW name \in IndexNames, DropIndex(t, name)
  PROVE  IInv'
<1> DEFINE d == declared[t]
           s == StreamOf(t)
           n == Place(d.indexes, name)
           e == WithIndexes(d, RemoveAt(d.indexes, n))
           P == {d.indexes[n].root}
           g == Released(file, P)
<1>1. /\ EditsLeft /\ Exists(t) /\ Readable(t)
      /\ name \in Names(Indexes(s).val)
      /\ Store(t, Released(file, {Indexes(s).val[Place(Indexes(s).val, name)].root}),
               Cut(s, Columns(s).pos, Span(ParseIndexRecord, s, Columns(s).pos, Place(Indexes(s).val, name))))
      /\ declared' = Edited(t, [declared[t] EXCEPT !.indexes = Without(@, name)])
      /\ lastObjectID' = lastObjectID /\ place' = place
  BY DEF DropIndex
<1>2. /\ d \in Schemas /\ s = Stream(d) /\ file \in Files /\ lastObjectID \in Nat
      /\ RootsDiffer(d) /\ Roots(d) \subseteq file.allocated
      /\ UniqueIn(d, lastObjectID) /\ Indexes(s).val = d.indexes
  BY <1>1, TableIsRead
<1> HIDE DEF s
<1>3. d.indexes \in Seq(IndexRecs) /\ name \in Names(d.indexes)
  BY <1>1, <1>2 DEF Schemas
<1>4. n \in DOMAIN d.indexes /\ n \in 1 .. Len(d.indexes)
  BY <1>3, PlaceLaws
<1>5. RemoveAt(d.indexes, n) \in Seq(IndexRecs) /\ Without(d.indexes, name) = RemoveAt(d.indexes, n)
  BY <1>3, <1>4, RemoveAtLaws DEF Without
<1>6. /\ Store(t, g, Cut(Stream(d), Columns(Stream(d)).pos,
                         Span(ParseIndexRecord, Stream(d), Columns(Stream(d)).pos, n)))
  BY <1>1, <1>2
<1> HIDE DEF n
<1>7. e \in Schemas
  BY <1>2, <1>5, ChangedSchemas
<1>8. [declared[t] EXCEPT !.indexes = Without(@, name)] = e
  BY <1>2, <1>5, EditedSchemas
<1>9. Cut(Stream(d), Columns(Stream(d)).pos, Span(ParseIndexRecord, Stream(d), Columns(Stream(d)).pos, n)) = Stream(e)
  BY <1>2, <1>4, IndexDropped
<1>10. Store(t, g, Stream(e))
  BY <1>6, <1>9
<1>11. e.root = d.root /\ e.columns = d.columns /\ e.constraints = d.constraints /\ e.indexes = RemoveAt(d.indexes, n)
  BY DEF WithIndexes
<1>12. Roots(e) = Roots(d) \ P /\ RootsDiffer(e) /\ P \subseteq Roots(d)
  <2>1. P \subseteq Roots(d)
    BY <1>4 DEF Roots
  <2> HIDE DEF e
  <2>2. QED
    BY <1>2, <1>4, <1>11, <2>1, RootsWithLess
<1>13. UniqueIn(e, lastObjectID) /\ FreshOrFrom(d, e, lastObjectID)
  <2> DEFINE h == "indexes"
  <2>1. h \in Numbering /\ (\A f \in Numbering : f # h => e[f] = d[f]) /\ e[h] = RemoveAt(d[h], n) /\ n \in DOMAIN d[h]
    BY <1>4, <1>11 DEF Numbering
  <2> HIDE DEF e, d, h
  <2>2. QED
    BY <1>2, <2>1, IDsWithLess
<1> HIDE DEF e, P
<1>14. Step(file, P, g, {}) /\ lastObjectID <= lastObjectID
  BY <1>2, <1>12, ReleasedLaws
<1> HIDE DEF g
<1>15. QED
  <2> DEFINE N == {}
  <2>1. /\ Step(file, P, g, N) /\ P \subseteq Roots(declared[t]) /\ N \subseteq Free(file)
        /\ e.root = declared[t].root /\ Roots(e) = (Roots(declared[t]) \ P) \cup N
        /\ declared' = Edited(t, e) /\ place' = place
        /\ lastObjectID' \in Nat /\ lastObjectID <= lastObjectID'
        /\ UniqueIn(e, lastObjectID') /\ FreshOrFrom(declared[t], e, lastObjectID)
    BY <1>1, <1>2, <1>8, <1>11, <1>12, <1>13, <1>14
  <2> HIDE DEF N
  <2>2. QED
    BY <1>1, <1>7, <1>10, <1>12, <2>1, StoreKeeps

LEMMA FreshComposes ==
  ASSUME NEW d, NEW m, NEW e \in Schemas, NEW last \in Int, FreshOrFrom(d, m, last), FreshOrFrom(m, e, last + 1)
  PROVE  FreshOrFrom(d, e, last)
<1>1. SUFFICES ASSUME NEW f \in Numbering, NEW i \in DOMAIN e[f]
               PROVE  e[f][i].id > last \/ \E k \in DOMAIN d[f] : e[f][i].id = d[f][k].id
  BY DEF FreshOrFrom
<1>2. e[f][i].id \in Int
  BY RecordsHaveIDs
<1>3. e[f][i].id > last + 1 \/ \E k \in DOMAIN m[f] : e[f][i].id = m[f][k].id
  BY DEF FreshOrFrom
<1>4. CASE e[f][i].id > last + 1
  BY <1>2, <1>4
<1>5. CASE \E k \in DOMAIN m[f] : e[f][i].id = m[f][k].id
  <2>1. PICK k \in DOMAIN m[f] : e[f][i].id = m[f][k].id
    BY <1>5
  <2>2. m[f][k].id > last \/ \E j \in DOMAIN d[f] : m[f][k].id = d[f][j].id
    BY DEF FreshOrFrom
  <2>3. QED
    BY <2>1, <2>2
<1>6. QED
  BY <1>3, <1>4, <1>5

\* The page a new index takes.
LEMMA RootIsFree ==
  ASSUME NEW f \in Files, Free(f) # {}
  PROVE  LET root == Lowest(1, Free(f))[1]
         IN  root \in Free(f) /\ root \in Pages /\ Step(f, {}, Taken(f, 1), {root})
<1> DEFINE l == Lowest(1, Free(f))
<1>1. Free(f) \in SUBSET Pages
  BY DEF Free
<1>2. 1 <= Cardinality(Free(f))
  <2>1. IsFiniteSet(Free(f))
    BY <1>1, SchemaStreamAssumption, FS_Subset
  <2>2. Cardinality(Free(f)) \in Nat /\ Cardinality(Free(f)) # 0
    BY <2>1, FS_EmptySet, FS_CardinalityType
  <2>3. QED
    BY <2>2
<1>3. l \in [1 .. 1 -> Free(f)] /\ DOMAIN l = 1 .. 1
  BY <1>1, <1>2, LowestLaws
<1>4. Step(f, {}, Taken(f, 1), ToSet(l))
  BY <1>2, TakenLaws
<1> HIDE DEF l
<1>5. ToSet(l) = {l[1]} /\ l[1] \in Free(f)
  BY <1>3 DEF ToSet
<1>6. QED
  BY <1>1, <1>4, <1>5 DEF l

\* The records CREATE INDEX writes.
LEMMA NewRecordsTyped ==
  ASSUME lastObjectID \in Nat, NEW name \in IndexNames, NEW columns \in Lists(ColumnNames), NEW unique \in BOOLEAN,
         NEW nocase \in BOOLEAN, NEW root \in Pages
  PROVE  /\ NewIndex(name, columns, unique, nocase, root) \in IndexRecs
         /\ NewIndex(name, columns, unique, nocase, root).root = root
         /\ NewIndex(name, columns, unique, nocase, root).id = lastObjectID + 1
         /\ \A column \in ColumnRecs : /\ NewUnique(name, column) \in RuleRecs
                                       /\ NewUnique(name, column).id = lastObjectID + 2
         /\ columns[1] \in ToSet(columns)
<1>1. columns \in Seq(ColumnNames) /\ columns # <<>> /\ columns[1] \in ToSet(columns)
  <2>1. CASE \E x \in ColumnNames : columns = <<x>>
    BY <2>1 DEF ToSet
  <2>2. CASE \E x, y \in ColumnNames : columns = <<x, y>>
    BY <2>2 DEF ToSet
  <2>3. QED
    BY <2>1, <2>2 DEF Lists
<1>2. NewIndex(name, columns, unique, nocase, root) \in IndexRecs
  <2>1. Ascending(columns, nocase) \in Seq(IndexedRecs) \ {<<>>}
    BY <1>1, AscendingTyped DEF NameLists
  <2>2. QED
    BY <2>1 DEF NewIndex, IndexRecs
<1>3. ASSUME NEW column \in ColumnRecs PROVE NewUnique(name, column) \in RuleRecs
  <2>1. <<[id |-> column.id, name |-> column.name]>> \in Seq(ColumnRecs)
    BY DEF ColumnRecs
  <2>2. column.name \in ColumnNames
    BY DEF ColumnRecs
  <2>3. NewUnique(name, column) \in KeyRecs
    BY <2>1, <2>2 DEF NewUnique, KeyRecs, KeyKinds
  <2>4. QED
    BY <2>3 DEF RuleRecs
<1>4. QED
  BY <1>1, <1>2, <1>3 DEF NewIndex, NewUnique

LEMMA CreateIndexKeeps ==
  ASSUME IInv, NEW t \in Tables, NEW name \in IndexNames, NEW columns \in Lists(ColumnNames), NEW unique \in BOOLEAN,
         NEW nocase \in BOOLEAN, CreateIndex(t, name, columns, unique, nocase)
  PROVE  IInv'
<1> DEFINE d == declared[t]
           s == StreamOf(t)
           root == Lowest(1, Free(file))[1]
           i == NewIndex(name, columns, unique, nocase, root)
           k == NewUnique(name, Called(d.columns, columns[1]))
           g == Taken(file, 1)
           m == WithIndexes(d, Append(d.indexes, i))
           e == IF unique THEN WithRules(m, Append(d.constraints, k)) ELSE m
           last == lastObjectID
           new == lastObjectID'
<1>1. /\ EditsLeft /\ Exists(t) /\ Readable(t) /\ Free(file) # {}
      /\ ToSet(columns) \subseteq Names(Columns(s).val)
      /\ Store(t, g, SplicedIndex(s, IndexRecord(i),
                                  IF unique THEN ConstraintRecord(NewUnique(name, Called(Columns(s).val, columns[1])))
                                  ELSE <<>>))
      /\ declared' = Edited(t, [columns |-> declared[t].columns, indexes |-> Append(declared[t].indexes, i),
                                constraints |-> IF unique THEN Append(declared[t].constraints,
                                                                      NewUnique(name, Called(Columns(s).val, columns[1])))
                                                ELSE declared[t].constraints,
                                root |-> declared[t].root])
      /\ lastObjectID' = lastObjectID + (IF unique THEN 2 ELSE 1) /\ place' = place
  BY DEF CreateIndex
<1>2. /\ d \in Schemas /\ s = Stream(d) /\ file \in Files /\ lastObjectID \in Nat
      /\ RootsDiffer(d) /\ Roots(d) \subseteq file.allocated
      /\ UniqueIn(d, lastObjectID) /\ Columns(s).val = d.columns
  BY <1>1, TableIsRead
<1> HIDE DEF s
<1>3. root \in Free(file) /\ root \in Pages /\ Step(file, {}, g, {root})
  BY <1>1, <1>2, RootIsFree
<1> HIDE DEF root, g
<1>4. i \in IndexRecs /\ i.root = root /\ i.id = last + 1 /\ columns[1] \in ToSet(columns)
      /\ \A column \in ColumnRecs : NewUnique(name, column) \in RuleRecs /\ NewUnique(name, column).id = last + 2
  BY <1>2, <1>3, NewRecordsTyped
<1>5. d.columns \in Seq(ColumnRecs) /\ d.indexes \in Seq(IndexRecs) /\ d.constraints \in Seq(RuleRecs)
  BY <1>2 DEF Schemas
<1>6. k \in RuleRecs /\ k.id = last + 2
  <2>1. columns[1] \in Names(d.columns)
    BY <1>1, <1>2, <1>4
  <2>2. Place(d.columns, columns[1]) \in DOMAIN d.columns
    BY <2>1, PlaceLaws
  <2>3. Called(d.columns, columns[1]) \in ColumnRecs
    BY <1>5, <2>2 DEF Called
  <2>4. QED
    BY <1>4, <2>3
<1>7. /\ Store(t, g, SplicedIndex(Stream(d), IndexRecord(i), IF unique THEN ConstraintRecord(k) ELSE <<>>))
      /\ declared' = Edited(t, [columns |-> d.columns, indexes |-> Append(d.indexes, i),
                                constraints |-> IF unique THEN Append(d.constraints, k) ELSE d.constraints,
                                root |-> d.root])
  BY <1>1, <1>2
<1> HIDE DEF i, k
<1>8. Append(d.indexes, i) \in Seq(IndexRecs) /\ Append(d.constraints, k) \in Seq(RuleRecs)
  BY <1>4, <1>5, <1>6
<1>9. m \in Schemas
  BY <1>2, <1>8, ChangedSchemas
<1>10. e \in Schemas
  <2> HIDE DEF m
  <2>1. WithRules(m, Append(d.constraints, k)) \in Schemas
    BY <1>8, <1>9, ChangedSchemas
  <2>2. QED
    BY <1>9, <2>1
<1>11. [columns |-> d.columns, indexes |-> Append(d.indexes, i),
        constraints |-> IF unique THEN Append(d.constraints, k) ELSE d.constraints, root |-> d.root] = e
  BY DEF WithIndexes, WithRules
<1>12. SplicedIndex(Stream(d), IndexRecord(i), IF unique THEN ConstraintRecord(k) ELSE <<>>) = Stream(e)
  <2>1. CASE unique
    <3>1. SplicedIndex(Stream(d), IndexRecord(i), ConstraintRecord(k)) = Stream(WithRules(m, Append(d.constraints, k)))
      BY <1>2, <1>4, <1>6, IndexAndRuleAdded
    <3> HIDE DEF m
    <3>2. QED
      BY <2>1, <3>1
  <2>2. CASE ~unique
    <3>1. SplicedIndex(Stream(d), IndexRecord(i), <<>>) = Stream(m)
      BY <1>2, <1>4, IndexAdded
    <3> HIDE DEF m
    <3>2. QED
      BY <2>2, <3>1
  <2>3. QED
    BY <2>1, <2>2
<1>13. /\ m.columns = d.columns /\ m.indexes = Append(d.indexes, i) /\ m.constraints = d.constraints /\ m.root = d.root
       /\ e.root = d.root /\ e.indexes = Append(d.indexes, i)
  BY DEF WithIndexes, WithRules
<1>14. UniqueIn(m, last + 1) /\ FreshOrFrom(d, m, last)
  <2> DEFINE h == "indexes"
  <2>1. h \in Numbering /\ (\A f \in Numbering : f # h => m[f] = d[f]) /\ m[h] = Append(d[h], i)
    BY <1>13 DEF Numbering
  <2>2. i \in Recs
    BY <1>4 DEF Recs
  <2> HIDE DEF m, d, h
  <2>3. QED
    BY <1>2, <1>4, <2>1, <2>2, IDsWithMore
<1>15. /\ UniqueIn(e, new) /\ FreshOrFrom(d, e, last)
       /\ new \in Nat /\ last <= new
  <2>1. CASE unique
    <3> DEFINE r == WithRules(m, Append(d.constraints, k))
               h == "constraints"
               next == last + 1
    <3>1. h \in Numbering /\ (\A f \in Numbering : f # h => r[f] = m[f]) /\ r[h] = Append(m[h], k)
      BY <1>13 DEF Numbering, WithRules
    <3>2. k \in Recs /\ k.id = next + 1 /\ next \in Nat /\ m \in Schemas /\ UniqueIn(m, next)
      BY <1>2, <1>6, <1>9, <1>14 DEF Recs
    <3>3. e = r
      BY <2>1
    <3> HIDE DEF m, d, h, r, next, e
    <3>4. UniqueIn(r, next + 1) /\ FreshOrFrom(m, r, next)
      BY <3>1, <3>2, IDsWithMore
    <3>5. FreshOrFrom(d, e, last)
      BY <1>2, <1>10, <1>14, <3>3, <3>4, FreshComposes DEF next
    <3>6. new = next + 1 /\ new \in Nat /\ last <= new
      BY <1>1, <1>2, <2>1 DEF next
    <3>7. QED
      BY <3>3, <3>4, <3>5, <3>6
  <2>2. CASE ~unique
    <3>1. e = m /\ new = last + 1 /\ new \in Nat /\ last <= new
      BY <1>1, <1>2, <2>2
    <3> HIDE DEF m, d, e, new, last
    <3>2. QED
      BY <1>14, <3>1
  <2>3. QED
    BY <2>1, <2>2
<1>16. Roots(e) = Roots(d) \cup {root} /\ RootsDiffer(e)
  <2>1. i.root \notin Roots(d)
    BY <1>2, <1>3, <1>4 DEF Free
  <2> HIDE DEF e
  <2>2. QED
    BY <1>2, <1>4, <1>13, <2>1, RootsWithMore
<1>17. Store(t, g, Stream(e)) /\ declared' = Edited(t, e)
  <2> HIDE DEF e
  <2>1. QED
    BY <1>7, <1>11, <1>12
<1> HIDE DEF e, m
<1>18. QED
  <2> DEFINE N == {}
             Q == {root}
  <2>1. /\ Step(file, N, g, Q) /\ N \subseteq Roots(declared[t]) /\ Q \subseteq Free(file)
        /\ e.root = declared[t].root /\ Roots(e) = (Roots(declared[t]) \ N) \cup Q
        /\ declared' = Edited(t, e) /\ place' = place
        /\ lastObjectID' \in Nat /\ lastObjectID <= lastObjectID'
        /\ UniqueIn(e, lastObjectID') /\ FreshOrFrom(declared[t], e, lastObjectID)
    BY <1>1, <1>3, <1>13, <1>15, <1>16, <1>17
  <2> HIDE DEF N, Q
  <2>2. QED
    BY <1>1, <1>10, <1>16, <1>17, <2>1, StoreKeeps

LEMMA DropTableKeeps ==
  ASSUME IInv, NEW t \in Tables, DropTable(t)
  PROVE  IInv'
<1> DEFINE d == declared[t]
           P == Owns(file, place[t], declared[t])
           g == Released(file, P)
           pls == place
           ds == declared
           npls == place'
           nds == declared'
           last == lastObjectID
<1>1. /\ EditsLeft /\ Exists(t) /\ Readable(t)
      /\ file' = Released(file, PagesOf(t))
      /\ place' = Restricted(place, DOMAIN place \ {t})
      /\ declared' = Restricted(declared, DOMAIN place \ {t})
      /\ lastObjectID' = lastObjectID
  BY DEF DropTable
<1>2. Arranged(file, place, declared) /\ IDsUnique(ds, last) /\ last \in Nat
  BY DEF IInv, IDsAreUnique, IDsUnique
<1>3. /\ d \in Schemas /\ Indexes(StreamOf(t)).val = d.indexes /\ Meaning(StreamOf(t)).root = d.root /\ file \in Files
  BY <1>1, TableIsRead
<1>4. PagesOf(t) = P
  <2>1. {r.root : r \in ToSet(d.indexes)} = Roots(d)
    BY DEF Roots, ToSet
  <2>2. PagesOf(t) = ToSet(SystemChain(file, place[t])) \cup ToSet(SchemaChain(file, place[t])) \cup Roots(d) \cup {d.root}
    BY <1>3, <2>1 DEF PagesOf, SystemChain, SchemaChain
  <2>3. QED
    BY <2>2 DEF Owns, Pieces
<1>5. t \in DOMAIN pls /\ DOMAIN ds = DOMAIN pls /\ P \subseteq file.allocated
      /\ \A u \in DOMAIN ds : ds[u] \in Schemas
  BY <1>1, <1>2 DEF Exists, Arranged, Kept, Holds, Owns
<1>6. Step(file, P, g, {}) /\ file' = g
  BY <1>1, <1>3, <1>4, <1>5, ReleasedLaws
<1>7. /\ DOMAIN npls = DOMAIN pls \ {t} /\ DOMAIN nds = DOMAIN pls \ {t}
      /\ \A u \in DOMAIN npls : npls[u] = pls[u] /\ nds[u] = ds[u]
  BY <1>1 DEF Restricted
<1>8. OthersStay(t, pls, ds, npls, nds)
  BY <1>5, <1>7 DEF OthersStay
<1>9. Arranged(g, npls, nds)
  <2> DEFINE N == {}
  <2>1. /\ P = IF t \in DOMAIN pls THEN Owns(file, pls[t], ds[t]) ELSE {}
        /\ Arranged(file, pls, ds) /\ Step(file, P, g, N) /\ OthersStay(t, pls, ds, npls, nds)
        /\ t \notin DOMAIN npls /\ N = {}
    BY <1>2, <1>5, <1>6, <1>7, <1>8
  <2> HIDE DEF P, g, pls, ds, npls, nds, N
  <2>2. QED
    BY <2>1, ArrangedAfter
<1>10. IDsUnique(nds, last)
  <2>1. /\ last \in Nat /\ IDsUnique(ds, last) /\ (\A u \in DOMAIN ds : ds[u] \in Schemas) /\ last <= last
        /\ (\A u \in DOMAIN nds : u # t => u \in DOMAIN ds /\ nds[u] = ds[u]) /\ t \notin DOMAIN nds
    BY <1>2, <1>5, <1>7
  <2> HIDE DEF ds, nds, last
  <2>2. QED
    BY ONLY <2>1, IDsAfter
<1>11. edits' \in 0 .. MaxEdits
  BY <1>1, SchemaStreamAssumption DEF IInv, EditsLeft
<1>12. Arranged(file', place', declared') /\ IDsUnique(declared', lastObjectID') /\ lastObjectID' \in Nat
  <2> HIDE DEF P, g
  <2>1. QED
    BY <1>1, <1>2, <1>6, <1>9, <1>10
<1>13. QED
  BY <1>11, <1>12 DEF IInv, IDsAreUnique, IDsUnique

LEMMA InitHolds ==
  ASSUME Init
  PROVE  IInv
<1>1. file \in Files /\ file.allocated = {}
  <2>1. [i \in 1 .. Capacity |-> 0] \in Blocks
    BY SchemaStreamAssumption DEF Blocks, Token
  <2>2. QED
    BY <2>1 DEF Init, Files, PageNumbers
<1>2. DOMAIN place = {} /\ DOMAIN declared = {}
  BY DEF Init
<1>3. Arranged(file, place, declared)
  BY <1>1, <1>2 DEF Arranged
<1>4. IDsAreUnique
  BY <1>2 DEF IDsAreUnique
<1>5. QED
  BY <1>3, <1>4, SchemaStreamAssumption DEF Init, IInv

-----------------------------------------------------------------------------
(* CREATE TABLE.                                                           *)

LEMMA SystemFileFits ==
  /\ SystemFile \in Seq(Token) /\ Len(SystemFile) # 0
  /\ PagesFor(SystemFile) \in Nat /\ PagesFor(SystemFile) <= 2
<1> DEFINE l == SystemPages * Capacity
           n == PagesFor(SystemFile)
<1>1. l \in Nat \ {0} /\ l = 2 * Capacity
  BY SchemaStreamAssumption DEF SystemPages
<1> HIDE DEF l
<1>2. SystemFile \in Seq(Token) /\ Len(SystemFile) = l
  <2>1. SystemFile = [i \in 1 .. l |-> 0]
    BY DEF SystemFile, l
  <2>2. \A i \in 1 .. l : 0 \in Token
    BY DEF Token
  <2>3. QED
    BY <1>1, <2>1, <2>2
<1>3. Len(SystemFile) # 0
  BY <1>1, <1>2
<1>4. n \in Nat \ {0} /\ Before(n) < l
  <2>1. PagesFor(SystemFile) \in Nat \ {0} /\ Before(PagesFor(SystemFile)) < Len(SystemFile)
    BY <1>2, <1>3, PagesForLaws
  <2>2. QED
    BY <1>2, <2>1
<1> HIDE DEF n
<1>5. n <= 2
  <2>1. SUFFICES ASSUME 2 < n PROVE FALSE
    BY <1>4
  <2>2. Before(2) + Capacity <= Before(n) /\ 2 * Capacity = Before(2) + Capacity /\ Before(n) \in Nat
    BY <1>4, <2>1, BlockPlaces
  <2>3. QED
    BY <1>1, <1>4, <2>2
<1>6. QED
  BY <1>2, <1>3, <1>4, <1>5 DEF n

\* The pages as allocatePages has left them, the first two linked.
PairLinked(f, p, q) ==
  [allocated |-> f.allocated, data |-> f.data, next |-> [f.next EXCEPT ![p] = q]]

LEMMA PairIsChain ==
  ASSUME NEW f, NEW S, NEW g, Step(f, {}, g, S), S \subseteq Free(f), \A x \in S : g.next[x] = -1,
         NEW p \in S, NEW q \in S, p # q
  PROVE  LET h == PairLinked(g, p, q)
         IN  /\ Step(f, {}, h, S)
             /\ <<p, q>> \in Seq(Pages) /\ IsChain(h.next, <<p, q>>) /\ ToSet(<<p, q>>) = {p, q}
             /\ \A r \in S \ {p} : <<r>> \in Seq(Pages) /\ IsChain(h.next, <<r>>) /\ ToSet(<<r>>) = {r}
<1> DEFINE links == [g.next EXCEPT ![p] = q]
           h == PairLinked(g, p, q)
<1>1. /\ f \in Files /\ g \in Files /\ S \subseteq Pages \ f.allocated
      /\ {} \subseteq f.allocated /\ S \subseteq {} \cup Free(f) /\ g.allocated = (f.allocated \ {}) \cup S
      /\ \A x \in f.allocated \ {} : g.next[x] = f.next[x] /\ g.data[x] = f.data[x]
  BY DEF Step, Free
<1>2. /\ g.next \in [Pages -> PageNumbers] /\ g.data \in [Pages -> Blocks] /\ g.allocated \in SUBSET Pages
      /\ f.allocated \subseteq Pages
  BY <1>1 DEF Files
<1>3. links \in [Pages -> PageNumbers] /\ \A x \in Pages : links[x] = IF x = p THEN q ELSE g.next[x]
  BY <1>1, <1>2 DEF PageNumbers
<1>4. h.next = links /\ h.data = g.data /\ h.allocated = g.allocated /\ h \in Files
  BY <1>2, <1>3 DEF PairLinked, Files
<1> HIDE DEF h, links
<1>5. Step(f, {}, h, S)
  BY <1>1, <1>2, <1>3, <1>4 DEF Step
<1>6. p \in Pages /\ q \in Pages /\ links[p] = q /\ links[q] = -1
  BY <1>1, <1>3
<1>7. <<p, q>> \in Seq(Pages) /\ IsChain(links, <<p, q>>) /\ ToSet(<<p, q>>) = {p, q}
  <2> DEFINE c == <<p, q>>
  <2>1. c \in Seq(Pages) /\ Len(c) = 2 /\ c[1] = p /\ c[2] = q /\ DOMAIN c = {1, 2}
    BY <1>6
  <2> HIDE DEF c
  <2>2. IsInjective(c) /\ ToSet(c) = {p, q}
    BY <2>1 DEF IsInjective, ToSet
  <2>3. links[c[Len(c)]] = -1
    BY <1>6, <2>1
  <2>4. \A i \in 1 .. Len(c) - 1 : i = 1
    BY <2>1
  <2>5. \A i \in 1 .. Len(c) - 1 : links[c[i]] = c[i + 1]
    BY <1>6, <2>1, <2>4
  <2>6. IsChain(links, c)
    BY <2>1, <2>2, <2>3, <2>5 DEF IsChain
  <2>7. QED
    BY <2>1, <2>2, <2>6 DEF c
<1>8. ASSUME NEW r \in S \ {p}
      PROVE  <<r>> \in Seq(Pages) /\ IsChain(links, <<r>>) /\ ToSet(<<r>>) = {r}
  <2> DEFINE c == <<r>>
  <2>1. r \in Pages /\ links[r] = -1
    BY <1>1, <1>3
  <2>2. c \in Seq(Pages) /\ Len(c) = 1 /\ c[1] = r /\ DOMAIN c = {1}
    BY <2>1
  <2> HIDE DEF c
  <2>3. IsInjective(c) /\ ToSet(c) = {r}
    BY <2>2 DEF IsInjective, ToSet
  <2>4. ~(\E i \in 1 .. Len(c) - 1 : TRUE) /\ links[c[Len(c)]] = -1
    BY <2>1, <2>2
  <2>5. IsChain(links, c)
    BY <2>2, <2>3, <2>4 DEF IsChain
  <2>6. QED
    BY <2>2, <2>3, <2>5 DEF c
<1>9. QED
  BY <1>4, <1>5, <1>7, <1>8 DEF h

\* The pages of a new table: its two files are written one after the other.
LEMMA TableBuilt ==
  ASSUME NEW f, NEW S, NEW taken, Step(f, {}, taken, S), S \subseteq Free(f), \A x \in S : taken.next[x] = -1,
         NEW p \in S, NEW q \in S, NEW r \in S, p # q, r \notin {p, q},
         NEW d \in Schemas, d.root \in S \ {p, q, r}, RootsDiffer(d), Roots(d) \subseteq S \ {p, q, r, d.root},
         S = {p, q, r, d.root} \cup Roots(d),
         PagesFor(FileOf(Stream(d))) - 1 <= Cardinality(Free(f) \ S)
  PROVE  LET pl == [system |-> p, schema |-> r]
             g == Written(Written(PairLinked(taken, p, q), p, SystemFile), r, FileOf(Stream(d)))
         IN  Kept(g, pl, d) /\ Step(f, {}, g, Owns(g, pl, d))
<1> DEFINE pl == [system |-> p, schema |-> r]
           w == FileOf(Stream(d))
           a == <<p, q>>
           c == <<r>>
           h == PairLinked(taken, p, q)
           k == Written(h, p, SystemFile)
           g == Written(k, r, w)
           N == {}
<1>1. /\ Step(f, N, h, S) /\ IsChain(h.next, a) /\ ToSet(a) = {p, q} /\ IsChain(h.next, c) /\ ToSet(c) = {r}
      /\ a \in Seq(Pages) /\ c \in Seq(Pages)
  BY PairIsChain
<1>2. a[1] = p /\ Len(a) = 2 /\ c[1] = r /\ Len(c) = 1 /\ pl.system = p /\ pl.schema = r
  OBVIOUS
<1> HIDE DEF a, c, h, N, k, pl
<1>3. /\ h \in Files /\ h.allocated = f.allocated \cup S /\ f \in Files /\ S \subseteq Pages
  BY <1>1 DEF Step, Free, N
<1>4. w \in Seq(Token) /\ Len(w) # 0
  BY StreamParts, FileOfLaws
<1> HIDE DEF w
<1>5. IsFiniteSet(Free(h)) /\ Free(h) = Free(f) \ S /\ Cardinality(Free(h)) \in Nat
  <2>1. Free(h) \in SUBSET Pages /\ Free(h) = Free(f) \ S
    BY <1>3 DEF Free
  <2>2. IsFiniteSet(Free(h))
    BY <2>1, SchemaStreamAssumption, FS_Subset
  <2>3. QED
    BY <2>1, <2>2, FS_CardinalityType
<1>6. \E new \in Seq(Pages) : /\ new[1] = a[1] /\ ToSet(new) \subseteq ToSet(a)
                              /\ Step(h, ToSet(a), Written(h, a[1], SystemFile), ToSet(new))
                              /\ Stored(Written(h, a[1], SystemFile), new, SystemFile)
  <2>1. PagesFor(SystemFile) <= Len(a) /\ PagesFor(SystemFile) - Len(a) <= Cardinality(Free(h))
    BY <1>2, <1>5, SystemFileFits
  <2>2. h \in Files /\ IsChain(h.next, a) /\ ToSet(a) \subseteq h.allocated /\ SystemFile \in Seq(Token) /\ Len(SystemFile) # 0
    BY <1>1, <1>3, SystemFileFits
  <2>3. QED
    BY <2>1, <2>2, WrittenLaws
<1>7. PICK new \in Seq(Pages) : /\ new[1] = p /\ ToSet(new) \subseteq {p, q}
                                /\ Step(h, {p, q}, k, ToSet(new)) /\ Stored(k, new, SystemFile)
  BY <1>1, <1>2, <1>6 DEF k
<1> DEFINE M == ToSet(new)
           K == (S \ {p, q}) \cup M
<1> HIDE DEF M
<1>8. Step(f, N, k, K)
  <2>1. Step(h, {p, q}, k, M) /\ {p, q} \subseteq S
    BY <1>7 DEF M
  <2>2. QED
    BY <1>1, <2>1, StepsCompose
<1>9. /\ k \in Files /\ k.allocated = f.allocated \cup K /\ M \subseteq {p, q}
  BY <1>7, <1>8 DEF Step, N, M
<1>10. IsChain(k.next, c) /\ ToSet(c) \subseteq k.allocated
  <2>1. ToSet(c) \subseteq h.allocated \ {p, q}
    BY <1>1, <1>3
  <2>2. QED
    BY <1>1, <1>7, <2>1, ChainStays
<1>11. PagesFor(w) - Len(c) <= Cardinality(Free(k))
  <2>1. Free(k) \in SUBSET Pages /\ Free(h) \in SUBSET Free(k)
    BY <1>3, <1>9 DEF Free
  <2>2. IsFiniteSet(Free(k)) /\ Cardinality(Free(k)) \in Nat
    BY <2>1, SchemaStreamAssumption, FS_Subset, FS_CardinalityType
  <2>3. Cardinality(Free(h)) <= Cardinality(Free(k))
    BY <2>1, <2>2, FS_Subset
  <2>4. PagesFor(w) - 1 <= Cardinality(Free(h)) /\ PagesFor(w) \in Nat
    BY <1>4, <1>5, PagesForLaws DEF w
  <2>5. QED
    BY ONLY <1>2, <1>5, <2>2, <2>3, <2>4
<1>12. \E n \in Seq(Pages) : /\ n[1] = c[1]
                             /\ Step(k, ToSet(c), Written(k, c[1], w), ToSet(n))
                             /\ Stored(Written(k, c[1], w), n, w)
  <2>1. k \in Files /\ IsChain(k.next, c) /\ ToSet(c) \subseteq k.allocated
    BY <1>9, <1>10
  <2>2. QED
    BY <1>4, <1>11, <2>1, WrittenLaws
<1>13. PICK n \in Seq(Pages) : n[1] = r /\ Step(k, {r}, g, ToSet(n)) /\ Stored(g, n, w)
  BY <1>1, <1>2, <1>12
<1> HIDE DEF g
<1> DEFINE L == ToSet(n)
           Q == (K \ {r}) \cup L
<1> HIDE DEF L
<1>14. Step(f, N, g, Q)
  <2>1. Step(k, {r}, g, L) /\ {r} \subseteq K
    BY <1>13 DEF L
  <2> HIDE DEF K
  <2>2. QED
    BY <1>8, <2>1, StepsCompose
<1>15. /\ g \in Files /\ L \subseteq {r} \cup (Pages \ k.allocated) /\ g.allocated = (k.allocated \ {r}) \cup L
  BY <1>13 DEF Step, L, Free
<1>16. IsChain(g.next, new) /\ M \subseteq g.allocated
  <2>1. M \subseteq k.allocated \ {r}
    BY <1>9
  <2>2. ToSet(new) \subseteq k.allocated \ {r} /\ IsChain(k.next, new)
    BY <1>7, <2>1 DEF M, Stored
  <2>3. QED
    BY <1>13, <2>2, ChainStays DEF M
<1>17. M \cap L = {} /\ d.root \notin M \cup L /\ Roots(d) \cap ((M \cup L) \cup {d.root}) = {}
  BY <1>9, <1>15
<1> DEFINE PS == ((M \cup L) \cup {d.root}) \cup Roots(d)
<1>18. PS \subseteq g.allocated
  BY <1>9, <1>15
<1>19. PS = Q
  BY <1>9, <1>15
<1>20. Pieces(new, n, d) = PS
  BY DEF Pieces, M, L
<1>21. Apart(new, n, d)
  BY <1>17 DEF Apart, M, L
<1>22. pl \in Places
  BY <1>3 DEF Places, pl
<1>23. Holds(g, pl, d, new, n)
  BY <1>2, <1>7, <1>13, <1>16, <1>18, <1>20, <1>21, <1>22 DEF Holds, w
<1>24. Kept(g, pl, d) /\ Owns(g, pl, d) = PS
  BY <1>15, <1>20, <1>23, HoldsIsKept
<1>25. Step(f, {}, g, Owns(g, pl, d))
  BY <1>14, <1>19, <1>24 DEF N
<1>26. QED
  BY <1>24, <1>25 DEF g, k, h, w, pl

\* The pages CREATE TABLE takes for a table with k keys.
LEMMA NewPages ==
  ASSUME NEW f \in Files, NEW k \in Nat, SystemPages + 2 + k <= Cardinality(Free(f))
  PROVE  LET n == SystemPages + 2 + k
             pages == Lowest(n, Free(f))
             S == ToSet(pages)
             roots == SubSeq(pages, SystemPages + 3, Len(pages))
         IN  /\ pages \in Seq(Pages) /\ Len(pages) = n /\ S \subseteq Free(f) /\ S \subseteq Pages
             /\ Step(f, {}, Taken(f, n), S) /\ \A x \in S : Taken(f, n).next[x] = -1
             /\ roots \in Seq(Pages) /\ Len(roots) = k
             /\ \A i, j \in 1 .. k : roots[i] = roots[j] => i = j
             /\ S = {pages[1], pages[2], pages[3], pages[4]} \cup {roots[i] : i \in 1 .. k}
             /\ pages[1] # pages[2] /\ pages[3] \notin {pages[1], pages[2]}
             /\ pages[4] \notin {pages[1], pages[2], pages[3]}
             /\ \A i \in 1 .. k : roots[i] \notin {pages[1], pages[2], pages[3], pages[4]}
             /\ Cardinality(Free(f)) - n <= Cardinality(Free(f) \ S)
<1> DEFINE n == SystemPages + 2 + k
           F == Free(f)
           pages == Lowest(n, F)
           S == ToSet(pages)
           roots == SubSeq(pages, SystemPages + 3, Len(pages))
<1>1. n \in Nat /\ n = 4 + k /\ SystemPages + 3 = 5 /\ n <= Cardinality(F)
  BY DEF SystemPages
<1> HIDE DEF n
<1>2. F \in SUBSET Pages /\ IsFiniteSet(F) /\ Cardinality(F) \in Nat
  <2>1. F \in SUBSET Pages
    BY DEF Free
  <2>2. QED
    BY <2>1, SchemaStreamAssumption, FS_Subset, FS_CardinalityType
<1>3. /\ pages \in [1 .. n -> F] /\ IsInjective(pages) /\ pages \in Seq(Pages) /\ Len(pages) = n
      /\ DOMAIN pages = 1 .. n /\ S \subseteq F
  BY <1>1, <1>2, LowestLaws
<1>4. Step(f, {}, Taken(f, n), S) /\ \A x \in S : Taken(f, n).next[x] = -1
  BY <1>1, TakenLaws
<1> HIDE DEF pages, F
<1>5. \A i, j \in 1 .. n : pages[i] = pages[j] => i = j
  BY <1>3 DEF IsInjective
<1>6. Cardinality(F) - n <= Cardinality(F \ S)
  <2>1. pages \in Surjection(1 .. n, S)
    BY <1>3 DEF Surjection, ToSet
  <2>2. IsFiniteSet(1 .. n) /\ Cardinality(1 .. n) = n
    BY <1>1, FS_Interval
  <2>3. IsFiniteSet(S) /\ Cardinality(S) <= n /\ Cardinality(S) \in Nat
    BY <2>1, <2>2, FS_Surjection, FS_CardinalityType
  <2>4. Cardinality(F \ S) = Cardinality(F) - Cardinality(F \cap S) /\ F \cap S = S
    BY <1>2, <1>3, FS_Difference
  <2>5. QED
    BY <1>1, <1>2, <2>3, <2>4
<1>7. SubSeq(pages, 5, n) \in Seq(Pages) /\ Len(SubSeq(pages, 5, n)) = k
      /\ \A i \in 1 .. k : SubSeq(pages, 5, n)[i] = pages[i + 4] /\ i + 4 \in 1 .. n
  BY <1>1, <1>3
<1>8. roots \in Seq(Pages) /\ Len(roots) = k /\ \A i \in 1 .. k : roots[i] = pages[i + 4] /\ i + 4 \in 1 .. n
  BY <1>1, <1>3, <1>7
<1> HIDE DEF roots
<1>9. 1 \in 1 .. n /\ 2 \in 1 .. n /\ 3 \in 1 .. n /\ 4 \in 1 .. n
  BY <1>1
<1>10. /\ pages[1] # pages[2] /\ pages[3] \notin {pages[1], pages[2]}
       /\ pages[4] \notin {pages[1], pages[2], pages[3]}
  BY <1>5, <1>9
<1>11. ASSUME NEW i \in 1 .. k PROVE roots[i] \notin {pages[1], pages[2], pages[3], pages[4]}
  <2>1. roots[i] = pages[i + 4] /\ i + 4 \in 1 .. n /\ i + 4 \notin {1, 2, 3, 4}
    BY <1>1, <1>8
  <2>2. QED
    BY <1>5, <1>9, <2>1
<1>12. ASSUME NEW i \in 1 .. k, NEW j \in 1 .. k, roots[i] = roots[j] PROVE i = j
  <2>1. i + 4 = j + 4
    BY <1>5, <1>8, <1>12
  <2>2. QED
    BY <1>1, <2>1
<1>13. S = {pages[1], pages[2], pages[3], pages[4]} \cup {roots[i] : i \in 1 .. k}
  <2>1. ASSUME NEW x \in S PROVE x \in {pages[1], pages[2], pages[3], pages[4]} \cup {roots[i] : i \in 1 .. k}
    <3>1. PICK m \in 1 .. n : x = pages[m]
      BY <1>3 DEF ToSet
    <3>2. m \in {1, 2, 3, 4} \/ (m - 4 \in 1 .. k /\ (m - 4) + 4 = m)
      BY <1>1
    <3>3. CASE m \in {1, 2, 3, 4}
      BY <3>1, <3>3
    <3>4. CASE m - 4 \in 1 .. k /\ (m - 4) + 4 = m
      <4>1. roots[m - 4] = pages[(m - 4) + 4]
        BY <1>8, <3>4
      <4>2. x = roots[m - 4]
        BY <3>1, <3>4, <4>1
      <4>3. QED
        BY <3>4, <4>2
    <3>5. QED
      BY <3>2, <3>3, <3>4
  <2>2. \A m \in 1 .. n : pages[m] \in S
    BY <1>3 DEF ToSet
  <2>3. \A i \in 1 .. k : roots[i] \in S
    BY <1>8, <2>2
  <2>4. QED
    BY <1>9, <2>1, <2>2, <2>3
<1> HIDE DEF S
<1>14. S \subseteq Pages
  BY <1>2, <1>3
<1>15. QED
  BY <1>1, <1>3, <1>4, <1>6, <1>8, <1>10, <1>11, <1>12, <1>13, <1>14 DEF S, roots, pages, F, n

\* Ids that are given one behind the other, field by field.
InTurn(e, last, C, K, M) ==
  /\ DOMAIN e.columns = 1 .. C /\ DOMAIN e.indexes = 1 .. K /\ DOMAIN e.constraints = 1 .. M
  /\ \A i \in 1 .. C : e.columns[i].id = (last + 1) + i
  /\ \A i \in 1 .. K : e.indexes[i].id = ((last + 2 + C) + i) - 1
  /\ \A i \in 1 .. M : e.constraints[i].id = ((last + 2 + C + K) + i) - 1

LEMMA IDsInTurn ==
  ASSUME NEW last \in Nat, NEW C \in Nat, NEW K \in Nat, NEW M \in Nat, NEW e, InTurn(e, last, C, K, M),
         NEW new \in Nat, new = last + (1 + C + K + M)
  PROVE  Fresh(e, last) /\ UniqueIn(e, new) /\ last <= new
<1> DEFINE Off(f) == last + 1 + (IF f = "columns" THEN 0 ELSE IF f = "indexes" THEN C ELSE C + K)
           Size(f) == IF f = "columns" THEN C ELSE IF f = "indexes" THEN K ELSE M
<1>1. ASSUME NEW f \in Numbering, NEW i \in DOMAIN e[f]
      PROVE  e[f][i].id = Off(f) + i /\ i \in 1 .. Size(f)
  <2>1. CASE f = "columns"
    BY <2>1 DEF InTurn
  <2>2. CASE f = "indexes"
    BY <2>2 DEF InTurn
  <2>3. CASE f = "constraints"
    BY <2>3 DEF InTurn
  <2>4. QED
    BY <2>1, <2>2, <2>3 DEF Numbering
<1>2. \A f \in Numbering : Off(f) \in Int /\ Size(f) \in Int /\ Off(f) >= last + 1 /\ Off(f) + Size(f) <= new
  BY DEF Numbering
<1>3. \A f, g \in Numbering : f # g => Off(f) + Size(f) <= Off(g) \/ Off(g) + Size(g) <= Off(f)
  BY DEF Numbering
<1> HIDE DEF Off, Size
<1>4. Fresh(e, last)
  BY <1>1, <1>2 DEF Fresh
<1>5. UniqueIn(e, new)
  <2>1. SUFFICES ASSUME NEW f \in Numbering, NEW g \in Numbering, NEW i \in DOMAIN e[f], NEW j \in DOMAIN e[g]
                 PROVE  e[f][i].id <= new /\ (e[f][i].id = e[g][j].id => f = g /\ i = j)
    BY DEF UniqueIn
  <2>2. e[f][i].id = Off(f) + i /\ i \in 1 .. Size(f) /\ e[g][j].id = Off(g) + j /\ j \in 1 .. Size(g)
    BY <1>1
  <2>3. Off(f) \in Int /\ Size(f) \in Int /\ Off(g) \in Int /\ Size(g) \in Int
        /\ Off(f) + Size(f) <= new
    BY <1>2
  <2>4. CASE f = g
    BY <2>2, <2>3, <2>4
  <2>5. CASE f # g
    <3>1. Off(f) + Size(f) <= Off(g) \/ Off(g) + Size(g) <= Off(f)
      BY <1>3, <2>5
    <3>2. QED
      BY <2>2, <2>3, <3>1
  <2>6. QED
    BY <2>4, <2>5
<1>6. QED
  BY <1>4, <1>5

\* What is declared of a new table.
NewTable(t, names, list, roots, root) ==
  LET columns == NewColumns(names)
      indexes == NewIndexes(list, lastObjectID + 2 + Len(names), roots)
  IN  [columns |-> columns, indexes |-> indexes, root |-> root,
       constraints |-> NewConstraints(list, t, columns, indexes, lastObjectID + 2 + Len(names) + Len(indexes))]

LEMMA NewTableTyped ==
  ASSUME lastObjectID \in Nat, NEW t \in Tables, NEW names \in ColumnLists, NEW list \in ConstraintLists,
         \A k \in ToSet(list) : ToSet(k.columns) \subseteq ToSet(names),
         NEW K, K = Len(Keys(list)), NEW roots \in Seq(Pages), Len(roots) = K, NEW root \in Pages,
         \A i, j \in 1 .. K : roots[i] = roots[j] => i = j
  PROVE  LET d == NewTable(t, names, list, roots, root)
             new == lastObjectID + IDsUsed(NewColumns(names), list)
         IN  /\ d \in Schemas /\ d.root = root /\ Roots(d) = {roots[i] : i \in 1 .. K} /\ RootsDiffer(d)
             /\ Fresh(d, lastObjectID) /\ UniqueIn(d, new) /\ new \in Nat /\ lastObjectID <= new
<1> DEFINE last == lastObjectID
           columns == NewColumns(names)
           C == Len(names)
           M == Len(list)
           first == last + 2 + C
           indexes == NewIndexes(list, first, roots)
           next == first + K
           rules == NewConstraints(list, t, columns, indexes, next)
           d == NewTable(t, names, list, roots, root)
           new == last + IDsUsed(columns, list)
<1>1. names \in Seq(ColumnNames) /\ list \in Seq(ConstraintRequests) /\ C \in Nat /\ M \in Nat /\ K \in Nat
  <2>1. names \in Seq(ColumnNames) /\ list \in Seq(ConstraintRequests)
    BY RequestsAssumption
  <2>2. Len(Keys(list)) \in Nat
    BY <2>1, KeysOfRequests
  <2>3. QED
    BY <2>1, <2>2
<1>2. /\ columns \in Seq(ColumnRecs) /\ Len(columns) = C /\ DOMAIN columns = 1 .. C /\ Names(columns) = ToSet(names)
      /\ \A i \in 1 .. C : columns[i].id = (last + 1) + i
  BY <1>1, NewColumnsTyped
<1> HIDE DEF columns, C, M, first
<1>3. first \in Nat /\ first = last + 2 + C
  BY <1>1 DEF first
<1>4. /\ indexes \in Seq(IndexRecs) /\ Len(indexes) = K /\ DOMAIN indexes = 1 .. K
      /\ \A i \in 1 .. K : indexes[i].id = (first + i) - 1 /\ indexes[i].root = roots[i]
  <2>1. first \in Int
    BY <1>3
  <2>2. QED
    BY <1>1, <2>1, NewIndexesTyped
<1> HIDE DEF indexes, next
<1>5. next \in Int /\ next = last + 2 + C + K
  BY <1>1, <1>3 DEF next
<1>6. /\ rules \in Seq(RuleRecs) /\ DOMAIN rules = 1 .. M
      /\ \A i \in 1 .. M : rules[i].id = (next + i) - 1
  <2>1. \A k \in ToSet(list) : ToSet(k.columns) \subseteq Names(columns)
    BY <1>2
  <2>2. /\ list \in Seq(ConstraintRequests) /\ t \in Tables /\ columns \in Seq(ColumnRecs)
        /\ (\A k \in ToSet(list) : ToSet(k.columns) \subseteq Names(columns))
        /\ indexes \in Seq(IndexRecs) /\ Len(indexes) = Len(Keys(list)) /\ next \in Int
    BY <1>1, <1>2, <1>4, <1>5, <2>1
  <2>3. /\ rules \in Seq(RuleRecs) /\ DOMAIN rules = 1 .. Len(list)
        /\ \A i \in 1 .. Len(list) : rules[i].id = (next + i) - 1
    BY ONLY <2>2, NewConstraintsTyped
  <2>4. QED
    BY <2>3 DEF M
<1> HIDE DEF rules
<1>7. d = [columns |-> columns, indexes |-> indexes, root |-> root, constraints |-> rules]
  BY <1>4 DEF NewTable, columns, indexes, rules, next, first, C
<1> HIDE DEF d
<1>8. d.columns = columns /\ d.indexes = indexes /\ d.constraints = rules /\ d.root = root
  BY <1>7
<1>9. d \in Schemas
  BY <1>2, <1>4, <1>6, <1>7 DEF Schemas
<1>10. Roots(d) = {roots[i] : i \in 1 .. K} /\ RootsDiffer(d)
  <2>1. DOMAIN d.indexes = 1 .. K /\ \A i \in 1 .. K : d.indexes[i].root = roots[i]
    BY <1>4, <1>8
  <2>2. Roots(d) = {roots[i] : i \in 1 .. K}
    BY <2>1 DEF Roots
  <2>3. RootsDiffer(d)
    BY <2>1 DEF RootsDiffer
  <2>4. QED
    BY <2>2, <2>3
<1>11. new = last + (1 + C + K + M) /\ new \in Nat
  BY <1>1, <1>2 DEF IDsUsed, M
<1> HIDE DEF new
<1>12. Fresh(d, last) /\ UniqueIn(d, new) /\ last <= new
  <2>1. InTurn(d, last, C, K, M)
    BY <1>2, <1>3, <1>4, <1>5, <1>6, <1>8 DEF InTurn
  <2>2. last \in Nat /\ C \in Nat /\ K \in Nat /\ M \in Nat /\ new \in Nat /\ new = last + (1 + C + K + M)
    BY <1>1, <1>11
  <2> HIDE DEF last
  <2>3. QED
    BY ONLY <2>1, <2>2, IDsInTurn
<1>13. QED
  BY <1>8, <1>9, <1>10, <1>11, <1>12 DEF d, new, columns

LEMMA CreateTableKeeps ==
  ASSUME IInv, NEW t \in Tables, NEW names \in ColumnLists, NEW list \in ConstraintLists, CreateTable(t, names, list)
  PROVE  IInv'
<1> DEFINE last == lastObjectID
           K == Len(Keys(list))
           n == SystemPages + 2 + K
           pages == Lowest(n, Free(file))
           p == pages[1]
           q == pages[2]
           r == pages[3]
           roots == SubSeq(pages, SystemPages + 3, Len(pages))
           d == NewTable(t, names, list, roots, pages[4])
           new == last + IDsUsed(NewColumns(names), list)
           S == ToSet(pages)
           w == FileOf(Stream(d))
           pl == [system |-> p, schema |-> r]
           taken == Taken(file, n)
           g == Written(Written(PairLinked(taken, p, q), p, SystemFile), r, w)
<1>1. /\ EditsLeft /\ ~Exists(t)
      /\ \A k \in ToSet(list) : ToSet(k.columns) \subseteq ToSet(names)
      /\ n <= Cardinality(Free(file))
      /\ n + PagesFor(w) - 1 <= Cardinality(Free(file))
      /\ place' = [x \in DOMAIN place \cup {t} |-> IF x = t THEN pl ELSE place[x]]
      /\ declared' = Edited(t, d)
      /\ lastObjectID' = new
      /\ file' = Written(Written(PairLinked(Taken(file, Len(pages)), p, q), p, SystemFile), r, w)
  BY DEF CreateTable, NewTable, PairLinked, SystemPages
<1>2. Arranged(file, place, declared) /\ IDsUnique(declared, last) /\ last \in Nat /\ file \in Files
  BY DEF IInv, IDsAreUnique, IDsUnique, Arranged
<1>3. list \in Seq(ConstraintRequests) /\ K \in Nat
  <2>1. list \in Seq(ConstraintRequests)
    BY RequestsAssumption
  <2>2. Len(Keys(list)) \in Nat
    BY <2>1, KeysOfRequests
  <2>3. QED
    BY <2>1, <2>2
<1> HIDE DEF K
<1>4. /\ pages \in Seq(Pages) /\ Len(pages) = n /\ S \subseteq Free(file) /\ S \subseteq Pages
      /\ Step(file, {}, taken, S) /\ \A x \in S : taken.next[x] = -1
      /\ roots \in Seq(Pages) /\ Len(roots) = K
      /\ \A i, j \in 1 .. K : roots[i] = roots[j] => i = j
      /\ S = {p, q, r, pages[4]} \cup {roots[i] : i \in 1 .. K}
      /\ p # q /\ r \notin {p, q} /\ pages[4] \notin {p, q, r}
      /\ \A i \in 1 .. K : roots[i] \notin {p, q, r, pages[4]}
      /\ Cardinality(Free(file)) - n <= Cardinality(Free(file) \ S)
  BY <1>1, <1>2, <1>3, NewPages
<1> HIDE DEF pages, roots, S, n, p, q, r
<1>5. file' = g
  BY <1>1, <1>4
<1>6. /\ d \in Schemas /\ d.root = pages[4] /\ Roots(d) = {roots[i] : i \in 1 .. K} /\ RootsDiffer(d)
      /\ Fresh(d, last) /\ UniqueIn(d, new) /\ new \in Nat /\ last <= new
  <2>1. pages[4] \in Pages
    BY <1>4
  <2>2. QED
    BY <1>1, <1>2, <1>4, <2>1, NewTableTyped DEF K
<1> HIDE DEF d, new, taken
<1>7. PagesFor(w) - 1 <= Cardinality(Free(file) \ S)
  <2>1. Cardinality(Free(file)) \in Nat /\ Cardinality(Free(file) \ S) \in Nat
    <3>1. Free(file) \in SUBSET Pages /\ Free(file) \ S \in SUBSET Pages
      BY DEF Free
    <3>2. QED
      BY <3>1, SchemaStreamAssumption, FS_Subset, FS_CardinalityType
  <2>2. w \in Seq(Token) /\ Len(w) # 0
    BY <1>6, StreamParts, FileOfLaws
  <2>3. PagesFor(w) \in Nat
    BY <2>2, PagesForLaws
  <2>4. n \in Nat
    BY <1>3 DEF n, SystemPages
  <2>5. n + PagesFor(w) - 1 <= Cardinality(Free(file)) /\ Cardinality(Free(file)) - n <= Cardinality(Free(file) \ S)
    BY <1>1, <1>4
  <2> HIDE DEF w
  <2>6. QED
    BY ONLY <2>1, <2>3, <2>4, <2>5
<1>8. Kept(g, pl, d) /\ Step(file, {}, g, Owns(g, pl, d))
  <2>1. /\ Step(file, {}, taken, S) /\ S \subseteq Free(file) /\ (\A x \in S : taken.next[x] = -1)
        /\ p \in S /\ q \in S /\ r \in S /\ p # q /\ r \notin {p, q}
    BY <1>4
  <2>2. /\ d \in Schemas /\ d.root \in S \ {p, q, r} /\ RootsDiffer(d) /\ Roots(d) \subseteq S \ {p, q, r, d.root}
        /\ S = {p, q, r, d.root} \cup Roots(d)
    BY <1>4, <1>6
  <2>3. PagesFor(FileOf(Stream(d))) - 1 <= Cardinality(Free(file) \ S)
    BY <1>7
  <2>4. QED
    BY ONLY <2>1, <2>2, <2>3, TableBuilt
<1> HIDE DEF g, w, pl
<1>9. t \notin DOMAIN place /\ DOMAIN declared = DOMAIN place /\ \A u \in DOMAIN declared : declared[u] \in Schemas
  BY <1>1, <1>2 DEF Exists, Arranged, Kept, Holds
<1>10. /\ DOMAIN place' = DOMAIN place \cup {t} /\ DOMAIN declared' = DOMAIN place \cup {t}
       /\ place'[t] = pl /\ declared'[t] = d
       /\ \A u \in DOMAIN place : u # t /\ place'[u] = place[u] /\ declared'[u] = declared[u]
  BY <1>1, <1>9 DEF Edited
<1> DEFINE pls == place
           ds == declared
           npls == place'
           nds == declared'
<1>11. OthersStay(t, pls, ds, npls, nds)
  BY <1>9, <1>10 DEF OthersStay
<1>12. Arranged(g, npls, nds)
  <2> DEFINE N == {}
             Q == Owns(g, pl, d)
  <2>1. /\ N = IF t \in DOMAIN pls THEN Owns(file, pls[t], ds[t]) ELSE {}
        /\ Arranged(file, pls, ds) /\ Step(file, N, g, Q) /\ OthersStay(t, pls, ds, npls, nds)
        /\ t \in DOMAIN npls /\ Kept(g, npls[t], nds[t]) /\ Q = Owns(g, npls[t], nds[t])
    BY <1>2, <1>8, <1>9, <1>10, <1>11
  <2> HIDE DEF pls, ds, npls, nds, N, Q
  <2>2. QED
    BY <2>1, ArrangedAfter
<1>13. IDsUnique(nds, new)
  <2>1. /\ last \in Nat /\ IDsUnique(ds, last) /\ (\A u \in DOMAIN ds : ds[u] \in Schemas)
        /\ new \in Nat /\ last <= new /\ (\A u \in DOMAIN nds : u # t => u \in DOMAIN ds /\ nds[u] = ds[u])
        /\ (t \in DOMAIN nds => /\ nds[t] \in Schemas /\ UniqueIn(nds[t], new)
                                /\ Fresh(nds[t], last) \/ (t \in DOMAIN ds /\ FreshOrFrom(ds[t], nds[t], last)))
    BY <1>2, <1>6, <1>9, <1>10
  <2> HIDE DEF ds, nds, last
  <2>2. QED
    BY ONLY <2>1, IDsAfter
<1>14. edits' \in 0 .. MaxEdits
  BY <1>1, SchemaStreamAssumption DEF IInv, EditsLeft
<1>15. Arranged(file', place', declared') /\ IDsUnique(declared', lastObjectID') /\ lastObjectID' \in Nat
  BY <1>1, <1>5, <1>6, <1>12, <1>13
<1>16. QED
  BY <1>14, <1>15 DEF IInv, IDsAreUnique, IDsUnique

-----------------------------------------------------------------------------
(* The invariant, and what follows from it.                                *)

LEMMA InvariantHolds == Spec => []IInv
<1>1. Init => IInv
  BY InitHolds
<1>2. IInv /\ [Next]_vars => IInv'
  <2>1. SUFFICES ASSUME IInv, [Next]_vars PROVE IInv'
    OBVIOUS
  <2>2. CASE UNCHANGED vars
    BY <2>1, <2>2 DEF vars, IInv, IDsAreUnique
  <2>3. CASE Next
    <3>1. PICK t \in Tables :
            \/ \E names \in ColumnLists, list \in ConstraintLists : CreateTable(t, names, list)
            \/ DropTable(t)
            \/ \E name \in IndexNames :
                 \/ \E columns \in Lists(ColumnNames), unique, nocase \in BOOLEAN :
                      CreateIndex(t, name, columns, unique, nocase)
                 \/ DropIndex(t, name)
            \/ \E name \in ColumnNames : AddColumn(t, name) \/ DropColumn(t, name)
      BY <2>3 DEF Next
    <3>2. CASE \E names \in ColumnLists, list \in ConstraintLists : CreateTable(t, names, list)
      BY <2>1, <3>2, CreateTableKeeps
    <3>3. CASE DropTable(t)
      BY <2>1, <3>3, DropTableKeeps
    <3>4. CASE \E name \in IndexNames, columns \in Lists(ColumnNames), unique, nocase \in BOOLEAN :
                 CreateIndex(t, name, columns, unique, nocase)
      BY <2>1, <3>4, CreateIndexKeeps
    <3>5. CASE \E name \in IndexNames : DropIndex(t, name)
      BY <2>1, <3>5, DropIndexKeeps
    <3>6. CASE \E name \in ColumnNames : AddColumn(t, name)
      BY <2>1, <3>6, AddColumnKeeps
    <3>7. CASE \E name \in ColumnNames : DropColumn(t, name)
      BY <2>1, <3>7, DropColumnKeeps
    <3>8. QED
      BY <3>1, <3>2, <3>3, <3>4, <3>5, <3>6, <3>7
  <2>4. QED
    BY <2>1, <2>2, <2>3
<1>3. QED
  BY <1>1, <1>2, PTL DEF Spec

\* A table's file, read by its whole chain.
LEMMA FilesSayStreams ==
  ASSUME IInv, NEW t \in DOMAIN place
  PROVE  /\ declared[t] \in Schemas /\ Kept(file, place[t], declared[t])
         /\ FileOfTable(t) = Parsed(Len(Stream(declared[t])) + 2, Stream(declared[t]))
         /\ Stored(file, SchemaChain(file, place[t]), FileOf(Stream(declared[t])))
<1> DEFINE d == declared[t]
           s == Stream(d)
           c == SchemaChain(file, place[t])
<1>1. file \in Files /\ Kept(file, place[t], d)
  BY DEF IInv, Arranged
<1>2. d \in Schemas /\ Stored(file, c, FileOf(s))
  BY <1>1 DEF Kept, Holds
<1>3. s \in Seq(Token)
  BY <1>2, StreamParts
<1>4. Decompressed(PagesRead(file.data, c)) = Parsed(Len(s) + 2, s)
  BY <1>1, <1>2, <1>3, FilesAreRead
<1>5. FileOfTable(t) = Decompressed(PagesRead(file.data, c))
  BY DEF FileOfTable, WholeFile, PagesRead, SchemaChain
<1>6. QED
  BY <1>1, <1>2, <1>4, <1>5

\* The stream of a table (createIndexPlan.splice, dropIndexPlan, addColumnPlan,
\* dropColumnPlan) reads back as what its operations have declared, whatever their
\* number and order, the tables, the capacity of a page and the pages of the file.
THEOREM StreamsSayWhatIsDeclared == Spec => []StreamsSayWhatWasDeclared
<1>1. IInv => StreamsSayWhatWasDeclared
  <2>1. SUFFICES ASSUME IInv, NEW t \in DOMAIN place
                 PROVE  FileOfTable(t).pos # 0 /\ Understood(FileOfTable(t).val) /\ Meaning(FileOfTable(t).val) = declared[t]
    BY DEF StreamsSayWhatWasDeclared
  <2> DEFINE s == Stream(declared[t])
  <2>2. declared[t] \in Schemas /\ FileOfTable(t) = Parsed(Len(s) + 2, s)
    BY <2>1, FilesSayStreams
  <2>3. Understood(s) /\ Meaning(s) = declared[t]
    BY <2>2, StreamIsParsed
  <2>4. Len(s) \in Nat
    BY <2>2, StreamParts
  <2> HIDE DEF s
  <2>5. FileOfTable(t).pos = Len(s) + 2 /\ FileOfTable(t).val = s
    BY <2>2 DEF Parsed
  <2>6. QED
    BY <2>3, <2>4, <2>5
<1>2. QED
  BY <1>1, InvariantHolds, PTL

\* No stream a table ever has reads as a shorter schema when it is cut off, wherever
\* that is (parseSchemaTail measures what is behind the records).
THEOREM CutStreamsAreAlwaysRefused == Spec => []CutStreamsAreRefused
<1>1. IInv => CutStreamsAreRefused
  <2>1. SUFFICES ASSUME IInv, NEW t \in DOMAIN place, NEW n \in 0 .. (Len(FileOfTable(t).val) - 1)
                 PROVE  ~Understood(SubSeq(FileOfTable(t).val, 1, n))
    BY DEF CutStreamsAreRefused
  <2> DEFINE s == Stream(declared[t])
  <2>2. declared[t] \in Schemas /\ FileOfTable(t) = Parsed(Len(s) + 2, s)
    BY <2>1, FilesSayStreams
  <2> HIDE DEF s
  <2>3. FileOfTable(t).val = s
    BY <2>2 DEF Parsed
  <2>4. n \in 0 .. Len(s) - 1
    BY <2>1, <2>3
  <2>5. ~Understood(SubSeq(s, 1, n))
    BY <2>2, <2>4, CutStreamRefused DEF s
  <2>6. QED
    BY <2>3, <2>5
<1>2. QED
  BY <1>1, InvariantHolds, PTL

\* No two columns, indexes or constraints of the file, dropped and created in whatever
\* order and with whatever keys (planNewTable counts them), come to have one id.
THEOREM IDsStayUnique == Spec => []IDsAreUnique
<1>1. IInv => IDsAreUnique
  BY DEF IInv
<1>2. QED
  BY <1>1, InvariantHolds, PTL

\* The sets a table's pages are in, one behind the other.
LEMMA OwnedLaws ==
  ASSUME IInv, NEW t \in DOMAIN place
  PROVE  LET d == declared[t]
             n == Len(d.indexes)
         IN  /\ n \in Nat /\ DOMAIN d.indexes = 1 .. n /\ DOMAIN Owned(t) = 1 .. n + 3
             /\ Owned(t)[1] = ToSet(SystemChain(file, place[t])) /\ Owned(t)[2] = ToSet(SchemaChain(file, place[t]))
             /\ Owned(t)[3] = {d.root} /\ \A i \in 1 .. n : Owned(t)[i + 3] = {d.indexes[i].root}
             /\ UNION ToSet(Owned(t)) = Owns(file, place[t], d)
<1> DEFINE d == declared[t]
           n == Len(d.indexes)
           A == ToSet(SystemChain(file, place[t]))
           C == ToSet(SchemaChain(file, place[t]))
           three == <<A, C, {d.root}>>
           roots == [i \in DOMAIN d.indexes |-> {d.indexes[i].root}]
           P == Owns(file, place[t], d)
<1>1. d \in Schemas /\ n \in Nat /\ DOMAIN d.indexes = 1 .. n
  <2>1. d \in Schemas
    BY FilesSayStreams
  <2>2. QED
    BY <2>1 DEF Schemas
<1>2. Owned(t) = three \o roots
  BY DEF Owned, SystemChain, SchemaChain
<1>3. P = ((A \cup C) \cup {d.root}) \cup Roots(d)
  BY DEF Owns, Pieces
<1>4. A \in SUBSET P /\ C \in SUBSET P /\ {d.root} \in SUBSET P /\ \A i \in 1 .. n : {d.indexes[i].root} \in SUBSET P
  BY <1>1, <1>3 DEF Roots
<1> HIDE DEF A, C, P
<1>5. three \in Seq(SUBSET P) /\ Len(three) = 3 /\ three[1] = A /\ three[2] = C /\ three[3] = {d.root}
  BY <1>4
<1>6. roots \in Seq(SUBSET P) /\ Len(roots) = n /\ \A i \in 1 .. n : roots[i] = {d.indexes[i].root}
  <2>1. roots \in [1 .. n -> SUBSET P]
    BY <1>1, <1>4
  <2>2. QED
    BY <1>1, <2>1
<1> HIDE DEF three, roots
<1>7. /\ DOMAIN (three \o roots) = 1 .. Len(three) + Len(roots)
      /\ \A i \in 1 .. Len(three) : (three \o roots)[i] = three[i]
      /\ \A i \in 1 .. Len(roots) : (three \o roots)[i + Len(three)] = roots[i]
  <2>1. three \in Seq(SUBSET P) /\ roots \in Seq(SUBSET P)
    BY <1>5, <1>6
  <2>2. QED
    BY ONLY <2>1, ConcatenationLaws
<1>8. /\ DOMAIN Owned(t) = 1 .. n + 3 /\ Owned(t)[1] = A /\ Owned(t)[2] = C /\ Owned(t)[3] = {d.root}
      /\ \A i \in 1 .. n : Owned(t)[i + 3] = {d.indexes[i].root}
  BY <1>1, <1>2, <1>5, <1>6, <1>7, SMTT(60)
<1>9. \A x : x \in UNION ToSet(Owned(t)) <=> x \in P
  <2>1. ASSUME NEW x \in UNION ToSet(Owned(t)) PROVE x \in P
    <3>1. PICK k \in 1 .. n + 3 : x \in Owned(t)[k]
      BY <1>8 DEF ToSet
    <3>2. k \in {1, 2, 3} \/ (k - 3 \in 1 .. n /\ (k - 3) + 3 = k)
      BY <1>1
    <3>3. Owned(t)[k] \in SUBSET P
      <4>1. CASE k \in {1, 2, 3}
        BY <1>4, <1>8, <4>1
      <4>2. CASE k - 3 \in 1 .. n /\ (k - 3) + 3 = k
        <5>1. Owned(t)[(k - 3) + 3] = {d.indexes[k - 3].root}
          BY <1>8, <4>2
        <5>2. QED
          BY <1>4, <4>2, <5>1
      <4>3. QED
        BY <3>2, <4>1, <4>2
    <3>4. QED
      BY <3>1, <3>3
  <2>2. ASSUME NEW x \in P PROVE x \in UNION ToSet(Owned(t))
    <3>1. \A k \in 1 .. n + 3 : Owned(t)[k] \in ToSet(Owned(t))
      BY <1>8 DEF ToSet
    <3>2. 1 \in 1 .. n + 3 /\ 2 \in 1 .. n + 3 /\ 3 \in 1 .. n + 3 /\ \A i \in 1 .. n : i + 3 \in 1 .. n + 3
      BY <1>1
    <3>3. x \in A \/ x \in C \/ x = d.root \/ \E i \in 1 .. n : x = d.indexes[i].root
      BY <1>1, <1>3 DEF P, Roots
    <3>4. \E k \in 1 .. n + 3 : x \in Owned(t)[k]
      BY <1>8, <3>2, <3>3
    <3>5. QED
      BY <3>1, <3>4
  <2>3. QED
    BY <2>1, <2>2
<1>10. UNION ToSet(Owned(t)) = P
  BY <1>9
<1>11. QED
  BY <1>1, <1>8, <1>10 DEF A, C, P

LEMMA OwnedSetsAreSeparate ==
  ASSUME IInv, NEW t \in DOMAIN place, NEW i \in DOMAIN Owned(t), NEW j \in DOMAIN Owned(t),
         Owned(t)[i] \cap Owned(t)[j] # {}
  PROVE  i = j
<1> DEFINE d == declared[t]
           n == Len(d.indexes)
           A == ToSet(SystemChain(file, place[t]))
           C == ToSet(SchemaChain(file, place[t]))
           Nth(k) == Owned(t)[k]
<1>1. /\ n \in Nat /\ DOMAIN d.indexes = 1 .. n /\ DOMAIN Owned(t) = 1 .. n + 3
      /\ Nth(1) = A /\ Nth(2) = C /\ Nth(3) = {d.root} /\ \A k \in 1 .. n : Owned(t)[k + 3] = {d.indexes[k].root}
  BY OwnedLaws
<1>2. A \cap C = {} /\ d.root \notin A \cup C /\ Roots(d) \cap ((A \cup C) \cup {d.root}) = {} /\ RootsDiffer(d)
  BY FilesSayStreams DEF Kept, Holds, Apart
<1> HIDE DEF A, C, n
<1>3. ASSUME NEW k \in DOMAIN Owned(t)
      PROVE  k \in {1, 2, 3} \/ (k - 3 \in 1 .. n /\ Nth(k) = {d.indexes[k - 3].root} /\ Nth(k) \subseteq Roots(d) /\ k \in Int)
  <2>1. k \in {1, 2, 3} \/ (k - 3 \in 1 .. n /\ (k - 3) + 3 = k /\ k \in Int)
    BY <1>1
  <2>2. \A m \in 1 .. n : d.indexes[m].root \in Roots(d)
    BY <1>1 DEF Roots
  <2>3. QED
    BY <1>1, <2>1, <2>2
<1>4. Nth(i) \cap Nth(j) # {}
  OBVIOUS
<1> HIDE DEF Nth, d
<1>5. CASE i \in {1, 2, 3} /\ j \in {1, 2, 3}
  BY <1>1, <1>2, <1>4, <1>5
<1>6. CASE i \in {1, 2, 3} /\ j \notin {1, 2, 3}
  BY <1>1, <1>2, <1>3, <1>4, <1>6
<1>7. CASE i \notin {1, 2, 3} /\ j \in {1, 2, 3}
  BY <1>1, <1>2, <1>3, <1>4, <1>7
<1>8. CASE i \notin {1, 2, 3} /\ j \notin {1, 2, 3}
  <2>1. d.indexes[i - 3].root = d.indexes[j - 3].root /\ i - 3 \in 1 .. n /\ j - 3 \in 1 .. n /\ i \in Int /\ j \in Int
    BY <1>3, <1>4, <1>8
  <2>2. i - 3 = j - 3
    BY <1>1, <1>2, <2>1 DEF RootsDiffer
  <2>3. QED
    BY <2>1, <2>2
<1>9. QED
  BY <1>5, <1>6, <1>7, <1>8

LEMMA TypesFollow ==
  ASSUME IInv
  PROVE  TypeOK
<1>1. file \in Files /\ DOMAIN place \subseteq Tables /\ DOMAIN declared = DOMAIN place /\ lastObjectID \in Nat
      /\ edits \in 0 .. MaxEdits
  BY DEF IInv, Arranged
<1>2. file \in [allocated : SUBSET Pages, data : [Pages -> Seq(Token)], next : [Pages -> PageNumbers]]
      /\ \A p \in Pages : Len(file.data[p]) = Capacity
  BY <1>1 DEF Files, Blocks
<1>3. ASSUME NEW t \in DOMAIN place PROVE {place[t].system, place[t].schema} \subseteq file.allocated
  <2> DEFINE a == SystemChain(file, place[t])
             c == SchemaChain(file, place[t])
  <2>1. Holds(file, place[t], declared[t], a, c)
    BY FilesSayStreams DEF Kept
  <2> HIDE DEF a, c
  <2>2. /\ IsChain(file.next, a) /\ IsChain(file.next, c) /\ a[1] = place[t].system /\ c[1] = place[t].schema
        /\ ToSet(a) \subseteq file.allocated /\ ToSet(c) \subseteq file.allocated
    BY <2>1 DEF Holds, Stored, Pieces
  <2>3. 1 \in DOMAIN a /\ 1 \in DOMAIN c
    BY <2>2 DEF IsChain
  <2>4. QED
    BY <2>2, <2>3 DEF ToSet
<1>4. QED
  BY <1>1, <1>2, <1>3 DEF TypeOK, Token

\* Every page in use is in one chain of one table (Resized, applyDrop and freeChainPages
\* link and release them) or is one of its roots, no chain runs into another, and none
\* is longer than its file.
THEOREM ChainsStaySeparate == Spec => []ChainsAreSeparate
<1>1. IInv => ChainsAreSeparate
  <2>1. SUFFICES ASSUME IInv PROVE ChainsAreSeparate
    OBVIOUS
  <2>2. TypeOK
    BY <2>1, TypesFollow
  <2>3. ASSUME NEW t \in DOMAIN place, NEW u \in DOMAIN place, NEW i \in DOMAIN Owned(t), NEW j \in DOMAIN Owned(u),
               Owned(t)[i] \cap Owned(u)[j] # {}
        PROVE  t = u /\ i = j
    <3>1. t = u
      <4>1. UNION ToSet(Owned(t)) = Owns(file, place[t], declared[t]) /\ UNION ToSet(Owned(u)) = Owns(file, place[u], declared[u])
        BY <2>1, OwnedLaws
      <4>2. Owned(t)[i] \subseteq UNION ToSet(Owned(t)) /\ Owned(u)[j] \subseteq UNION ToSet(Owned(u))
        BY DEF ToSet
      <4>3. Arranged(file, place, declared)
        BY <2>1 DEF IInv
      <4>4. t # u => Owns(file, place[t], declared[t]) \cap Owns(file, place[u], declared[u]) = {}
        BY <4>3 DEF Arranged
      <4>5. QED
        BY <2>3, <4>1, <4>2, <4>4
    <3>2. QED
      BY <2>1, <2>3, <3>1, OwnedSetsAreSeparate
  <2>4. UNION {UNION ToSet(Owned(t)) : t \in DOMAIN place} = file.allocated
    <3>1. \A t \in DOMAIN place : UNION ToSet(Owned(t)) = Owns(file, place[t], declared[t])
      BY <2>1, OwnedLaws
    <3>2. UNION {Owns(file, place[t], declared[t]) : t \in DOMAIN place} = file.allocated
      BY <2>1 DEF IInv, Arranged
    <3>3. QED
      BY <3>1, <3>2
  <2>5. ASSUME NEW t \in DOMAIN place
        PROVE  Len(ChainFrom(file.next, place[t].schema)) = PagesFor(FileOf(FileOfTable(t).val))
    <3> DEFINE s == Stream(declared[t])
    <3>1. FileOfTable(t) = Parsed(Len(s) + 2, s) /\ Stored(file, SchemaChain(file, place[t]), FileOf(s))
      BY <2>1, FilesSayStreams
    <3> HIDE DEF s
    <3>2. FileOfTable(t).val = s
      BY <3>1 DEF Parsed
    <3>3. QED
      BY <3>1, <3>2 DEF Stored, SchemaChain
  <2>6. QED
    BY <2>2, <2>3, <2>4, <2>5 DEF ChainsAreSeparate
<1>2. QED
  BY <1>1, InvariantHolds, PTL
=============================================================================
