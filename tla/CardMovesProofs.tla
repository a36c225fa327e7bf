-------------------------- MODULE CardMovesProofs --------------------------
(***************************************************************************)
(* For any cards, columns, gestures and failures: the page has what the    *)
(* server has once nothing is being saved or read, and a drop leaves the   *)
(* lists as they were dropped.                                             *)
(***************************************************************************)
EXTENDS CardMoves, FiniteLemmas

-----------------------------------------------------------------------------
(* The lists of a page. *)

Before(rows, i, j) == rows[i].pos < rows[j].pos \/ (rows[i].pos = rows[j].pos /\ i < j)
ByPos(rows, S) == {p \in S \X S : Before(rows, p[1], p[2])}

LEMMA ByPosIsBefore ==
    ASSUME NEW rows, NEW S, NEW x \in S, NEW y \in S
    PROVE  <<x, y>> \in ByPos(rows, S) <=> Before(rows, x, y)
<1>1. <<x, y>> \in S \X S /\ <<x, y>>[1] = x /\ <<x, y>>[2] = y
  OBVIOUS
<1> QED
  BY <1>1 DEF ByPos

LEMMA ByPosLinear ==
    ASSUME NEW rows \in Rows, NEW S \in SUBSET Issues
    PROVE  IsFiniteSet(S) /\ Linear(ByPos(rows, S), S)
<1>1. IsFiniteSet(S)
  BY FS_Subset, IssuesAssumption
<1>2. \A x \in S : x \in Nat /\ rows[x].pos \in Nat
  BY IssuesAssumption DEF Rows, Row
<1>3. \A x, y \in S : <<x, y>> \in ByPos(rows, S) <=> Before(rows, x, y)
  BY ByPosIsBefore
<1> QED
  BY <1>1, <1>2, <1>3 DEF Linear, Before

\* A list shows each of its issues once, and there is one order it can show them in.
LEMMA SortedEnumerates ==
    ASSUME NEW rows \in Rows, NEW S \in SUBSET Issues
    PROVE  /\ Enumerates(Sorted(rows, S), ByPos(rows, S), S)
           /\ \A s : Enumerates(s, ByPos(rows, S), S) => s = Sorted(rows, S)
<1>1. IsFiniteSet(S) /\ Linear(ByPos(rows, S), S)
  BY ByPosLinear
<1>2. PICK r : Enumerates(r, ByPos(rows, S), S)
  BY <1>1, EnumerationExists
<1> DEFINE F == [1..Cardinality(S) -> S]
           P(s) == \A m, n \in DOMAIN s : m < n =>
                      rows[s[m]].pos < rows[s[n]].pos \/ (rows[s[m]].pos = rows[s[n]].pos
                         /\ s[m] < s[n])
<1>3. ASSUME NEW s \in F
      PROVE  Along(ByPos(rows, S), s) <=> P(s)
  <2>1. \A m, n \in DOMAIN s : <<s[m], s[n]>> \in ByPos(rows, S) <=> Before(rows, s[m], s[n])
    BY ByPosIsBefore
  <2> QED
    BY <2>1 DEF Along, Before
<1>4. Sorted(rows, S) = CHOOSE s \in F : P(s)
  BY DEF Sorted
<1>5. r \in F /\ P(r)
  BY <1>2, <1>3 DEF Enumerates
<1> HIDE DEF F, P
<1>6. Sorted(rows, S) \in F /\ P(Sorted(rows, S))
  BY <1>4, <1>5
<1>7. Enumerates(Sorted(rows, S), ByPos(rows, S), S)
  BY <1>3, <1>6 DEF Enumerates, F
<1> QED
  BY <1>1, <1>7, EnumerationUnique

Shows(rows, c) == {i \in Issues : rows[i].status = c}

LEMMA RenderedLists ==
    ASSUME NEW rows \in Rows
    PROVE  /\ Rendered(rows) \in Lists
           /\ \A c \in Listed : Enumerates(Rendered(rows)[c], ByPos(rows, Shows(rows, c)),
                 Shows(rows, c))
           /\ \A c \in Listed : \A m, n \in DOMAIN Rendered(rows)[c] :
                 Rendered(rows)[c][m] = Rendered(rows)[c][n] => m = n
<1>1. ASSUME NEW c \in Listed
      PROVE  /\ Enumerates(Rendered(rows)[c], ByPos(rows, Shows(rows, c)), Shows(rows, c))
             /\ Rendered(rows)[c] \in Seq(Issues)
             /\ \A m, n \in DOMAIN Rendered(rows)[c] :
                   Rendered(rows)[c][m] = Rendered(rows)[c][n] => m = n
  <2> DEFINE S == Shows(rows, c)
  <2>1. Rendered(rows)[c] = Sorted(rows, S)
    BY DEF Rendered, Shows
  <2>2. S \in SUBSET Issues
    BY DEF Shows
  <2> HIDE DEF S
  <2>3. Enumerates(Rendered(rows)[c], ByPos(rows, S), S)
    BY <2>1, <2>2, SortedEnumerates
  <2>4. IsFiniteSet(S) /\ Linear(ByPos(rows, S), S)
    BY <2>2, ByPosLinear
  <2>5. \A m, n \in DOMAIN Rendered(rows)[c] :
           Rendered(rows)[c][m] = Rendered(rows)[c][n] => m = n
    BY <2>3, <2>4, EnumerationRanks, Zenon
  <2>6. Cardinality(S) \in Nat /\ Rendered(rows)[c] \in [1..Cardinality(S) -> Issues]
    BY <2>2, <2>3, <2>4, FS_CardinalityType DEF Enumerates
  <2>7. Rendered(rows)[c] \in Seq(Issues)
    BY <2>6
  <2> QED
    BY <2>3, <2>5, <2>7 DEF S
<1>2. Rendered(rows) = [c \in Listed |-> Rendered(rows)[c]]
  BY DEF Rendered
<1>3. Rendered(rows) \in Lists
  BY <1>1, <1>2 DEF Lists
<1> QED
  BY <1>1, <1>3

LEMMA Concatenated ==
    ASSUME NEW X, NEW a \in Seq(X), NEW b \in Seq(X)
    PROVE  /\ a \o b \in Seq(X) /\ <<>> \o b = b
           /\ Len(a) \in Nat /\ Len(b) \in Nat
           /\ DOMAIN a = 1..Len(a) /\ DOMAIN b = 1..Len(b)
           /\ DOMAIN (a \o b) = 1..(Len(a) + Len(b))
           /\ \A n \in 1..Len(a) : n \in DOMAIN (a \o b) /\ (a \o b)[n] = a[n]
           /\ \A n \in 1..Len(b) :
                 Len(a) + n \in DOMAIN (a \o b) /\ (a \o b)[Len(a) + n] = b[n]
           /\ \A n \in DOMAIN (a \o b) :
                 n \in 1..Len(a) \/ (n - Len(a) \in 1..Len(b) /\ (a \o b)[n] = b[n - Len(a)])
<1>1. /\ a \o b \in Seq(X) /\ <<>> \o b = b
      /\ Len(a) \in Nat /\ Len(b) \in Nat
      /\ DOMAIN a = 1..Len(a) /\ DOMAIN b = 1..Len(b)
      /\ DOMAIN (a \o b) = 1..(Len(a) + Len(b))
  OBVIOUS
<1>2. \A n \in 1..Len(a) : n \in 1..(Len(a) + Len(b)) /\ (a \o b)[n] = a[n]
  OBVIOUS
<1>3. \A n \in 1..Len(b) :
         Len(a) + n \in 1..(Len(a) + Len(b)) /\ (a \o b)[Len(a) + n] = b[n]
  OBVIOUS
<1>4. \A n \in 1..(Len(a) + Len(b)) :
         n \in 1..Len(a) \/ (n - Len(a) \in 1..Len(b) /\ (a \o b)[n] = b[n - Len(a)])
  OBVIOUS
<1> QED
  BY <1>1, <1>2, <1>3, <1>4

LEMMA FlattenIs ==
    ASSUME NEW X, NEW s \in Seq(Seq(X)), Len(s) # 0
    PROVE  \E f \in [1..Len(s) -> Seq(X)] :
              /\ FlattenSeq(s) = f[Len(s)]
              /\ \A i \in 1..Len(s) : f[i] = IF i = 1 THEN s[i] ELSE f[i - 1] \o s[i]
<1> DEFINE N == Len(s)
           Def(f) == f = [i \in 1..N |-> IF i = 1 THEN s[i] ELSE f[i - 1] \o s[i]]
           step == [i \in 1..N |-> [u \in Seq(X) |-> u \o s[i]]]
<1>1. N \in Nat /\ N \in 1..N /\ \A i \in 1..N : s[i] \in Seq(X)
  OBVIOUS
<1>2. FlattenSeq(s) = (CHOOSE f : Def(f))[N]
  BY DEF FlattenSeq
<1>3. step \in [1..N -> [Seq(X) -> Seq(X)]] /\ <<>> \in Seq(X)
  BY <1>1
<1>4. \A i \in 1..N, u \in Seq(X) : step[i][u] = u \o s[i]
  OBVIOUS
<1> HIDE DEF step
<1>5. PICK g : Iteration(g, Seq(X), N, <<>>, step)
  <2> HIDE DEF N
  <2> QED
    BY <1>1, <1>3, IterationExists
<1> DEFINE h == [i \in 1..N |-> g[i]]
<1> HIDE DEF N
<1>6. /\ \A i \in 0..N : g[i] \in Seq(X)
      /\ g[0] = <<>>
      /\ \A i \in 1..N : g[i] = g[i - 1] \o s[i]
  <2>1. g \in [0..N -> Seq(X)] /\ g[0] = <<>> /\ \A i \in 1..N : g[i] = step[i][g[i - 1]]
    BY <1>5 DEF Iteration
  <2>2. \A i \in 1..N : i - 1 \in 0..N
    BY <1>1
  <2> QED
    BY <1>4, <2>1, <2>2
<1>7. h \in [1..N -> Seq(X)]
  BY <1>1, <1>6
<1>8. \A i \in 1..N : h[i] = IF i = 1 THEN s[i] ELSE h[i - 1] \o s[i]
  <2> SUFFICES ASSUME NEW i \in 1..N
               PROVE  h[i] = IF i = 1 THEN s[i] ELSE h[i - 1] \o s[i]
    OBVIOUS
  <2>1. h[i] = g[i - 1] \o s[i] /\ s[i] \in Seq(X)
    BY <1>1, <1>6
  <2>2. CASE i = 1
    <3>1. i - 1 = 0 /\ g[0] = <<>>
      BY <1>6, <2>2
    <3>2. h[i] = <<>> \o s[i]
      BY <2>1, <3>1
    <3>3. <<>> \o s[i] = s[i]
      BY <2>1
    <3> QED
      BY <2>2, <3>2, <3>3
  <2>3. CASE i # 1
    <3>1. i - 1 \in 1..N
      BY <1>1, <2>3
    <3> QED
      BY <2>1, <2>3, <3>1
  <2> QED
    BY <2>2, <2>3
<1>9. Def(h)
  <2>1. h = [i \in 1..N |-> h[i]]
    OBVIOUS
  <2> HIDE DEF h
  <2> QED
    BY <1>8, <2>1
<1> HIDE DEF h, Def
<1> DEFINE f == CHOOSE f : Def(f)
<1>10. Def(f)
  BY <1>9
<1> HIDE DEF f
<1>11. f = [i \in 1..N |-> IF i = 1 THEN s[i] ELSE f[i - 1] \o s[i]]
  BY <1>10 DEF Def
<1>12. \A i \in 1..N : f[i] = IF i = 1 THEN s[i] ELSE f[i - 1] \o s[i]
  BY <1>11, Zenon
<1>13. \A i \in 0..N : i = 0 \/ f[i] \in Seq(X)
  <2> DEFINE T == {i \in 0..N : i = 0 \/ f[i] \in Seq(X)}
  <2>1. 0 \in T
    BY <1>1
  <2>2. ASSUME NEW i \in 1..N, i - 1 \in T
        PROVE  i \in T
    <3>1. CASE i = 1
      BY <1>1, <1>12, <3>1
    <3>2. CASE i # 1
      <4>1. f[i - 1] \in Seq(X)
        BY <1>1, <2>2, <3>2
      <4>2. f[i] = f[i - 1] \o s[i] /\ s[i] \in Seq(X)
        BY <1>1, <1>12, <3>2
      <4>3. f[i] \in Seq(X)
        BY <4>1, <4>2, Concatenated
      <4> QED
        BY <4>3
    <3> QED
      BY <3>1, <3>2
  <2> HIDE DEF T
  <2>3. \A i \in 0..N : i \in T
    BY <1>1, <2>1, <2>2, InductionUpTo
  <2> QED
    BY <2>3 DEF T
<1>14. f \in [1..N -> Seq(X)]
  <2>1. \A i \in 1..N : f[i] \in Seq(X)
    BY <1>1, <1>13
  <2>2. f = [i \in 1..N |-> f[i]]
    BY <1>11, <1>12
  <2> QED
    BY <2>1, <2>2
<1>15. FlattenSeq(s) = f[N]
  BY <1>2 DEF f
<1> QED
  BY <1>12, <1>14, <1>15 DEF N

\* Flattening keeps what the sequences hold.
LEMMA FlattenHolds ==
    ASSUME NEW X, NEW s \in Seq(Seq(X))
    PROVE  /\ FlattenSeq(s) \in Seq(X)
           /\ \A n \in DOMAIN FlattenSeq(s) :
                 \E k \in DOMAIN s : \E m \in DOMAIN s[k] : FlattenSeq(s)[n] = s[k][m]
           /\ \A k \in DOMAIN s : \A m \in DOMAIN s[k] :
                 \E n \in DOMAIN FlattenSeq(s) : FlattenSeq(s)[n] = s[k][m]
<1>1. CASE Len(s) = 0
  <2>1. FlattenSeq(s) = s /\ DOMAIN s = {}
    BY <1>1 DEF FlattenSeq
  <2> QED
    BY <1>1, <2>1
<1>2. CASE Len(s) # 0
  <2> DEFINE N == Len(s)
  <2>1. N \in Nat /\ N \in 1..N /\ DOMAIN s = 1..N /\ \A i \in 1..N : s[i] \in Seq(X)
    BY <1>2
  <2>2. PICK f \in [1..N -> Seq(X)] :
           /\ FlattenSeq(s) = f[N]
           /\ \A i \in 1..N : f[i] = IF i = 1 THEN s[i] ELSE f[i - 1] \o s[i]
    BY <1>2, FlattenIs
  <2> DEFINE Holds(i) ==
               /\ \A n \in DOMAIN f[i] : \E k \in 1..i : \E m \in DOMAIN s[k] : f[i][n] = s[k][m]
               /\ \A k \in 1..i : \A m \in DOMAIN s[k] : \E n \in DOMAIN f[i] : f[i][n] = s[k][m]
             T == {i \in 0..N : i = 0 \/ Holds(i)}
  <2> HIDE DEF N, Holds
  <2>3. 0 \in T
    BY <2>1
  <2>4. ASSUME NEW i \in 1..N, i - 1 \in T
        PROVE  i \in T
    <3>1. CASE i = 1
      <4>1. f[i] = s[i]
        BY <2>2, <3>1
      <4>2. Holds(i)
        <5>1. \A k \in 1..i : k = i
          BY <3>1
        <5>2. i \in 1..i
          BY <3>1
        <5> QED
          BY <4>1, <5>1, <5>2 DEF Holds
      <4> QED
        BY <2>1, <4>2
    <3>2. CASE i # 1
      <4> DEFINE a == f[i - 1]
                 b == s[i]
      <4>1. a \in Seq(X) /\ b \in Seq(X) /\ f[i] = a \o b /\ i - 1 \in 1..N /\ i \in Nat
        BY <2>1, <2>2, <3>2
      <4>2. Holds(i - 1)
        BY <2>1, <2>4, <4>1
      <4> HIDE DEF a, b
      <4>3. /\ DOMAIN a = 1..Len(a) /\ DOMAIN b = 1..Len(b)
            /\ \A n \in 1..Len(a) : n \in DOMAIN f[i] /\ f[i][n] = a[n]
            /\ \A n \in 1..Len(b) : Len(a) + n \in DOMAIN f[i] /\ f[i][Len(a) + n] = b[n]
            /\ \A n \in DOMAIN f[i] :
                  n \in 1..Len(a) \/ (n - Len(a) \in 1..Len(b) /\ f[i][n] = b[n - Len(a)])
        BY <4>1, Concatenated
      <4>4. 1..(i - 1) \subseteq 1..i /\ i \in 1..i /\ \A k \in 1..i : k # i => k \in 1..(i - 1)
        BY <4>1
      <4>5. /\ \A n \in DOMAIN a : \E k \in 1..(i - 1) : \E m \in DOMAIN s[k] : a[n] = s[k][m]
            /\ \A k \in 1..(i - 1) : \A m \in DOMAIN s[k] : \E n \in DOMAIN a : a[n] = s[k][m]
        BY <4>2 DEF Holds, a
      <4>6. ASSUME NEW n \in DOMAIN f[i]
            PROVE  \E k \in 1..i : \E m \in DOMAIN s[k] : f[i][n] = s[k][m]
        <5>1. CASE n \in 1..Len(a)
          <6>1. PICK k \in 1..(i - 1) : \E m \in DOMAIN s[k] : a[n] = s[k][m]
            BY <4>3, <4>5, <5>1
          <6>2. f[i][n] = a[n] /\ k \in 1..i
            BY <4>3, <4>4, <5>1
          <6> QED
            BY <6>1, <6>2
        <5>2. CASE n - Len(a) \in 1..Len(b) /\ f[i][n] = b[n - Len(a)]
          BY <4>3, <4>4, <5>2 DEF b
        <5> QED
          BY <4>3, <4>6, <5>1, <5>2
      <4>7. ASSUME NEW k \in 1..i, NEW m \in DOMAIN s[k]
            PROVE  \E n \in DOMAIN f[i] : f[i][n] = s[k][m]
        <5>1. CASE k = i
          <6>1. m \in 1..Len(b) /\ Len(a) + m \in DOMAIN f[i]
            BY <4>3, <5>1 DEF b
          <6>2. f[i][Len(a) + m] = s[k][m]
            BY <4>3, <5>1, <6>1 DEF b
          <6> QED
            BY <6>1, <6>2
        <5>2. CASE k # i
          <6>1. PICK n \in DOMAIN a : a[n] = s[k][m]
            BY <4>4, <4>5, <5>2
          <6>2. n \in DOMAIN f[i] /\ f[i][n] = a[n]
            BY <4>3, <6>1
          <6> QED
            BY <6>1, <6>2
        <5> QED
          BY <5>1, <5>2
      <4>8. Holds(i)
        BY <4>6, <4>7 DEF Holds
      <4> QED
        BY <2>1, <4>8
    <3> QED
      BY <3>1, <3>2
  <2> HIDE DEF T
  <2>5. \A i \in 0..N : i \in T
    BY <2>1, <2>3, <2>4, InductionUpTo
  <2>6. Holds(N)
    BY <2>1, <2>5 DEF T
  <2>7. FlattenSeq(s) = f[N] /\ f[N] \in Seq(X)
    BY <2>1, <2>2
  <2>8. /\ \A n \in DOMAIN f[N] : \E k \in 1..N : \E m \in DOMAIN s[k] : f[N][n] = s[k][m]
        /\ \A k \in 1..N : \A m \in DOMAIN s[k] : \E n \in DOMAIN f[N] : f[N][n] = s[k][m]
    BY <2>6 DEF Holds
  <2> DEFINE r == FlattenSeq(s)
  <2>9. r = f[N] /\ r \in Seq(X)
    BY <2>7
  <2> HIDE DEF r
  <2>10. /\ \A n \in DOMAIN r : \E k \in DOMAIN s : \E m \in DOMAIN s[k] : r[n] = s[k][m]
         /\ \A k \in DOMAIN s : \A m \in DOMAIN s[k] : \E n \in DOMAIN r : r[n] = s[k][m]
    <3>1. DOMAIN s = 1..N
      BY <2>1
    <3>2. ASSUME NEW n \in DOMAIN r
          PROVE  \E k \in DOMAIN s : \E m \in DOMAIN s[k] : r[n] = s[k][m]
      <4>1. PICK k \in 1..N : \E m \in DOMAIN s[k] : f[N][n] = s[k][m]
        BY <2>8, <2>9, <3>2
      <4> QED
        BY <2>9, <3>1, <4>1
    <3>3. ASSUME NEW k \in DOMAIN s, NEW m \in DOMAIN s[k]
          PROVE  \E n \in DOMAIN r : r[n] = s[k][m]
      <4>1. PICK n \in DOMAIN f[N] : f[N][n] = s[k][m]
        BY <2>8, <3>1
      <4> QED
        BY <2>9, <4>1
    <3> QED
      BY <3>2, <3>3
  <2> QED
    BY <2>9, <2>10 DEF r
<1> QED
  BY <1>1, <1>2

Place == [issue : Issues, status : Listed, pos : Nat]

LEMMA ColumnsListed == Columns \in Seq(STRING) /\ \A k \in DOMAIN Columns : Columns[k] \in Listed
BY ColumnsAssumption DEF Listed, ToSet

LEMMA ListedAreColumns ==
    ASSUME NEW c \in Listed
    PROVE  \E k \in DOMAIN Columns : Columns[k] = c
BY DEF Listed, ToSet

\* Every card of the page has a place, and every place a card.
LEMMA PlacesHold ==
    ASSUME NEW lists \in Lists
    PROVE  /\ Places(lists) \in Seq(Place)
           /\ \A n \in DOMAIN Places(lists) : \E c \in Listed : \E m \in DOMAIN lists[c] :
                 Places(lists)[n] = [issue |-> lists[c][m], status |-> c, pos |-> m - 1]
           /\ \A c \in Listed : \A m \in DOMAIN lists[c] : \E n \in DOMAIN Places(lists) :
                 Places(lists)[n] = [issue |-> lists[c][m], status |-> c, pos |-> m - 1]
<1> DEFINE at(c, m) == [issue |-> lists[c][m], status |-> c, pos |-> m - 1]
           s == [k \in DOMAIN Columns |-> [m \in DOMAIN lists[Columns[k]] |-> at(Columns[k], m)]]
<1>1. ASSUME NEW c \in Listed, NEW m \in DOMAIN lists[c]
      PROVE  at(c, m) \in Place
  <2>1. lists[c] \in Seq(Issues)
    BY DEF Lists
  <2>2. lists[c][m] \in Issues /\ m - 1 \in Nat
    BY <2>1
  <2> QED
    BY <2>2 DEF Place
<1> HIDE DEF at
<1>2. ASSUME NEW k \in DOMAIN Columns
      PROVE  /\ s[k] \in Seq(Place) /\ DOMAIN s[k] = DOMAIN lists[Columns[k]]
             /\ \A m \in DOMAIN s[k] : s[k][m] = at(Columns[k], m)
  <2>1. Columns[k] \in Listed
    BY ColumnsListed
  <2>2. lists[Columns[k]] \in Seq(Issues)
    BY <2>1 DEF Lists
  <2>3. Len(lists[Columns[k]]) \in Nat /\ DOMAIN lists[Columns[k]] = 1..Len(lists[Columns[k]])
    BY <2>2
  <2>4. s[k] = [m \in 1..Len(lists[Columns[k]]) |-> at(Columns[k], m)]
    BY <2>3
  <2>5. \A m \in 1..Len(lists[Columns[k]]) : at(Columns[k], m) \in Place
    BY <1>1, <2>1, <2>3
  <2>6. s[k] \in Seq(Place)
    BY <2>3, <2>4, <2>5
  <2> QED
    BY <2>3, <2>4, <2>6
<1>3. Len(Columns) \in Nat /\ DOMAIN Columns = 1..Len(Columns)
  BY ColumnsListed
<1>4. s \in Seq(Seq(Place)) /\ DOMAIN s = DOMAIN Columns
  <2>1. s \in [1..Len(Columns) -> Seq(Place)]
    <3>1. s = [k \in 1..Len(Columns) |-> s[k]]
      BY <1>3
    <3> HIDE DEF s
    <3> QED
      BY <1>2, <1>3, <3>1
  <2> HIDE DEF s
  <2> QED
    BY <1>3, <2>1
<1>5. Places(lists) = FlattenSeq(s)
  BY DEF Places, at
<1> HIDE DEF s
<1>6. /\ FlattenSeq(s) \in Seq(Place)
      /\ \A n \in DOMAIN FlattenSeq(s) :
            \E k \in DOMAIN s : \E m \in DOMAIN s[k] : FlattenSeq(s)[n] = s[k][m]
      /\ \A k \in DOMAIN s : \A m \in DOMAIN s[k] :
            \E n \in DOMAIN FlattenSeq(s) : FlattenSeq(s)[n] = s[k][m]
  BY <1>4, FlattenHolds
<1>7. ASSUME NEW n \in DOMAIN Places(lists)
      PROVE  \E c \in Listed : \E m \in DOMAIN lists[c] : Places(lists)[n] = at(c, m)
  <2>1. PICK k \in DOMAIN s : \E m \in DOMAIN s[k] : Places(lists)[n] = s[k][m]
    BY <1>5, <1>6
  <2>2. PICK m \in DOMAIN s[k] : Places(lists)[n] = s[k][m]
    BY <2>1
  <2>3. k \in DOMAIN Columns /\ Columns[k] \in Listed
    BY <1>4, ColumnsListed
  <2>4. m \in DOMAIN lists[Columns[k]] /\ Places(lists)[n] = at(Columns[k], m)
    BY <1>2, <2>2, <2>3
  <2> QED
    BY <2>3, <2>4
<1>8. ASSUME NEW c \in Listed, NEW m \in DOMAIN lists[c]
      PROVE  \E n \in DOMAIN Places(lists) : Places(lists)[n] = at(c, m)
  <2>1. PICK k \in DOMAIN Columns : Columns[k] = c
    BY ListedAreColumns
  <2>2. m \in DOMAIN s[k] /\ s[k][m] = at(c, m) /\ k \in DOMAIN s
    BY <1>2, <1>4, <2>1
  <2>3. PICK n \in DOMAIN FlattenSeq(s) : FlattenSeq(s)[n] = s[k][m]
    BY <1>6, <2>2
  <2> QED
    BY <1>5, <2>2, <2>3
<1> QED
  BY <1>5, <1>6, <1>7, <1>8 DEF at

-----------------------------------------------------------------------------
(* Cards are moved to their places one after the other. *)

AnyPlace == [issue : Issues, status : Statuses, pos : Nat]
Change == [issue : Issues, was : Row]
Update == [rows : Rows, changes : Seq(Change)]

PlacedAt(row, p) == [row EXCEPT !.status = p.status, !.pos = p.pos]

LEMMA MovedOne ==
    ASSUME NEW u \in Update, NEW p \in AnyPlace
    PROVE  /\ Moved(u, p) \in Update
           /\ Moved(u, p).rows[p.issue] = PlacedAt(u.rows[p.issue], p)
           /\ \A i \in Issues : i # p.issue => Moved(u, p).rows[i] = u.rows[i]
           /\ \/ Moved(u, p) = u
              \/ Moved(u, p).changes = Append(u.changes,
                    [issue |-> p.issue, was |-> u.rows[p.issue]])
<1>1. /\ u.rows \in Rows /\ u.changes \in Seq(Change) /\ u.rows[p.issue] \in Row
      /\ p.issue \in Issues /\ p.status \in Statuses /\ p.pos \in Nat
      /\ u.rows = [i \in Issues |-> u.rows[i]]
  BY DEF Update, Rows, AnyPlace
<1> DEFINE row == u.rows[p.issue]
<1>2. PlacedAt(row, p) \in Row
  BY <1>1 DEF PlacedAt, Row
<1>3. row.status = p.status /\ row.pos = p.pos => PlacedAt(row, p) = row
  BY <1>1 DEF PlacedAt, Row
<1> DEFINE rows == [u.rows EXCEPT ![p.issue] = PlacedAt(row, p)]
           changes == Append(u.changes, [issue |-> p.issue, was |-> row])
<1>4. /\ rows \in Rows /\ rows[p.issue] = PlacedAt(row, p)
      /\ \A i \in Issues : i # p.issue => rows[i] = u.rows[i]
  <2> HIDE DEF row
  <2> QED
    BY <1>1, <1>2 DEF Rows
<1>5. changes \in Seq(Change)
  <2>1. [issue |-> p.issue, was |-> row] \in Change
    BY <1>1 DEF Change
  <2> QED
    BY <1>1, <2>1
<1>6. Moved(u, p) = IF row.status = p.status /\ row.pos = p.pos THEN u
                    ELSE [rows |-> rows, changes |-> changes]
  BY DEF Moved, PlacedAt
<1> HIDE DEF row, rows, changes
<1>7. CASE row.status = p.status /\ row.pos = p.pos
  <2>1. Moved(u, p) = u
    BY <1>6, <1>7
  <2> QED
    BY <1>3, <1>7, <2>1 DEF row
<1>8. CASE ~(row.status = p.status /\ row.pos = p.pos)
  <2>1. Moved(u, p) = [rows |-> rows, changes |-> changes]
    BY <1>6, <1>8
  <2>2. Moved(u, p).rows = rows /\ Moved(u, p).changes = changes
    BY <2>1
  <2>3. Moved(u, p) \in Update
    BY <1>4, <1>5, <2>1 DEF Update
  <2> QED
    BY <1>4, <2>2, <2>3 DEF row, changes
<1> QED
  BY <1>7, <1>8

LEMMA ReorderedIs ==
    ASSUME NEW rows \in Rows, NEW places \in Seq(AnyPlace)
    PROVE  \E f \in [0..Len(places) -> Update] :
              /\ Reordered(rows, places) = f[Len(places)]
              /\ f[0] = [rows |-> rows, changes |-> <<>>]
              /\ \A n \in 1..Len(places) : f[n] = Moved(f[n - 1], places[n])
<1> DEFINE N == Len(places)
           start == [rows |-> rows, changes |-> <<>>]
           step == [n \in 1..N |-> [u \in Update |-> Moved(u, places[n])]]
           Def(f) == f = [n \in 0..N |-> IF n = 0 THEN start ELSE Moved(f[n - 1], places[n])]
<1>1. N \in Nat /\ \A n \in 1..N : places[n] \in AnyPlace
  OBVIOUS
<1>2. start \in Update
  BY DEF Update
<1> HIDE DEF start
<1>3. step \in [1..N -> [Update -> Update]]
  BY <1>1, MovedOne
<1>4. \A n \in 1..N, u \in Update : step[n][u] = Moved(u, places[n])
  OBVIOUS
<1>5. Reordered(rows, places) = (CHOOSE f : Def(f))[N]
  BY DEF Reordered, start
<1> HIDE DEF step, N
<1>6. PICK g : Iteration(g, Update, N, start, step)
  BY <1>1, <1>2, <1>3, IterationExists
<1>7. g \in [0..N -> Update] /\ g[0] = start /\ \A n \in 1..N : g[n] = Moved(g[n - 1], places[n])
  <2>1. g \in [0..N -> Update] /\ g[0] = start /\ \A n \in 1..N : g[n] = step[n][g[n - 1]]
    BY <1>6 DEF Iteration
  <2>2. \A n \in 1..N : n - 1 \in 0..N
    BY <1>1
  <2> QED
    BY <1>4, <2>1, <2>2
<1>8. Def(g)
  <2>1. g = [n \in 0..N |-> g[n]]
    BY <1>7
  <2>2. ASSUME NEW n \in 0..N
        PROVE  g[n] = IF n = 0 THEN start ELSE Moved(g[n - 1], places[n])
    <3>1. n = 0 \/ n \in 1..N
      BY <1>1
    <3>2. CASE n = 0
      BY <1>7, <3>2
    <3>3. CASE n # 0
      BY <1>7, <3>1, <3>3
    <3> QED
      BY <3>2, <3>3
  <2> QED
    BY <2>1, <2>2
<1> HIDE DEF Def
<1> DEFINE f == CHOOSE f : Def(f)
<1>9. Def(f)
  BY <1>8
<1> HIDE DEF f
<1>10. f = [n \in 0..N |-> IF n = 0 THEN start ELSE Moved(f[n - 1], places[n])]
  BY <1>9 DEF Def
<1>11. \A n \in 0..N : f[n] = IF n = 0 THEN start ELSE Moved(f[n - 1], places[n])
  BY <1>10, Zenon
<1>12. \A n \in 0..N : f[n] = g[n]
  <2> DEFINE T == {n \in 0..N : f[n] = g[n]}
  <2>1. 0 \in T
    BY <1>1, <1>7, <1>11
  <2>2. ASSUME NEW n \in 1..N, n - 1 \in T
        PROVE  n \in T
    <3>1. n \in 0..N /\ n # 0 /\ f[n - 1] = g[n - 1]
      BY <1>1, <2>2
    <3>2. f[n] = Moved(f[n - 1], places[n])
      BY <1>11, <3>1
    <3> QED
      BY <1>7, <3>1, <3>2
  <2> HIDE DEF T
  <2>3. \A n \in 0..N : n \in T
    BY <1>1, <2>1, <2>2, InductionUpTo
  <2> QED
    BY <2>3 DEF T
<1>13. Reordered(rows, places) = g[N]
  <2>1. N \in 0..N
    BY <1>1
  <2> QED
    BY <1>5, <1>12, <2>1 DEF f
<1> QED
  BY <1>7, <1>13 DEF N, start

LEMMA ReorderedTyped ==
    ASSUME NEW rows \in Rows, NEW places \in Seq(AnyPlace)
    PROVE  Reordered(rows, places) \in Update
<1>1. PICK f \in [0..Len(places) -> Update] : Reordered(rows, places) = f[Len(places)]
  BY ReorderedIs
<1>2. Len(places) \in 0..Len(places)
  OBVIOUS
<1> QED
  BY <1>1, <1>2

OncePlaced(places) == \A m, n \in DOMAIN places : places[m].issue = places[n].issue => m = n

\* What the first n cards have moved.
MovedUpTo(n, rows, places, u) ==
    /\ \A m \in 1..n : u.rows[places[m].issue] = PlacedAt(rows[places[m].issue], places[m])
    /\ \A i \in Issues : (\A m \in 1..n : places[m].issue # i) => u.rows[i] = rows[i]
    /\ \A k \in DOMAIN u.changes :
          /\ u.changes[k].was = rows[u.changes[k].issue]
          /\ \E m \in 1..n : places[m].issue = u.changes[k].issue
    /\ \A i \in Issues : u.rows[i] # rows[i] => \E k \in DOMAIN u.changes : u.changes[k].issue = i
    /\ \A k, l \in DOMAIN u.changes : u.changes[k].issue = u.changes[l].issue => k = l

LEMMA Appended ==
    ASSUME NEW X, NEW s \in Seq(X), NEW x \in X
    PROVE  /\ Append(s, x) \in Seq(X) /\ DOMAIN Append(s, x) = 1..(Len(s) + 1) /\ Len(s) \in Nat
           /\ DOMAIN s = 1..Len(s) /\ Append(s, x)[Len(s) + 1] = x
           /\ Len(s) + 1 \in DOMAIN Append(s, x)
           /\ \A k \in DOMAIN s : k \in DOMAIN Append(s, x) /\ Append(s, x)[k] = s[k]
           /\ \A k \in DOMAIN Append(s, x) : k \in DOMAIN s \/ k = Len(s) + 1
OBVIOUS

LEMMA MovedUpToNext ==
    ASSUME NEW rows \in Rows, NEW places \in Seq(AnyPlace), OncePlaced(places),
           NEW n \in 1..Len(places), NEW u \in Update, MovedUpTo(n - 1, rows, places, u)
    PROVE  MovedUpTo(n, rows, places, Moved(u, places[n]))
<1> DEFINE p == places[n]
           i == p.issue
           v == Moved(u, p)
<1>1. /\ Len(places) \in Nat /\ n \in Nat /\ n \in DOMAIN places /\ n \in 1..n /\ p \in AnyPlace
      /\ \A m \in 1..n : m = n \/ (m \in 1..(n - 1))
      /\ \A m \in 1..(n - 1) : m \in 1..n /\ m \in DOMAIN places /\ m # n
      /\ \A m \in 1..n : places[m] \in AnyPlace
  OBVIOUS
<1>2. i \in Issues /\ u.rows \in Rows /\ u.changes \in Seq(Change) /\ v \in Update
  BY <1>1, MovedOne DEF AnyPlace, Update
<1>3. \A m \in 1..(n - 1) : places[m].issue # i
  BY <1>1 DEF OncePlaced
<1>4. u.rows[i] = rows[i]
  BY <1>2, <1>3 DEF MovedUpTo
<1>5. /\ v.rows[i] = PlacedAt(rows[i], p)
      /\ \A j \in Issues : j # i => v.rows[j] = u.rows[j]
      /\ v = u \/ v.changes = Append(u.changes, [issue |-> i, was |-> rows[i]])
  BY <1>1, <1>4, MovedOne
<1>6. [issue |-> i, was |-> rows[i]] \in Change
  BY <1>2 DEF Change, Rows
<1> HIDE DEF v, i, p
<1>7. \A m \in 1..n : places[m].issue \in Issues
  BY <1>1 DEF AnyPlace
<1>8. \A m \in 1..n : v.rows[places[m].issue] = PlacedAt(rows[places[m].issue], places[m])
  <2> SUFFICES ASSUME NEW m \in 1..n
               PROVE  v.rows[places[m].issue] = PlacedAt(rows[places[m].issue], places[m])
    OBVIOUS
  <2>1. CASE m = n
    BY <1>5, <2>1 DEF i, p
  <2>2. CASE m # n
    <3>1. m \in 1..(n - 1) /\ places[m].issue # i /\ places[m].issue \in Issues
      BY <1>1, <1>3, <1>7, <2>2
    <3> QED
      BY <1>5, <3>1 DEF MovedUpTo
  <2> QED
    BY <2>1, <2>2
<1>9. ASSUME NEW j \in Issues, \A m \in 1..n : places[m].issue # j
      PROVE  v.rows[j] = rows[j]
  <2>1. j # i /\ \A m \in 1..(n - 1) : places[m].issue # j
    BY <1>1, <1>9 DEF i, p
  <2> QED
    BY <1>5, <2>1 DEF MovedUpTo
<1> DEFINE Recorded ==
             /\ \A k \in DOMAIN v.changes :
                   /\ v.changes[k].was = rows[v.changes[k].issue]
                   /\ \E m \in 1..n : places[m].issue = v.changes[k].issue
             /\ \A j \in Issues : v.rows[j] # rows[j] => \E k \in DOMAIN v.changes :
                   v.changes[k].issue = j
             /\ \A k, l \in DOMAIN v.changes : v.changes[k].issue = v.changes[l].issue => k = l
<1>10. ASSUME v = u
       PROVE  Recorded
  <2>1. \A k \in DOMAIN v.changes :
          /\ v.changes[k].was = rows[v.changes[k].issue]
          /\ \E m \in 1..n : places[m].issue = v.changes[k].issue
    BY <1>1, <1>10 DEF MovedUpTo
  <2>2. /\ \A j \in Issues : u.rows[j] # rows[j] => \E k \in DOMAIN u.changes :
              u.changes[k].issue = j
        /\ \A k, l \in DOMAIN u.changes : u.changes[k].issue = u.changes[l].issue => k = l
    BY DEF MovedUpTo
  <2> QED
    BY <1>10, <2>1, <2>2
<1>11. ASSUME v.changes = Append(u.changes, [issue |-> i, was |-> rows[i]])
       PROVE  Recorded
  <2> DEFINE ch == [issue |-> i, was |-> rows[i]]
  <2>1. /\ DOMAIN u.changes = 1..Len(u.changes) /\ Len(u.changes) \in Nat
        /\ v.changes[Len(u.changes) + 1] = ch /\ Len(u.changes) + 1 \in DOMAIN v.changes
        /\ \A k \in DOMAIN u.changes : k \in DOMAIN v.changes /\ v.changes[k] = u.changes[k]
        /\ \A k \in DOMAIN v.changes : k \in DOMAIN u.changes \/ k = Len(u.changes) + 1
    BY <1>2, <1>6, <1>11, Appended
  <2>2. ch.issue = i /\ ch.was = rows[i]
    OBVIOUS
  <2> HIDE DEF ch
  <2>3. \A k \in DOMAIN u.changes :
          /\ u.changes[k].was = rows[u.changes[k].issue]
          /\ u.changes[k].issue # i
          /\ \E m \in 1..n : places[m].issue = u.changes[k].issue
    BY <1>1, <1>3 DEF MovedUpTo
  <2>4. \A k \in DOMAIN v.changes :
          /\ v.changes[k].was = rows[v.changes[k].issue]
          /\ \E m \in 1..n : places[m].issue = v.changes[k].issue
    <3>1. places[n].issue = i /\ n \in 1..n
      BY <1>1 DEF i, p
    <3> QED
      BY <2>1, <2>2, <2>3, <3>1
  <2>5. ASSUME NEW j \in Issues, v.rows[j] # rows[j]
        PROVE  \E k \in DOMAIN v.changes : v.changes[k].issue = j
    <3>1. CASE j = i
      BY <2>1, <2>2, <3>1
    <3>2. CASE j # i
      <4>1. u.rows[j] # rows[j]
        BY <1>5, <2>5, <3>2
      <4>2. PICK k \in DOMAIN u.changes : u.changes[k].issue = j
        BY <4>1 DEF MovedUpTo
      <4> QED
        BY <2>1, <4>2
    <3> QED
      BY <3>1, <3>2
  <2>6. ASSUME NEW k \in DOMAIN v.changes, NEW l \in DOMAIN v.changes,
               v.changes[k].issue = v.changes[l].issue
        PROVE  k = l
    <3>1. CASE k \in DOMAIN u.changes /\ l \in DOMAIN u.changes
      BY <2>1, <2>6, <3>1 DEF MovedUpTo
    <3>2. CASE ~(k \in DOMAIN u.changes /\ l \in DOMAIN u.changes)
      BY <2>1, <2>2, <2>3, <2>6, <3>2
    <3> QED
      BY <3>1, <3>2
  <2> QED
    BY <2>4, <2>5, <2>6
<1>12. Recorded
  BY <1>5, <1>10, <1>11
<1>13. MovedUpTo(n, rows, places, v)
  BY <1>8, <1>9, <1>12 DEF MovedUpTo
<1> QED
  BY <1>13 DEF v, p

\* If no card is there twice, every card ends where it is placed, the others stay, and each
\* change is recorded once, with what was before.
LEMMA ReorderedMoves ==
    ASSUME NEW rows \in Rows, NEW places \in Seq(AnyPlace), OncePlaced(places)
    PROVE  MovedUpTo(Len(places), rows, places, Reordered(rows, places))
<1> DEFINE N == Len(places)
<1>1. N \in Nat
  OBVIOUS
<1>2. PICK f \in [0..N -> Update] :
         /\ Reordered(rows, places) = f[N]
         /\ f[0] = [rows |-> rows, changes |-> <<>>]
         /\ \A n \in 1..N : f[n] = Moved(f[n - 1], places[n])
  BY ReorderedIs
<1> DEFINE T == {n \in 0..N : MovedUpTo(n, rows, places, f[n])}
<1>3. 0 \in T
  <2>1. f[0].rows = rows /\ f[0].changes = <<>> /\ DOMAIN f[0].changes = {}
    BY <1>2
  <2>2. 1..0 = {}
    OBVIOUS
  <2>3. MovedUpTo(0, rows, places, f[0])
    BY <2>1, <2>2 DEF MovedUpTo
  <2> QED
    BY <1>1, <2>3
<1>4. ASSUME NEW n \in 1..N, n - 1 \in T
      PROVE  n \in T
  <2>1. n \in 0..N /\ n - 1 \in 0..N /\ f[n] = Moved(f[n - 1], places[n]) /\ f[n - 1] \in Update
    BY <1>1, <1>2
  <2> QED
    BY <1>4, <2>1, MovedUpToNext
<1> HIDE DEF T, N
<1>5. \A n \in 0..N : n \in T
  BY <1>1, <1>3, <1>4, InductionUpTo
<1>6. MovedUpTo(N, rows, places, f[N])
  BY <1>1, <1>5 DEF T
<1> QED
  BY <1>2, <1>6 DEF N

-----------------------------------------------------------------------------
(* What a failure puts back. *)

PutBack(rows, ch, kind) == [rows EXCEPT ![ch.issue] = Restored(@, ch.was, kind)]

LEMMA PutBackTyped ==
    ASSUME NEW rows \in Rows, NEW ch \in Change, NEW kind \in Kinds
    PROVE  /\ PutBack(rows, ch, kind) \in Rows
           /\ kind \in {"plan", "lane"} => PutBack(rows, ch, kind) = rows
<1>1. ch.issue \in Issues /\ ch.was \in Row /\ rows[ch.issue] \in Row
  BY DEF Change, Rows
<1>2. rows = [i \in Issues |-> rows[i]] /\ \A i \in Issues : rows[i] \in Row
  BY DEF Rows
<1>3. Restored(rows[ch.issue], ch.was, kind) \in Row
  <2>1. CASE kind = "order"
    BY <1>1, <2>1 DEF Restored, Row
  <2>2. CASE kind \in {"section", "archive"}
    BY <1>1, <2>2 DEF Restored, Row
  <2>3. CASE kind = "toggle"
    BY <1>1, <2>3 DEF Restored, Row
  <2>4. CASE kind \in {"plan", "lane"}
    BY <1>1, <2>4 DEF Restored
  <2> QED
    BY <2>1, <2>2, <2>3, <2>4 DEF Kinds
<1>4. kind \in {"plan", "lane"} => Restored(rows[ch.issue], ch.was, kind) = rows[ch.issue]
  BY DEF Restored
<1> QED
  BY <1>1, <1>2, <1>3, <1>4 DEF PutBack, Rows

LEMMA RolledBackIs ==
    ASSUME NEW rows \in Rows, NEW changes \in Seq(Change), NEW kind \in Kinds
    PROVE  \E f \in [0..Len(changes) -> Rows] :
              /\ RolledBack(rows, changes, kind) = f[Len(changes)]
              /\ f[0] = rows
              /\ \A n \in 1..Len(changes) : f[n] = PutBack(f[n - 1], changes[n], kind)
<1> DEFINE N == Len(changes)
           step == [n \in 1..N |-> [u \in Rows |-> PutBack(u, changes[n], kind)]]
           Def(f) == f = [n \in 0..N |-> IF n = 0 THEN rows
                            ELSE [f[n - 1] EXCEPT ![changes[n].issue] =
                                     Restored(@, changes[n].was, kind)]]
<1>1. N \in Nat /\ \A n \in 1..N : changes[n] \in Change
  OBVIOUS
<1>3. step \in [1..N -> [Rows -> Rows]]
  BY <1>1, PutBackTyped
<1>4. \A n \in 1..N, u \in Rows : step[n][u] = PutBack(u, changes[n], kind)
  OBVIOUS
<1>5. RolledBack(rows, changes, kind) = (CHOOSE f : Def(f))[N]
  BY DEF RolledBack
<1> HIDE DEF step, N
<1>6. PICK g : Iteration(g, Rows, N, rows, step)
  BY <1>1, <1>3, IterationExists
<1>7. g \in [0..N -> Rows] /\ g[0] = rows /\ \A n \in 1..N :
         g[n] = PutBack(g[n - 1], changes[n], kind)
  <2>1. g \in [0..N -> Rows] /\ g[0] = rows /\ \A n \in 1..N : g[n] = step[n][g[n - 1]]
    BY <1>6 DEF Iteration
  <2>2. \A n \in 1..N : n - 1 \in 0..N
    BY <1>1
  <2> QED
    BY <1>4, <2>1, <2>2
<1>8. Def(g)
  <2>1. g = [n \in 0..N |-> g[n]]
    BY <1>7
  <2>2. ASSUME NEW n \in 0..N
        PROVE  g[n] = IF n = 0 THEN rows ELSE PutBack(g[n - 1], changes[n], kind)
    <3>1. n = 0 \/ n \in 1..N
      BY <1>1
    <3>2. CASE n = 0
      BY <1>7, <3>2
    <3>3. CASE n # 0
      BY <1>7, <3>1, <3>3
    <3> QED
      BY <3>2, <3>3
  <2> QED
    BY <2>1, <2>2 DEF PutBack
<1> HIDE DEF Def
<1> DEFINE f == CHOOSE f : Def(f)
<1>9. Def(f)
  BY <1>8
<1> HIDE DEF f
<1>10. f = [n \in 0..N |-> IF n = 0 THEN rows ELSE PutBack(f[n - 1], changes[n], kind)]
  BY <1>9 DEF Def, PutBack
<1>11. \A n \in 0..N : f[n] = IF n = 0 THEN rows ELSE PutBack(f[n - 1], changes[n], kind)
  BY <1>10, Zenon
<1>12. \A n \in 0..N : f[n] = g[n]
  <2> DEFINE T == {n \in 0..N : f[n] = g[n]}
  <2>1. 0 \in T
    BY <1>1, <1>7, <1>11
  <2>2. ASSUME NEW n \in 1..N, n - 1 \in T
        PROVE  n \in T
    <3>1. n \in 0..N /\ n # 0 /\ f[n - 1] = g[n - 1]
      BY <1>1, <2>2
    <3>2. f[n] = PutBack(f[n - 1], changes[n], kind)
      BY <1>11, <3>1
    <3> QED
      BY <1>7, <3>1, <3>2
  <2> HIDE DEF T
  <2>3. \A n \in 0..N : n \in T
    BY <1>1, <2>1, <2>2, InductionUpTo
  <2> QED
    BY <2>3 DEF T
<1>13. RolledBack(rows, changes, kind) = g[N]
  <2>1. N \in 0..N
    BY <1>1
  <2> QED
    BY <1>5, <1>12, <2>1 DEF f
<1> QED
  BY <1>7, <1>13 DEF N

\* The gestures that change one issue put that one back, or nothing.
LEMMA RolledBackOne ==
    ASSUME NEW rows \in Rows, NEW changes \in Seq(Change), NEW kind \in Kinds
    PROVE  /\ RolledBack(rows, changes, kind) \in Rows
           /\ Len(changes) = 1 => RolledBack(rows, changes, kind) = PutBack(rows, changes[1], kind)
<1>1. PICK f \in [0..Len(changes) -> Rows] :
         /\ RolledBack(rows, changes, kind) = f[Len(changes)]
         /\ f[0] = rows
         /\ \A n \in 1..Len(changes) : f[n] = PutBack(f[n - 1], changes[n], kind)
  BY RolledBackIs
<1>2. Len(changes) \in Nat /\ Len(changes) \in 0..Len(changes)
  OBVIOUS
<1>3. ASSUME Len(changes) = 1
      PROVE  RolledBack(rows, changes, kind) = PutBack(rows, changes[1], kind)
  <2>1. 1 \in 1..Len(changes) /\ 1 - 1 = 0
    BY <1>3
  <2>2. f[1] = PutBack(f[1 - 1], changes[1], kind)
    BY <1>1, <2>1
  <2> QED
    BY <1>1, <1>3, <2>1, <2>2
<1> QED
  BY <1>1, <1>2, <1>3

-----------------------------------------------------------------------------
(* Requests. *)

LEMMA ImageFinite ==
    ASSUME NEW S, IsFiniteSet(S), NEW f, DOMAIN f = S
    PROVE  IsFiniteSet({f[x] : x \in S})
<1> DEFINE g == [x \in S |-> f[x]]
           T == {f[x] : x \in S}
<1>1. g \in Surjection(S, T)
  BY DEF Surjection
<1> QED
  BY <1>1, FS_Surjection

LEMMA MaxIs ==
    ASSUME NEW S \in SUBSET Nat, IsFiniteSet(S), S # {}
    PROVE  Max(S) \in S /\ \A x \in S : x <= Max(S)
<1> DEFINE R == {p \in S \X S : p[1] > p[2]}
<1>1. \A x, y \in S : <<x, y>> \in R <=> x > y
  OBVIOUS
<1>2. Linear(R, S)
  <2> HIDE DEF R
  <2>1. \A x \in S : x \in Nat
    OBVIOUS
  <2> QED
    BY <1>1, <2>1 DEF Linear
<1> HIDE DEF R
<1>3. PICK s : Enumerates(s, R, S)
  BY <1>2, EnumerationExists
<1>4. /\ s \in [1..Cardinality(S) -> S] /\ Along(R, s) /\ Cardinality(S) \in Nat
      /\ \A x \in S : \E n \in DOMAIN s : s[n] = x
  BY <1>2, <1>3, EnumerationRanks, FS_CardinalityType DEF Enumerates
<1>5. 1 \in DOMAIN s /\ s[1] \in S
  <2>1. PICK x \in S : TRUE
    OBVIOUS
  <2>2. PICK n \in DOMAIN s : s[n] = x
    BY <1>4
  <2>3. n \in 1..Cardinality(S) /\ DOMAIN s = 1..Cardinality(S)
    BY <1>4
  <2>4. 1 \in DOMAIN s
    BY <1>4, <2>3
  <2> QED
    BY <1>4, <2>4
<1>6. \A y \in S : s[1] >= y
  <2> SUFFICES ASSUME NEW y \in S
               PROVE  s[1] >= y
    OBVIOUS
  <2>1. PICK n \in DOMAIN s : s[n] = y
    BY <1>4
  <2>2. n = 1 \/ 1 < n
    BY <1>4
  <2>3. CASE n = 1
    BY <1>5, <2>1, <2>3
  <2>4. CASE 1 < n
    <3>1. <<s[1], s[n]>> \in R
      BY <1>4, <1>5, <2>4 DEF Along
    <3>2. s[1] > y
      BY <1>1, <1>5, <2>1, <3>1
    <3>3. s[1] \in Nat /\ y \in Nat
      BY <1>5
    <3> QED
      BY <3>2, <3>3
  <2> QED
    BY <2>2, <2>3, <2>4
<1>7. Max(S) \in S /\ \A y \in S : Max(S) >= y
  BY <1>5, <1>6 DEF Max
<1> QED
  BY <1>7

Bodies == UNION {[ids -> Row] : ids \in SUBSET Issues}
CardRequest == [n : Nat, sent : Nat, kind : {"put", "archive", "positions", "doubled"},
                body : Bodies, pc : {"sent", "saved", "failed"}]

LEMMA BodyTyped ==
    /\ \A body \in Bodies : DOMAIN body \subseteq Issues /\ \A i \in DOMAIN body : body[i] \in Row
    /\ \A body : \A ids \in SUBSET Issues : body \in [ids -> Row] => body \in Bodies
BY DEF Bodies

NextSent == Max({0} \cup {q.sent : q \in {r \in requests : r.pc = "sent"}}) + 1

LEMMA NextSentIsLast ==
    ASSUME requests \subseteq CardRequest, IsFiniteSet(requests)
    PROVE  NextSent \in Nat /\ \A q \in requests : q.pc = "sent" => q.sent < NextSent
<1> DEFINE Q == {r \in requests : r.pc = "sent"}
           f == [q \in Q |-> q.sent]
           S == {0} \cup {q.sent : q \in Q}
<1>1. IsFiniteSet(Q)
  BY FS_Subset
<1>2. IsFiniteSet({f[q] : q \in Q})
  <2> HIDE DEF Q
  <2> QED
    BY <1>1, ImageFinite
<1>3. {f[q] : q \in Q} = {q.sent : q \in Q}
  OBVIOUS
<1>4. IsFiniteSet(S)
  BY <1>2, <1>3, FS_Union, FS_Singleton
<1>5. S \in SUBSET Nat /\ S # {}
  BY DEF CardRequest
<1>6. NextSent = Max(S) + 1
  BY DEF NextSent
<1>7. \A q \in Q : q.sent \in S
  OBVIOUS
<1>8. \A q \in requests : q.pc = "sent" => q \in Q
  OBVIOUS
<1> HIDE DEF S, Q
<1>9. Max(S) \in Nat /\ \A x \in S : x \in Nat /\ x <= Max(S)
  BY <1>4, <1>5, MaxIs
<1> QED
  BY <1>6, <1>7, <1>8, <1>9

Fresh(q, n) == q \in CardRequest /\ q.n = n /\ q.sent = NextSent /\ q.pc = "sent"

LEMMA RequestIs ==
    ASSUME requests \subseteq CardRequest, IsFiniteSet(requests),
           NEW n \in Nat, NEW kind \in {"put", "archive", "positions", "doubled"},
              NEW body \in Bodies
    PROVE  /\ Fresh(Request(n, kind, body), n)
           /\ Request(n, kind, body).kind = kind /\ Request(n, kind, body).body = body
<1>1. NextSent \in Nat
  BY NextSentIsLast
<1>2. Request(n, kind, body) = [n |-> n, sent |-> NextSent, kind |-> kind, body |-> body,
         pc |-> "sent"]
  BY DEF Request, NextSent
<1> QED
  BY <1>1, <1>2 DEF Fresh, CardRequest

\* updateIssue for every issue whose status has changed.
LEMMA PutsAre ==
    ASSUME requests \subseteq CardRequest, IsFiniteSet(requests),
           NEW n \in Nat, NEW changes \in Seq(Change), NEW rows \in Rows
    PROVE  /\ IsFiniteSet(Puts(n, changes, rows))
           /\ \A q \in Puts(n, changes, rows) :
                 /\ Fresh(q, n) /\ q.kind = "put"
                 /\ \E i \in Issues : DOMAIN q.body = {i} /\ q.body[i] = rows[i]
           /\ \A k \in DOMAIN changes : StatusChanged(changes[k], rows) =>
                 \E q \in Puts(n, changes, rows) :
                    DOMAIN q.body = {changes[k].issue} /\ q.body[changes[k].issue] = rows[changes[k].issue]
           /\ (\A k \in DOMAIN changes : ~StatusChanged(changes[k], rows)) =>
                 Puts(n, changes, rows) = {}
<1> DEFINE one(i) == [j \in {i} |-> rows[j]]
           put(i) == Request(n, "put", one(i))
<1>1. Puts(n, changes, rows) =
         {put(ch.issue) : ch \in {c \in ToSet(changes) : StatusChanged(c, rows)}}
  BY DEF Puts
<1>2. \A ch \in ToSet(changes) : ch \in Change /\ \E k \in DOMAIN changes : changes[k] = ch
  BY DEF ToSet
<1>3. \A k \in DOMAIN changes : changes[k] \in ToSet(changes) /\ changes[k] \in Change
  BY DEF ToSet
<1>4. ASSUME NEW i \in Issues
      PROVE  /\ one(i) \in Bodies /\ DOMAIN one(i) = {i} /\ one(i)[i] = rows[i]
             /\ Fresh(put(i), n) /\ put(i).kind = "put" /\ put(i).body = one(i)
  <2>1. one(i) \in [{i} -> Row] /\ {i} \in SUBSET Issues
    BY DEF Rows
  <2>2. one(i) \in Bodies
    BY <2>1, BodyTyped
  <2>3. DOMAIN one(i) = {i} /\ one(i)[i] = rows[i]
    OBVIOUS
  <2> HIDE DEF one
  <2>4. Fresh(put(i), n) /\ put(i).kind = "put" /\ put(i).body = one(i)
    BY <2>2, RequestIs
  <2> QED
    BY <2>2, <2>3, <2>4
<1>5. IsFiniteSet(Puts(n, changes, rows))
  <2> DEFINE P == [i \in Issues |-> put(i)]
             img == {P[i] : i \in Issues}
  <2>1. IsFiniteSet(img)
    BY IssuesAssumption, ImageFinite
  <2>2. \A ch \in Change : put(ch.issue) \in img
    BY DEF Change
  <2>3. Puts(n, changes, rows) \subseteq img
    <3> HIDE DEF put, img
    <3> QED
      BY <1>1, <1>2, <2>2
  <2> HIDE DEF img
  <2> QED
    BY <2>1, <2>3, FS_Subset
<1>6. \A ch \in Change : ch.issue \in Issues
  BY DEF Change
<1> HIDE DEF one, put
<1>7. ASSUME NEW q \in Puts(n, changes, rows)
      PROVE  /\ Fresh(q, n) /\ q.kind = "put"
             /\ \E i \in Issues : DOMAIN q.body = {i} /\ q.body[i] = rows[i]
  <2>1. PICK ch \in ToSet(changes) : q = put(ch.issue)
    BY <1>1
  <2>2. ch.issue \in Issues
    BY <1>2, <1>6
  <2> DEFINE i == ch.issue
  <2>3. q.body = one(i) /\ DOMAIN q.body = {i} /\ q.body[i] = rows[i] /\ Fresh(q, n)
           /\ q.kind = "put"
    BY <1>4, <2>1, <2>2
  <2> QED
    BY <2>2, <2>3
<1>8. ASSUME NEW k \in DOMAIN changes, StatusChanged(changes[k], rows)
      PROVE  \E q \in Puts(n, changes, rows) :
                DOMAIN q.body = {changes[k].issue} /\ q.body[changes[k].issue] = rows[changes[k].issue]
  <2>1. put(changes[k].issue) \in Puts(n, changes, rows) /\ changes[k].issue \in Issues
    BY <1>1, <1>3, <1>6, <1>8
  <2> QED
    BY <1>4, <2>1
<1>9. (\A k \in DOMAIN changes : ~StatusChanged(changes[k], rows)) => Puts(n, changes, rows) = {}
  BY <1>1, <1>2
<1> QED
  BY <1>5, <1>7, <1>8, <1>9

\* updateIssuePositions for the others, in one request.
LEMMA PositionsAre ==
    ASSUME requests \subseteq CardRequest, IsFiniteSet(requests),
           NEW n \in Nat, NEW changes \in Seq(Change), NEW rows \in Rows
    PROVE  /\ IsFiniteSet(Positions(n, changes, rows))
           /\ \A q \in Positions(n, changes, rows) :
                 /\ Fresh(q, n) /\ q.kind \in {"positions", "doubled"}
                 /\ \A i \in DOMAIN q.body : q.body[i] = rows[i]
                 /\ \A k \in DOMAIN changes : ~StatusChanged(changes[k], rows) =>
                       changes[k].issue \in DOMAIN q.body
                 /\ (\A k, l \in DOMAIN changes : changes[k].issue = changes[l].issue => k = l)
                       => q.kind = "positions"
           /\ (\A k \in DOMAIN changes : StatusChanged(changes[k], rows)) <=>
                 Positions(n, changes, rows) = {}
           /\ \A p, q \in Positions(n, changes, rows) : p = q
<1> DEFINE rest == {m \in DOMAIN changes : ~StatusChanged(changes[m], rows)}
           moved == {changes[m].issue : m \in rest}
           kind == IF Cardinality(moved) < Cardinality(rest) THEN "doubled" ELSE "positions"
           body == [i \in moved |-> rows[i]]
<1>1. Positions(n, changes, rows) = IF rest = {} THEN {} ELSE {Request(n, kind, body)}
  BY DEF Positions
<1>2. /\ kind \in {"positions", "doubled"} /\ DOMAIN body = moved /\ \A i \in moved :
            body[i] = rows[i]
      /\ \A m \in rest : changes[m].issue \in moved
      /\ \A m \in DOMAIN changes : m \in rest <=> ~StatusChanged(changes[m], rows)
  OBVIOUS
<1>3. \A m \in DOMAIN changes : changes[m].issue \in Issues
  <2> HIDE DEF rest, moved, kind, body
  <2>1. \A m \in DOMAIN changes : changes[m] \in Change
    OBVIOUS
  <2> QED
    BY <2>1 DEF Change
<1>4. body \in Bodies
  <2>1. moved \in SUBSET Issues
    BY <1>3
  <2> HIDE DEF moved
  <2>2. body \in [moved -> Row]
    BY <2>1 DEF Rows
  <2> QED
    BY <2>1, <2>2, BodyTyped
<1>5. ASSUME \A k, l \in DOMAIN changes : changes[k].issue = changes[l].issue => k = l
      PROVE  kind = "positions"
  <2> DEFINE f == [m \in rest |-> changes[m].issue]
  <2>1. f \in Surjection(rest, moved)
    BY DEF Surjection
  <2>2. f \in Injection(rest, moved)
    BY <1>5 DEF Injection, IsInjective
  <2>3. Len(changes) \in Nat /\ DOMAIN changes = 1..Len(changes)
    OBVIOUS
  <2>4. IsFiniteSet(DOMAIN changes)
    BY <2>3, FS_Interval
  <2>5. IsFiniteSet(rest)
    BY <2>4, FS_Subset
  <2> HIDE DEF rest, moved, f
  <2>6. Cardinality(moved) = Cardinality(rest) /\ Cardinality(rest) \in Nat
    BY <2>1, <2>2, <2>5, FS_Surjection, FS_CardinalityType
  <2> QED
    BY <2>6
<1> HIDE DEF kind, body, moved, rest
<1>6. Fresh(Request(n, kind, body), n) /\ Request(n, kind, body).kind = kind
         /\ Request(n, kind, body).body = body
  BY <1>2, <1>4, RequestIs
<1>7. IsFiniteSet(Positions(n, changes, rows))
  BY <1>1, FS_EmptySet, FS_Singleton
<1>8. (\A k \in DOMAIN changes : StatusChanged(changes[k], rows)) <=> rest = {}
  BY <1>2 DEF rest
<1> QED
  BY <1>1, <1>2, <1>5, <1>6, <1>7, <1>8

-----------------------------------------------------------------------------
(* What the requests under way will leave on the server. *)

\* The requests that write one part of an issue.
Writers(R, kinds, i) == {q \in R : q.pc = "sent" /\ q.kind \in kinds /\ i \in DOMAIN q.body}

\* What the newest of them writes is on the page, and without any the page has what the
\* server has.
Promised(R, kinds, part, i, here, there) ==
    /\ Writers(R, kinds, i) = {} => here = there
    /\ \A q \in Writers(R, kinds, i) :
          (\A p \in Writers(R, kinds, i) : p.sent <= q.sent) => q.body[i][part] = here

LEMMA PromiseStays ==
    ASSUME NEW R, NEW S, NEW kinds, NEW part, NEW i, NEW here, NEW there,
           Writers(S, kinds, i) = Writers(R, kinds, i),
           Promised(R, kinds, part, i, here, there)
    PROVE  Promised(S, kinds, part, i, here, there)
BY DEF Promised

LEMMA PromiseMade ==
    ASSUME NEW R \in SUBSET CardRequest, NEW new \in SUBSET CardRequest,
           \A q \in new : \A p \in R : p.pc = "sent" => p.sent < q.sent,
           NEW kinds, NEW part, NEW i, NEW there, NEW then,
           \A q \in Writers(new, kinds, i) : q.body[i][part] = then,
           Writers(new, kinds, i) = {} => Promised(R, kinds, part, i, then, there)
    PROVE  Promised(R \cup new, kinds, part, i, then, there)
<1>1. Writers(R \cup new, kinds, i) = Writers(R, kinds, i) \cup Writers(new, kinds, i)
  BY DEF Writers
<1>2. CASE Writers(new, kinds, i) = {}
  BY <1>1, <1>2, PromiseStays
<1>3. CASE Writers(new, kinds, i) # {}
  <2>1. PICK n \in Writers(new, kinds, i) : TRUE
    BY <1>3
  <2>2. \A p \in Writers(R, kinds, i) : p.sent < n.sent /\ p.sent \in Nat /\ n.sent \in Nat
    BY <2>1 DEF Writers, CardRequest
  <2>3. ASSUME NEW q \in Writers(R \cup new, kinds, i),
               \A p \in Writers(R \cup new, kinds, i) : p.sent <= q.sent
        PROVE  q.body[i][part] = then
    <3>1. n.sent <= q.sent
      BY <1>1, <2>1, <2>3
    <3>2. q \notin Writers(R, kinds, i)
      BY <2>2, <3>1
    <3> QED
      BY <1>1, <3>2
  <2> QED
    BY <1>1, <1>3, <2>3 DEF Promised
<1> QED
  BY <1>2, <1>3

\* Serving the oldest request keeps the promises of the others.
LEMMA PromiseKept ==
    ASSUME NEW R \in SUBSET CardRequest, NEW S, NEW q \in R, q.pc = "sent",
           \A p \in R : p.pc = "sent" => ~(p.sent < q.sent),
           NEW kinds, NEW part, NEW i, NEW here, NEW there, NEW then,
           Writers(S, kinds, i) = Writers(R, kinds, i) \ {q},
           Promised(R, kinds, part, i, here, there),
           then = IF q \in Writers(R, kinds, i) THEN q.body[i][part] ELSE there
    PROVE  Promised(S, kinds, part, i, here, then)
<1>1. CASE q \notin Writers(R, kinds, i)
  <2>1. Writers(S, kinds, i) = Writers(R, kinds, i) /\ then = there
    BY <1>1
  <2> QED
    BY <2>1, PromiseStays
<1>2. CASE q \in Writers(R, kinds, i)
  <2>1. \A p \in Writers(R, kinds, i) : p.sent \in Nat /\ q.sent \in Nat /\ q.sent <= p.sent
    BY DEF Writers, CardRequest
  <2>2. ASSUME Writers(S, kinds, i) = {}
        PROVE  here = then
    <3>1. \A p \in Writers(R, kinds, i) : p.sent <= q.sent
      BY <2>1, <2>2
    <3> QED
      BY <1>2, <3>1 DEF Promised
  <2>3. ASSUME NEW r \in Writers(S, kinds, i), \A p \in Writers(S, kinds, i) : p.sent <= r.sent
        PROVE  r.body[i][part] = here
    <3>1. \A p \in Writers(R, kinds, i) : p.sent <= r.sent
      BY <2>1, <2>3
    <3> QED
      BY <2>3, <3>1 DEF Promised
  <2> QED
    BY <2>2, <2>3 DEF Promised
<1> QED
  BY <1>1, <1>2

LEMMA PartsOfRow ==
    ASSUME NEW row \in Row
    PROVE  row.status = row["status"] /\ row.field = row["field"] /\ row.pos = row["pos"]
OBVIOUS

-----------------------------------------------------------------------------
(* Types. *)

CardOp == [n : Nat, kind : Kinds, epoch : Nat, changes : Seq(Change), alone : BOOLEAN]

\* No list names an issue twice.
EachOnce(lists) == \A c \in Listed : \A m, n \in DOMAIN lists[c] :
   lists[c][m] = lists[c][n] => m = n

PageTypes ==
    /\ heap \in Seq(Rows) /\ heap # <<>>
    /\ shown \in Lists
    /\ drawn \in [epoch : 1..Len(heap), lists : Lists] /\ EachOnce(drawn.lists)
    /\ drag \in [issue : Issues \cup {None}, list : Listed \cup {None}, at : Nat]
    /\ drag.issue # None /\ drag.list # None => drag.at \in DOMAIN shown[drag.list]

SaveTypes ==
    /\ ops \subseteq CardOp
    /\ \A o \in ops : o.n \in 1..gestures /\ o.epoch \in 1..Len(heap)
    /\ \A o \in ops : o.kind # "order" => Len(o.changes) = 1
    /\ requests \subseteq CardRequest /\ IsFiniteSet(requests)
    /\ \A q \in requests : q.n \in 1..gestures
    /\ \A o, p \in ops : o.n = p.n => o = p
    /\ \A o \in ops : \E q \in requests : q.n = o.n
    /\ \A o \in ops, q \in requests : o.kind # "order" /\ q.n = o.n =>
          DOMAIN q.body = {o.changes[1].issue}

RestTypes ==
    /\ read \in [pc : {"none", "sent", "answered", "placed"}, rows : Rows]
    /\ server \in Rows
    /\ gestures \in 0..MaxGestures /\ failures \in 0..MaxFailures
    /\ excused \in BOOLEAN

CardTypes == PageTypes /\ SaveTypes /\ RestTypes

LEMMA CardTypesTyped == CardTypes => TypeOK
<1> SUFFICES ASSUME CardTypes
             PROVE  TypeOK
  OBVIOUS
<1>1. \A o \in ops :
        /\ o.n \in 1..gestures /\ o.kind \in Kinds /\ o.epoch \in 1..Len(heap)
        /\ \A ch \in ToSet(o.changes) : ch.issue \in Issues /\ ch.was \in Row
  <2> SUFFICES ASSUME NEW o \in ops
               PROVE  /\ o.n \in 1..gestures /\ o.kind \in Kinds /\ o.epoch \in 1..Len(heap)
                      /\ \A ch \in ToSet(o.changes) : ch.issue \in Issues /\ ch.was \in Row
    OBVIOUS
  <2>1. o \in CardOp /\ o.n \in 1..gestures /\ o.epoch \in 1..Len(heap)
    BY DEF CardTypes, SaveTypes
  <2>2. o.kind \in Kinds /\ o.changes \in Seq(Change)
    BY <2>1 DEF CardOp
  <2>3. \A ch \in ToSet(o.changes) : ch \in Change
    BY <2>2 DEF ToSet
  <2> QED
    BY <2>1, <2>2, <2>3 DEF Change
<1>2. \A q \in requests :
        /\ q.n \in 1..gestures /\ q.sent \in Nat
        /\ q.kind \in {"put", "archive", "positions", "doubled"}
              /\ q.pc \in {"sent", "saved", "failed"}
        /\ DOMAIN q.body \subseteq Issues /\ \A i \in DOMAIN q.body : q.body[i] \in Row
  <2> SUFFICES ASSUME NEW q \in requests
               PROVE  /\ q.n \in 1..gestures /\ q.sent \in Nat
                      /\ q.kind \in {"put", "archive", "positions", "doubled"}
                      /\ q.pc \in {"sent", "saved", "failed"}
                      /\ DOMAIN q.body \subseteq Issues /\ \A i \in DOMAIN q.body :
                            q.body[i] \in Row
    OBVIOUS
  <2>1. q \in CardRequest /\ q.n \in 1..gestures
    BY DEF CardTypes, SaveTypes
  <2> QED
    BY <2>1, BodyTyped DEF CardRequest
<1>3. /\ heap \in Seq(Rows) /\ heap # <<>> /\ shown \in Lists
      /\ drawn \in [epoch : 1..Len(heap), lists : Lists]
      /\ drag \in [issue : Issues \cup {None}, list : Listed \cup {None}, at : Nat]
  BY DEF CardTypes, PageTypes
<1>4. /\ read.pc \in {"none", "sent", "answered", "placed"} /\ read.rows \in Rows
      /\ server \in Rows
      /\ gestures \in 0..MaxGestures /\ failures \in 0..MaxFailures /\ excused \in BOOLEAN
  BY DEF CardTypes, RestTypes
<1> QED
  BY <1>1, <1>2, <1>3, <1>4 DEF TypeOK

LEMMA HeapIs ==
    ASSUME NEW h \in Seq(Rows), h # <<>>
    PROVE  /\ Len(h) \in Nat /\ Len(h) >= 1 /\ Len(h) \in 1..Len(h) /\ DOMAIN h = 1..Len(h)
           /\ \A e \in 1..Len(h) : h[e] \in Rows
           /\ \A e \in 1..Len(h) : \A rows \in Rows :
                 /\ [h EXCEPT ![e] = rows] \in Seq(Rows) /\ [h EXCEPT ![e] = rows] # <<>>
                 /\ Len([h EXCEPT ![e] = rows]) = Len(h)
                 /\ [h EXCEPT ![e] = rows][e] = rows
           /\ \A rows \in Rows :
                 /\ Append(h, rows) \in Seq(Rows) /\ Append(h, rows) # <<>>
                 /\ Len(Append(h, rows)) = Len(h) + 1 /\ Append(h, rows)[Len(h) + 1] = rows
<1>1. Len(h) \in Nat /\ Len(h) >= 1 /\ Len(h) \in 1..Len(h) /\ DOMAIN h = 1..Len(h)
  OBVIOUS
<1>2. \A e \in 1..Len(h) : h[e] \in Rows
  OBVIOUS
<1>3. ASSUME NEW e \in 1..Len(h), NEW rows \in Rows
      PROVE  /\ [h EXCEPT ![e] = rows] \in Seq(Rows) /\ [h EXCEPT ![e] = rows] # <<>>
             /\ Len([h EXCEPT ![e] = rows]) = Len(h)
             /\ [h EXCEPT ![e] = rows][e] = rows
  OBVIOUS
<1>4. ASSUME NEW rows \in Rows
      PROVE  /\ Append(h, rows) \in Seq(Rows) /\ Append(h, rows) # <<>>
             /\ Len(Append(h, rows)) = Len(h) + 1 /\ Append(h, rows)[Len(h) + 1] = rows
  OBVIOUS
<1> QED
  BY <1>1, <1>2, <1>3, <1>4

\* Drawing the page keeps its types.
LEMMA RedrawTyped ==
    ASSUME heap' \in Seq(Rows), heap' # <<>>, NEW rows \in Rows, NEW epoch \in 1..Len(heap'),
           drag \in [issue : Issues \cup {None}, list : Listed \cup {None}, at : Nat],
           Redraw(rows, epoch)
    PROVE  PageTypes'
<1>1. Rendered(rows) \in Lists /\ EachOnce(Rendered(rows))
  BY RenderedLists DEF EachOnce
<1>2. shown' = Rendered(rows) /\ drawn' = [epoch |-> epoch, lists |-> Rendered(rows)]
  BY DEF Redraw
<1>3. drag' \in [issue : Issues \cup {None}, list : Listed \cup {None}, at : Nat]
         /\ drag'.list = None
  BY DEF Redraw
<1>4. drawn' \in [epoch : 1..Len(heap'), lists : Lists] /\ drawn'.lists = Rendered(rows)
  BY <1>1, <1>2
<1> QED
  BY <1>1, <1>2, <1>3, <1>4 DEF PageTypes, EachOnce

LEMMA NoDragIsTyped ==
    /\ NoDrag \in [issue : Issues \cup {None}, list : Listed \cup {None}, at : Nat]
    /\ NoDrag.issue = None
BY DEF NoDrag

\* ... and so does a step that leaves the lists as they are.
LEMMA PageStays ==
    ASSUME PageTypes, heap' \in Seq(Rows), heap' # <<>>, Len(heap') >= Len(heap),
           UNCHANGED <<shown, drawn>>, drag' = drag \/ drag' = NoDrag
    PROVE  PageTypes'
<1>1. drawn.epoch \in 1..Len(heap')
  <2>1. Len(heap) \in Nat /\ Len(heap') \in Nat /\ drawn.epoch \in 1..Len(heap)
    BY DEF PageTypes
  <2> QED
    BY <2>1
<1>2. drawn' \in [epoch : 1..Len(heap'), lists : Lists] /\ EachOnce(drawn'.lists)
  BY <1>1 DEF PageTypes
<1>3. CASE drag' = drag
  BY <1>2, <1>3 DEF PageTypes, EachOnce
<1>4. CASE drag' = NoDrag
  <2>1. drag' \in [issue : Issues \cup {None}, list : Listed \cup {None}, at : Nat]
           /\ drag'.issue = None
    BY <1>4, NoDragIsTyped
  <2> QED
    BY <1>2, <2>1 DEF PageTypes, EachOnce
<1> QED
  BY <1>3, <1>4

LEMMA InitTyped == Init => CardTypes
<1> SUFFICES ASSUME Init
             PROVE  CardTypes
  OBVIOUS
<1>1. server \in Rows
  <2>1. server \in [Issues -> [status : Listed, pos : 0..(Cardinality(Issues) - 1),
                           field : {FALSE}]]
    BY DEF Init
  <2>2. Cardinality(Issues) \in Nat
    BY IssuesAssumption, FS_CardinalityType
  <2>3. 0..(Cardinality(Issues) - 1) \subseteq Nat
    BY <2>2
  <2>4. [status : Listed, pos : 0..(Cardinality(Issues) - 1), field : {FALSE}] \subseteq Row
    BY <2>3 DEF Row, Statuses
  <2> QED
    BY <2>1, <2>4 DEF Rows
<1>2. heap = <<server>> /\ heap \in Seq(Rows) /\ heap # <<>> /\ Len(heap) = 1
  BY <1>1 DEF Init
<1>3. Rendered(server) \in Lists /\ EachOnce(Rendered(server))
  BY <1>1, RenderedLists DEF EachOnce
<1>4. shown = Rendered(server) /\ drawn = [epoch |-> 1, lists |-> Rendered(server)] /\ drag = NoDrag
  BY DEF Init
<1>5. drawn \in [epoch : 1..Len(heap), lists : Lists] /\ EachOnce(drawn.lists)
  BY <1>2, <1>3, <1>4
<1>6. PageTypes
  BY <1>2, <1>3, <1>4, <1>5, NoDragIsTyped DEF PageTypes
<1>7. SaveTypes
  BY FS_EmptySet DEF Init, SaveTypes
<1>8. RestTypes
  <2>1. read = [pc |-> "none", rows |-> server] /\ gestures = 0 /\ failures = 0 /\ excused = FALSE
    BY DEF Init
  <2>2. read \in [pc : {"none", "sent", "answered", "placed"}, rows : Rows]
    BY <1>1, <2>1
  <2>3. gestures \in 0..MaxGestures /\ failures \in 0..MaxFailures
    BY <2>1, BoundsAssumption
  <2>4. excused \in BOOLEAN
    BY <2>1
  <2> QED
    BY <1>1, <2>2, <2>3, <2>4 DEF RestTypes
<1> QED
  BY <1>6, <1>7, <1>8 DEF CardTypes

-----------------------------------------------------------------------------
(* Gestures. *)

\* A gesture is saved with one request or more.
Saves(n, kind, epoch, rows, changes, new) ==
    /\ gestures < MaxGestures /\ n = gestures + 1 /\ gestures' = n
    /\ kind \in Kinds /\ epoch \in 1..Len(heap) /\ rows \in Rows
    /\ changes \in Seq(Change) /\ (kind # "order" => Len(changes) = 1)
    /\ IsFiniteSet(new) /\ new # {} /\ \A q \in new : Fresh(q, n)
    /\ kind # "order" => \A q \in new : DOMAIN q.body = {changes[1].issue}
    /\ heap' = [heap EXCEPT ![epoch] = rows]
    /\ ops' = WithOp(n, kind, epoch, changes)
    /\ requests' = requests \cup new

LEMMA OpUnalone ==
    ASSUME NEW o \in CardOp
    PROVE  /\ [o EXCEPT !.alone = FALSE] \in CardOp
           /\ [o EXCEPT !.alone = FALSE].n = o.n /\ [o EXCEPT !.alone = FALSE].kind = o.kind
           /\ [o EXCEPT !.alone = FALSE].epoch = o.epoch
           /\ [o EXCEPT !.alone = FALSE].changes = o.changes
           /\ [o EXCEPT !.alone = FALSE].alone = FALSE
BY DEF CardOp

LEMMA SavesTyped ==
    ASSUME CardTypes, NEW n, NEW kind, NEW epoch, NEW rows, NEW changes, NEW new,
           Saves(n, kind, epoch, rows, changes, new),
           UNCHANGED <<read, server, failures>>, excused' \in BOOLEAN
    PROVE  /\ heap' \in Seq(Rows) /\ heap' # <<>> /\ Len(heap') = Len(heap) /\ heap'[epoch] = rows
           /\ SaveTypes' /\ RestTypes'
<1>1. /\ heap' \in Seq(Rows) /\ heap' # <<>> /\ Len(heap') = Len(heap) /\ heap'[epoch] = rows
      /\ Len(heap) \in Nat
  BY HeapIs DEF CardTypes, PageTypes, Saves
<1>2. gestures \in Nat /\ n = gestures + 1 /\ gestures' = n /\ gestures' \in 0..MaxGestures
         /\ n \in 1..n
  BY BoundsAssumption DEF CardTypes, RestTypes, Saves
<1>3. \A m \in 1..gestures : m \in 1..gestures'
  BY <1>2
<1> DEFINE o1 == [n |-> n, kind |-> kind, epoch |-> epoch, changes |-> changes, alone |-> ops = {}]
<1>4. o1 \in CardOp /\ o1.n = n /\ o1.epoch = epoch /\ o1.kind = kind /\ o1.changes = changes
  BY <1>1, <1>2 DEF CardOp, Saves
<1>5. ops' = {[o EXCEPT !.alone = FALSE] : o \in ops} \cup {o1}
  BY DEF Saves, WithOp
<1> HIDE DEF o1
<1>6. ASSUME NEW o \in ops'
      PROVE  /\ o \in CardOp /\ o.n \in 1..gestures' /\ o.epoch \in 1..Len(heap')
             /\ o.kind # "order" => Len(o.changes) = 1
  <2>1. CASE o = o1
    BY <1>1, <1>2, <1>4, <2>1 DEF Saves
  <2>2. CASE o # o1
    <3>1. PICK p \in ops : o = [p EXCEPT !.alone = FALSE]
      BY <1>5, <2>2
    <3>2. p \in CardOp /\ p.n \in 1..gestures /\ p.epoch \in 1..Len(heap)
          /\ (p.kind # "order" => Len(p.changes) = 1)
      BY DEF CardTypes, SaveTypes
    <3> QED
      BY <1>1, <1>3, <3>1, <3>2, OpUnalone
  <2> QED
    BY <2>1, <2>2
<1>7. requests' \subseteq CardRequest /\ IsFiniteSet(requests') /\ \A q \in requests' :
         q.n \in 1..gestures'
  <2>1. requests' = requests \cup new /\ IsFiniteSet(new) /\ \A q \in new : q \in CardRequest
           /\ q.n = n
    BY DEF Saves, Fresh
  <2>2. requests \subseteq CardRequest /\ IsFiniteSet(requests) /\ \A q \in requests :
           q.n \in 1..gestures
    BY DEF CardTypes, SaveTypes
  <2>3. IsFiniteSet(requests')
    BY <2>1, <2>2, FS_Union
  <2> QED
    BY <1>2, <1>3, <2>1, <2>2, <2>3
<1>8. \A o \in ops' : o = o1 \/ \E p \in ops : o = [p EXCEPT !.alone = FALSE]
  BY <1>5
<1>9. \A p \in ops : /\ p.n \in 1..gestures /\ p \in CardOp
                     /\ [p EXCEPT !.alone = FALSE].n = p.n /\ [p EXCEPT !.alone = FALSE].n # n
                     /\ [p EXCEPT !.alone = FALSE].kind = p.kind
                     /\ [p EXCEPT !.alone = FALSE].changes = p.changes
  BY <1>2, OpUnalone DEF CardTypes, SaveTypes
<1>10. requests' = requests \cup new /\ \A q \in new : q.n = n
  BY DEF Saves, Fresh
<1>11. \A q \in requests : q.n # n
  BY <1>2 DEF CardTypes, SaveTypes
<1>12. \A o, p \in ops' : o.n = p.n => o = p
  <2>1. \A o, p \in ops : o.n = p.n => o = p
    BY DEF CardTypes, SaveTypes
  <2> SUFFICES ASSUME NEW o \in ops', NEW p \in ops', o.n = p.n
               PROVE  o = p
    OBVIOUS
  <2>2. CASE o = o1 \/ p = o1
    BY <1>4, <1>8, <1>9, <2>2
  <2>3. CASE o # o1 /\ p # o1
    <3>1. PICK a \in ops : o = [a EXCEPT !.alone = FALSE]
      BY <1>8, <2>3
    <3>2. PICK b \in ops : p = [b EXCEPT !.alone = FALSE]
      BY <1>8, <2>3
    <3>3. a.n = b.n
      BY <1>9, <3>1, <3>2
    <3>4. a = b
      BY <2>1, <3>3
    <3> QED
      BY <3>1, <3>2, <3>4
  <2> QED
    BY <2>2, <2>3
<1>13. \A o \in ops' : \E q \in requests' : q.n = o.n
  <2>1. \A p \in ops : \E q \in requests : q.n = p.n
    BY DEF CardTypes, SaveTypes
  <2>2. \E q \in new : q.n = n
    BY <1>10 DEF Saves
  <2> SUFFICES ASSUME NEW o \in ops'
               PROVE  \E q \in requests' : q.n = o.n
    OBVIOUS
  <2>3. CASE o = o1
    BY <1>4, <1>10, <2>2, <2>3
  <2>4. CASE o # o1
    <3>1. PICK p \in ops : o = [p EXCEPT !.alone = FALSE]
      BY <1>8, <2>4
    <3>2. o.n = p.n
      BY <1>9, <3>1
    <3> QED
      BY <1>10, <2>1, <3>2
  <2> QED
    BY <2>3, <2>4
<1>14. \A o \in ops', q \in requests' : o.kind # "order" /\ q.n = o.n =>
          DOMAIN q.body = {o.changes[1].issue}
  <2> SUFFICES ASSUME NEW o \in ops', NEW q \in requests', o.kind # "order", q.n = o.n
               PROVE  DOMAIN q.body = {o.changes[1].issue}
    OBVIOUS
  <2>1. CASE o = o1
    BY <1>4, <1>10, <1>11, <2>1 DEF Saves
  <2>2. CASE o # o1
    <3>1. PICK p \in ops : o = [p EXCEPT !.alone = FALSE]
      BY <1>8, <2>2
    <3>2. q \in requests /\ q.n = p.n /\ p.kind # "order" /\ o.changes = p.changes
      BY <1>9, <1>10, <3>1
    <3> QED
      BY <3>2 DEF CardTypes, SaveTypes
  <2> QED
    BY <2>1, <2>2
<1>15. SaveTypes'
  BY <1>6, <1>7, <1>12, <1>13, <1>14 DEF SaveTypes
<1>16. RestTypes'
  BY <1>2 DEF CardTypes, RestTypes
<1> QED
  BY <1>1, <1>15, <1>16

\* What a reorder sends first: the statuses, or else the positions.
FirstOf(n, update) ==
    LET puts == Puts(n, update.changes, update.rows)
    IN IF puts # {} THEN puts ELSE Positions(n, update.changes, update.rows)

\* A reorder saves its changes, if there are any.
LEMMA SaveOrderIs ==
    ASSUME CardTypes, NEW epoch \in 1..Len(heap), NEW update \in Update, SaveOrder(epoch, update)
    PROVE  \/ /\ FirstOf(gestures + 1, update) # {}
              /\ Saves(gestures + 1, "order", epoch, update.rows, update.changes,
                    FirstOf(gestures + 1, update))
           \/ /\ update.changes = <<>>
              /\ gestures < MaxGestures /\ gestures' = gestures + 1
              /\ heap' = [heap EXCEPT ![epoch] = update.rows] /\ UNCHANGED <<ops, requests>>
<1> DEFINE n == gestures + 1
           puts == Puts(n, update.changes, update.rows)
           positions == Positions(n, update.changes, update.rows)
           first == FirstOf(n, update)
<1>1. update.rows \in Rows /\ update.changes \in Seq(Change)
  BY DEF Update
<1>2. gestures \in Nat /\ n \in Nat /\ requests \subseteq CardRequest /\ IsFiniteSet(requests)
  BY BoundsAssumption DEF CardTypes, RestTypes, SaveTypes
<1>3. first = IF puts # {} THEN puts ELSE positions
  BY DEF FirstOf
<1>4. /\ gestures < MaxGestures /\ gestures' = n /\ heap' = [heap EXCEPT ![epoch] = update.rows]
      /\ ops' = IF first = {} THEN ops ELSE WithOp(n, "order", epoch, update.changes)
      /\ requests' = requests \cup first
  BY DEF SaveOrder, Gesture, FirstOf
<1> HIDE DEF n, first, puts, positions
<1>5. /\ IsFiniteSet(puts) /\ \A q \in puts : Fresh(q, n)
      /\ \A k \in DOMAIN update.changes : StatusChanged(update.changes[k], update.rows) => puts # {}
  BY <1>1, <1>2, PutsAre DEF puts
<1>6. /\ IsFiniteSet(positions) /\ \A q \in positions : Fresh(q, n)
      /\ positions = {} => \A k \in DOMAIN update.changes :
            StatusChanged(update.changes[k], update.rows)
  BY <1>1, <1>2, PositionsAre DEF positions
<1>7. CASE first # {}
  <2>1. IsFiniteSet(first) /\ \A q \in first : Fresh(q, n)
    BY <1>3, <1>5, <1>6
  <2>2. "order" \in Kinds
    BY DEF Kinds
  <2>3. Saves(n, "order", epoch, update.rows, update.changes, first)
    BY <1>1, <1>4, <1>7, <2>1, <2>2 DEF Saves, n
  <2> QED
    BY <1>7, <2>3 DEF n, first
<1>8. CASE first = {}
  <2>1. puts = {} /\ positions = {}
    BY <1>3, <1>8
  <2>2. DOMAIN update.changes = {}
    BY <1>5, <1>6, <2>1
  <2>3. update.changes = <<>>
    <3> DEFINE c == update.changes
    <3>0. c \in Seq(Change)
      BY <1>1
    <3> HIDE DEF c
    <3>1. Len(c) \in Nat /\ DOMAIN c = 1..Len(c)
      BY <3>0
    <3>2. 1 \notin 1..Len(c)
      BY <2>2, <3>1 DEF c
    <3>3. Len(c) = 0
      BY <3>1, <3>2
    <3>4. c = <<>>
      BY <3>0, <3>3
    <3> QED
      BY <3>4 DEF c
  <2> QED
    BY <1>4, <1>8, <2>3 DEF n
<1> QED
  BY <1>7, <1>8

\* The other gestures change one issue.
LEMMA SaveOneIs ==
    ASSUME CardTypes, NEW kind \in Kinds, kind # "order", NEW epoch \in 1..Len(heap),
           NEW i \in Issues,
           NEW row \in Row, NEW body \in Row, SaveOne(kind, epoch, i, row, body)
    PROVE  \E q :
              /\ Fresh(q, gestures + 1) /\ q.kind = (IF kind = "archive" THEN "archive" ELSE "put")
              /\ DOMAIN q.body = {i} /\ q.body[i] = body
              /\ Saves(gestures + 1, kind, epoch, [heap[epoch] EXCEPT ![i] = row],
                       <<[issue |-> i, was |-> heap[epoch][i]]>>, {q})
              /\ [heap[epoch] EXCEPT ![i] = row] \in Rows
<1> DEFINE n == gestures + 1
           what == IF kind = "archive" THEN "archive" ELSE "put"
           one == [j \in {i} |-> body]
           q == Request(n, what, one)
           changes == <<[issue |-> i, was |-> heap[epoch][i]]>>
           rows == [heap[epoch] EXCEPT ![i] = row]
<1>1. heap \in Seq(Rows) /\ heap[epoch] \in Rows /\ DOMAIN heap = 1..Len(heap)
  BY HeapIs DEF CardTypes, PageTypes
<1>2. rows \in Rows
  BY <1>1 DEF Rows
<1>3. changes \in Seq(Change) /\ Len(changes) = 1
  <2>1. [issue |-> i, was |-> heap[epoch][i]] \in Change
    BY <1>1 DEF Change, Rows
  <2> QED
    BY <2>1
<1>4. gestures \in Nat /\ n \in Nat /\ requests \subseteq CardRequest /\ IsFiniteSet(requests)
  BY BoundsAssumption DEF CardTypes, RestTypes, SaveTypes
<1>5. one \in Bodies /\ DOMAIN one = {i} /\ one[i] = body
  <2>1. one \in [{i} -> Row] /\ {i} \in SUBSET Issues
    OBVIOUS
  <2> QED
    BY <2>1, BodyTyped
<1>6. /\ gestures < MaxGestures /\ gestures' = n
      /\ heap' = [heap EXCEPT ![epoch][i] = row]
      /\ ops' = WithOp(n, kind, epoch, changes)
      /\ requests' = requests \cup {q}
  BY DEF SaveOne, Gesture
<1>7. heap' = [heap EXCEPT ![epoch] = rows]
  BY <1>1, <1>6
<1> HIDE DEF n, one, changes, rows
<1>8. Fresh(q, n) /\ q.kind = what /\ q.body = one
  BY <1>4, <1>5, RequestIs
<1> HIDE DEF q
<1>9. IsFiniteSet({q})
  BY FS_Singleton
<1>10. DOMAIN q.body = {changes[1].issue}
  BY <1>5, <1>8 DEF changes
<1>11. Saves(n, kind, epoch, rows, changes, {q})
  BY <1>2, <1>3, <1>6, <1>7, <1>8, <1>9, <1>10 DEF Saves, n
<1> QED
  BY <1>2, <1>5, <1>8, <1>11 DEF n, changes, rows

LEMMA InsertedTyped ==
    ASSUME NEW S, NEW s \in Seq(S), NEW k \in 1..(Len(s) + 1), NEW x \in S
    PROVE  InsertAt(s, k, x) \in Seq(S)
<1>1. Len(s) \in Nat /\ k - 1 \in 0..Len(s) /\ k \in Nat
  OBVIOUS
<1>2. SubSeq(s, 1, k - 1) \in Seq(S) /\ SubSeq(s, k, Len(s)) \in Seq(S) /\ <<x>> \in Seq(S)
  BY <1>1
<1> QED
  BY <1>2 DEF InsertAt

LEMMA RemovedIs ==
    ASSUME NEW S, NEW s \in Seq(S), NEW k \in 1..Len(s)
    PROVE  /\ RemoveAt(s, k) \in Seq(S)
           /\ DOMAIN RemoveAt(s, k) = 1..(Len(s) - 1) /\ Len(RemoveAt(s, k)) = Len(s) - 1
           /\ \A m \in 1..(Len(s) - 1) : RemoveAt(s, k)[m] = IF m < k THEN s[m] ELSE s[m + 1]
<1> DEFINE a == SubSeq(s, 1, k - 1)
           b == SubSeq(s, k + 1, Len(s))
<1>1. Len(s) \in Nat /\ k \in Nat /\ k - 1 \in Nat /\ Len(s) - k \in Nat
  OBVIOUS
<1>2. a \in Seq(S) /\ Len(a) = k - 1 /\ \A m \in 1..(k - 1) : a[m] = s[m]
  BY <1>1
<1>3. b \in Seq(S) /\ Len(b) = Len(s) - k /\ \A m \in 1..(Len(s) - k) : b[m] = s[k + m]
  BY <1>1
<1>4. RemoveAt(s, k) = a \o b
  BY DEF RemoveAt
<1> HIDE DEF a, b
<1>5. a \o b \in Seq(S) /\ Len(a \o b) = Len(s) - 1 /\ DOMAIN (a \o b) = 1..(Len(s) - 1)
  <2>1. (k - 1) + (Len(s) - k) = Len(s) - 1 /\ Len(s) - 1 \in Nat
    BY <1>1
  <2>2. a \in Seq(S) /\ b \in Seq(S)
    BY <1>2, <1>3
  <2>3. a \o b \in Seq(S) /\ DOMAIN (a \o b) = 1..(Len(a) + Len(b))
    BY <2>2, Concatenated
  <2>4. Len(a \o b) = Len(a) + Len(b)
    BY <2>2
  <2>5. Len(a) = k - 1 /\ Len(b) = Len(s) - k
    BY <1>2, <1>3
  <2> QED
    BY <2>1, <2>3, <2>4, <2>5
<1>6. ASSUME NEW m \in 1..(Len(s) - 1)
      PROVE  (a \o b)[m] = IF m < k THEN s[m] ELSE s[m + 1]
  <2>1. CASE m < k
    BY <1>1, <1>2, <1>3, <2>1
  <2>2. CASE ~(m < k)
    <3>1. m - (k - 1) \in 1..(Len(s) - k) /\ k + (m - (k - 1)) = m + 1
      BY <1>1, <2>2
    <3>2. (a \o b)[m] = b[m - (k - 1)]
      BY <1>1, <1>2, <1>3, <2>2, <3>1
    <3> QED
      BY <1>3, <2>2, <3>1, <3>2
  <2> QED
    BY <2>1, <2>2
<1> QED
  BY <1>4, <1>5, <1>6

LEMMA LocalIs ==
    ASSUME CardTypes
    PROVE  /\ local \in Rows /\ Len(heap) \in 1..Len(heap) /\ Len(heap) \in Nat
           /\ drawn.epoch \in 1..Len(heap)
BY HeapIs DEF CardTypes, PageTypes, local

LEMMA HoversTyped ==
    ASSUME CardTypes, NEW c \in Listed, NEW k, Hovers(c, k)
    PROVE  shown' \in Lists
<1>1. drag.issue \in Issues
  BY DEF CardTypes, PageTypes, Hovers
<1>2. Others \in Lists
  <2>1. CASE drag.list = None
    BY <2>1 DEF Others, CardTypes, PageTypes
  <2>2. CASE drag.list # None
    <3>1. drag.list \in Listed /\ drag.at \in DOMAIN shown[drag.list]
      BY <2>2 DEF CardTypes, PageTypes, Hovers
    <3>2. shown[drag.list] \in Seq(Issues) /\ shown \in Lists
      BY <3>1 DEF CardTypes, PageTypes, Lists
    <3>3. RemoveAt(shown[drag.list], drag.at) \in Seq(Issues)
      BY <3>1, <3>2, RemovedIs
    <3> QED
      BY <2>2, <3>1, <3>2, <3>3 DEF Others, Lists
  <2> QED
    BY <2>1, <2>2
<1>3. Others[c] \in Seq(Issues) /\ k \in 1..(Len(Others[c]) + 1)
  BY <1>2 DEF Lists, Hovers
<1>4. InsertAt(Others[c], k, drag.issue) \in Seq(Issues)
  BY <1>1, <1>3, InsertedTyped
<1> QED
  BY <1>2, <1>4 DEF Hovers, Lists

LEMMA PlacesArePlaces == Seq(Place) \subseteq Seq(AnyPlace)
<1>1. Place \subseteq AnyPlace
  BY DEF Place, AnyPlace, Statuses
<1>2. ASSUME NEW s \in Seq(Place)
      PROVE  s \in Seq(AnyPlace)
  <2>1. Len(s) \in Nat /\ s \in [1..Len(s) -> Place]
    OBVIOUS
  <2>2. s \in [1..Len(s) -> AnyPlace]
    BY <1>1, <2>1
  <2> QED
    BY <2>1, <2>2
<1> QED
  BY <1>2

LEMMA DropIs ==
    ASSUME CardTypes, NEW c \in Listed, NEW k, Drop(c, k)
    PROVE  /\ shown' \in Lists /\ Places(shown') \in Seq(AnyPlace)
           /\ Reordered(local, Places(shown')) \in Update
           /\ SaveOrder(Len(heap), Reordered(local, Places(shown')))
           /\ drag' = NoDrag /\ UNCHANGED <<drawn, read, server, failures>>
           /\ excused' = (excused \/ Excuse("order") \/ ~OneCardEach(shown'))
<1>1. shown' \in Lists
  BY HoversTyped DEF Drop
<1>2. Places(shown') \in Seq(AnyPlace)
  BY <1>1, PlacesHold, PlacesArePlaces
<1>3. Reordered(local, Places(shown')) \in Update
  BY <1>2, LocalIs, ReorderedTyped
<1> QED
  BY <1>1, <1>2, <1>3 DEF Drop

\* The rows a menu's move changes, and where to.
LEMMA MoveInListIs ==
    ASSUME CardTypes, NEW i \in Issues, NEW c \in Listed, NEW top \in BOOLEAN, MoveInList(i, c, top)
    PROVE  \E places \in Seq(AnyPlace) :
              /\ OncePlaced(places)
              /\ \A m \in DOMAIN places : places[m].status = heap[drawn.epoch][places[m].issue].status
              /\ Reordered(heap[drawn.epoch], places) \in Update
              /\ SaveOrder(drawn.epoch, Reordered(heap[drawn.epoch], places))
              /\ UNCHANGED <<shown, drawn, drag, read, server, failures>>
              /\ excused' = (excused \/ Excuse("order"))
<1> DEFINE list == drawn.lists[c]
           at == CHOOSE k \in DOMAIN list : list[k] = i
           rest == RemoveAt(list, at)
           order == IF top THEN <<i>> \o rest ELSE Append(rest, i)
           rows == heap[drawn.epoch]
           places == [n \in DOMAIN order |->
                        [issue |-> order[n], status |-> rows[order[n]].status, pos |-> n - 1]]
<1>1. list \in Seq(Issues) /\ \A m, n \in DOMAIN list : list[m] = list[n] => m = n
  BY DEF CardTypes, PageTypes, Lists, EachOnce
<1>2. /\ i \in ToSet(list)
      /\ SaveOrder(drawn.epoch, Reordered(rows, places))
      /\ excused' = (excused \/ Excuse("order"))
      /\ UNCHANGED <<shown, drawn, drag, read, server, failures>>
  BY DEF MoveInList
<1>3. rows \in Rows
  BY HeapIs, LocalIs DEF CardTypes, PageTypes
<1> HIDE DEF rows, list
<1>4. at \in DOMAIN list /\ list[at] = i
  <2>1. \E k \in DOMAIN list : list[k] = i
    BY <1>2 DEF ToSet
  <2> QED
    BY <2>1
<1> HIDE DEF at
<1>5. /\ rest \in Seq(Issues) /\ Len(list) \in Nat /\ DOMAIN list = 1..Len(list)
            /\ at \in 1..Len(list)
      /\ DOMAIN rest = 1..(Len(list) - 1) /\ Len(rest) = Len(list) - 1
      /\ \A m \in 1..(Len(list) - 1) : rest[m] = IF m < at THEN list[m] ELSE list[m + 1]
  BY <1>1, <1>4, RemovedIs
<1> HIDE DEF rest
<1>6. /\ \A m \in DOMAIN rest : rest[m] # i
      /\ \A m, n \in DOMAIN rest : rest[m] = rest[n] => m = n
  <2>1. ASSUME NEW m \in DOMAIN rest
        PROVE  \E k \in DOMAIN list : rest[m] = list[k] /\ k # at
                  /\ k = (IF m < at THEN m ELSE m + 1)
    BY <1>5
  <2>2. ASSUME NEW m \in DOMAIN rest
        PROVE  rest[m] # i
    BY <1>1, <1>4, <2>1
  <2>3. ASSUME NEW m \in DOMAIN rest, NEW n \in DOMAIN rest, rest[m] = rest[n]
        PROVE  m = n
    <3>1. PICK k \in DOMAIN list : rest[m] = list[k] /\ k # at /\ k = (IF m < at THEN m ELSE m + 1)
      BY <2>1
    <3>2. PICK l \in DOMAIN list : rest[n] = list[l] /\ l # at /\ l = (IF n < at THEN n ELSE n + 1)
      BY <2>1
    <3>3. k = l
      BY <1>1, <2>3, <3>1, <3>2
    <3>4. m \in Int /\ n \in Int /\ at \in Int
      BY <1>5
    <3> QED
      BY <3>1, <3>2, <3>3, <3>4
  <2> QED
    BY <2>2, <2>3
<1>7. order \in Seq(Issues) /\ \A m, n \in DOMAIN order : order[m] = order[n] => m = n
  <2>1. CASE top
    <3>1. order = <<i>> \o rest
      BY <2>1
    <3>2. /\ order \in Seq(Issues) /\ DOMAIN order = 1..(Len(rest) + 1) /\ order[1] = i
          /\ \A m \in 2..(Len(rest) + 1) : m - 1 \in DOMAIN rest /\ order[m] = rest[m - 1]
      BY <1>5, <3>1
    <3> HIDE DEF order
    <3>3. \A m \in DOMAIN order : m = 1 \/ m \in 2..(Len(rest) + 1)
      BY <1>5, <3>2
    <3>4. ASSUME NEW m \in DOMAIN order, NEW n \in DOMAIN order, order[m] = order[n]
          PROVE  m = n
      BY <1>6, <3>2, <3>3, <3>4
    <3> QED
      BY <3>2, <3>4
  <2>2. CASE ~top
    <3>1. order = Append(rest, i)
      BY <2>2
    <3>2. /\ order \in Seq(Issues) /\ order[Len(rest) + 1] = i
          /\ \A m \in DOMAIN rest : order[m] = rest[m]
          /\ \A m \in DOMAIN order : m \in DOMAIN rest \/ m = Len(rest) + 1
      BY <1>5, <3>1, Appended
    <3> HIDE DEF order
    <3>3. ASSUME NEW m \in DOMAIN order, NEW n \in DOMAIN order, order[m] = order[n]
          PROVE  m = n
      BY <1>6, <3>2, <3>3
    <3> QED
      BY <3>2, <3>3
  <2> QED
    BY <2>1, <2>2
<1> HIDE DEF order
<1>8. /\ places \in Seq(AnyPlace) /\ DOMAIN places = DOMAIN order
      /\ \A n \in DOMAIN places : places[n].issue = order[n]
            /\ places[n].status = rows[order[n]].status
  <2>1. Len(order) \in Nat /\ DOMAIN order = 1..Len(order)
    BY <1>7
  <2>2. \A n \in DOMAIN order : order[n] \in Issues
    BY <1>7
  <2>3. ASSUME NEW n \in 1..Len(order)
        PROVE  [issue |-> order[n], status |-> rows[order[n]].status, pos |-> n - 1] \in AnyPlace
    <3>1. order[n] \in Issues /\ n - 1 \in Nat
      BY <2>1, <2>2
    <3>2. rows[order[n]].status \in Statuses
      BY <1>3, <3>1 DEF Rows, Row
    <3> QED
      BY <3>1, <3>2 DEF AnyPlace
  <2>4. places \in Seq(AnyPlace)
    BY <2>1, <2>3
  <2> QED
    BY <2>4
<1> HIDE DEF places
<1>9. OncePlaced(places)
  BY <1>7, <1>8 DEF OncePlaced
<1>10. Reordered(rows, places) \in Update
  BY <1>3, <1>8, ReorderedTyped
<1>11. \A m \in DOMAIN places : places[m].status = rows[places[m].issue].status
  BY <1>8
<1> QED
  BY <1>2, <1>8, <1>9, <1>10, <1>11 DEF rows

\* A step that leaves the gestures and requests as they are.
LEMMA SavesStay ==
    ASSUME CardTypes, UNCHANGED <<ops, requests, gestures>>, Len(heap') \in Nat,
           Len(heap') >= Len(heap)
    PROVE  SaveTypes'
<1>1. Len(heap) \in Nat
  BY LocalIs
<1>2. \A e \in 1..Len(heap) : e \in 1..Len(heap')
  BY <1>1
<1> QED
  BY <1>2 DEF CardTypes, SaveTypes

\* The card that was dragged is in a list.
LEMMA PageDropped ==
    ASSUME PageTypes, heap' \in Seq(Rows), heap' # <<>>, Len(heap') = Len(heap),
           shown' \in Lists, UNCHANGED drawn, drag' = NoDrag
    PROVE  PageTypes'
<1>1. drawn' \in [epoch : 1..Len(heap'), lists : Lists] /\ EachOnce(drawn'.lists)
  BY DEF PageTypes
<1>2. drag' \in [issue : Issues \cup {None}, list : Listed \cup {None}, at : Nat]
         /\ drag'.issue = None
  BY NoDragIsTyped
<1> QED
  BY <1>1, <1>2 DEF PageTypes, EachOnce

LEMMA StartDragTyped ==
    ASSUME CardTypes, NEW c \in Listed, NEW k, StartDrag(c, k)
    PROVE  CardTypes'
<1>1. /\ k \in DOMAIN shown[c] /\ drag' = [issue |-> shown[c][k], list |-> c, at |-> k]
      /\ UNCHANGED <<heap, shown, drawn, ops, requests, read, server, gestures, failures, excused>>
  BY DEF StartDrag
<1>2. shown[c] \in Seq(Issues)
  BY DEF CardTypes, PageTypes, Lists
<1>3. shown[c][k] \in Issues /\ k \in Nat
  BY <1>1, <1>2
<1>4. /\ drag' \in [issue : Issues \cup {None}, list : Listed \cup {None}, at : Nat]
      /\ drag'.list = c /\ drag'.at = k
  BY <1>1, <1>3
<1>5. PageTypes'
  BY <1>1, <1>4 DEF CardTypes, PageTypes, EachOnce
<1>6. SaveTypes'
  BY <1>1 DEF CardTypes, SaveTypes
<1>7. RestTypes'
  BY <1>1 DEF CardTypes, RestTypes
<1> QED
  BY <1>5, <1>6, <1>7 DEF CardTypes

LEMMA CancelDragTyped ==
    ASSUME CardTypes, CancelDrag
    PROVE  CardTypes'
<1>1. /\ drag' = NoDrag
      /\ UNCHANGED <<heap, drawn, ops, requests, read, server, gestures, failures, excused>>
      /\ UNCHANGED shown \/ \E c \in Listed : \E k \in 1..(Len(shown[c]) + 1) : Hovers(c, k)
  BY DEF CancelDrag
<1>2. shown' \in Lists
  BY <1>1, HoversTyped DEF CardTypes, PageTypes
<1>3. PageTypes'
  BY <1>1, <1>2, PageDropped DEF CardTypes, PageTypes
<1>4. SaveTypes'
  BY <1>1 DEF CardTypes, SaveTypes
<1>5. RestTypes'
  BY <1>1 DEF CardTypes, RestTypes
<1> QED
  BY <1>3, <1>4, <1>5 DEF CardTypes

LEMMA SaveOrderTyped ==
    ASSUME CardTypes, NEW epoch \in 1..Len(heap), NEW update \in Update, SaveOrder(epoch, update),
           UNCHANGED <<read, server, failures>>, excused' \in BOOLEAN
    PROVE  /\ heap' \in Seq(Rows) /\ heap' # <<>> /\ Len(heap') = Len(heap)
                 /\ heap'[epoch] = update.rows
           /\ SaveTypes' /\ RestTypes'
<1>1. CASE \E new : Saves(gestures + 1, "order", epoch, update.rows, update.changes, new)
  BY <1>1, SavesTyped
<1>2. CASE /\ gestures < MaxGestures /\ gestures' = gestures + 1
           /\ heap' = [heap EXCEPT ![epoch] = update.rows] /\ UNCHANGED <<ops, requests>>
  <2>1. update.rows \in Rows
    BY DEF Update
  <2>2. heap' \in Seq(Rows) /\ heap' # <<>> /\ Len(heap') = Len(heap) /\ heap'[epoch] = update.rows
    BY <1>2, <2>1, HeapIs DEF CardTypes, PageTypes
  <2>3. gestures' \in 0..MaxGestures /\ \A n \in 1..gestures : n \in 1..gestures'
    BY <1>2, BoundsAssumption DEF CardTypes, RestTypes
  <2>4. SaveTypes'
    BY <1>2, <2>2, <2>3 DEF CardTypes, SaveTypes
  <2>5. RestTypes'
    BY <2>3 DEF CardTypes, RestTypes
  <2> QED
    BY <2>2, <2>4, <2>5
<1> QED
  BY <1>1, <1>2, SaveOrderIs

LEMMA DropTyped ==
    ASSUME CardTypes, NEW c \in Listed, NEW k, Drop(c, k)
    PROVE  CardTypes'
<1>1. /\ shown' \in Lists /\ Reordered(local, Places(shown')) \in Update
      /\ SaveOrder(Len(heap), Reordered(local, Places(shown')))
      /\ drag' = NoDrag /\ UNCHANGED <<drawn, read, server, failures>>
      /\ excused' = (excused \/ Excuse("order") \/ ~OneCardEach(shown'))
  BY DropIs
<1>2. excused' \in BOOLEAN
  BY <1>1
<1>3. /\ heap' \in Seq(Rows) /\ heap' # <<>> /\ Len(heap') = Len(heap)
      /\ SaveTypes' /\ RestTypes'
  BY <1>1, <1>2, LocalIs, SaveOrderTyped
<1>4. PageTypes'
  BY <1>1, <1>3, PageDropped DEF CardTypes
<1> QED
  BY <1>3, <1>4 DEF CardTypes

LEMMA MoveInListTyped ==
    ASSUME CardTypes, NEW i \in Issues, NEW c \in Listed, NEW top \in BOOLEAN, MoveInList(i, c, top)
    PROVE  CardTypes'
<1>1. PICK places \in Seq(AnyPlace) :
         /\ Reordered(heap[drawn.epoch], places) \in Update
         /\ SaveOrder(drawn.epoch, Reordered(heap[drawn.epoch], places))
         /\ UNCHANGED <<shown, drawn, drag, read, server, failures>>
         /\ excused' = (excused \/ Excuse("order"))
  BY MoveInListIs
<1>2. excused' \in BOOLEAN
  BY <1>1
<1>3. /\ heap' \in Seq(Rows) /\ heap' # <<>> /\ Len(heap') = Len(heap)
      /\ SaveTypes' /\ RestTypes'
  BY <1>1, <1>2, LocalIs, SaveOrderTyped
<1>4. Len(heap') >= Len(heap)
  BY <1>3, LocalIs
<1>5. PageTypes'
  BY <1>1, <1>3, <1>4, PageStays DEF CardTypes
<1> QED
  BY <1>3, <1>5 DEF CardTypes

LEMMA SaveOneTyped ==
    ASSUME CardTypes, NEW kind \in Kinds, kind # "order", NEW epoch \in 1..Len(heap),
           NEW i \in Issues,
           NEW row \in Row, NEW body \in Row, SaveOne(kind, epoch, i, row, body),
           drag' = drag \/ drag' = NoDrag
    PROVE  CardTypes'
<1>1. /\ UNCHANGED <<shown, drawn, read, server, failures>>
      /\ excused' = (excused \/ Excuse(kind))
  BY DEF SaveOne
<1>2. excused' \in BOOLEAN
  BY <1>1
<1>3. PICK q : Saves(gestures + 1, kind, epoch, [heap[epoch] EXCEPT ![i] = row],
                     <<[issue |-> i, was |-> heap[epoch][i]]>>, {q})
  BY SaveOneIs
<1>4. /\ heap' \in Seq(Rows) /\ heap' # <<>> /\ Len(heap') = Len(heap)
      /\ SaveTypes' /\ RestTypes'
  BY <1>1, <1>2, <1>3, SavesTyped
<1>5. Len(heap') >= Len(heap)
  BY <1>4, LocalIs
<1>6. PageTypes'
  BY <1>1, <1>4, <1>5, PageStays DEF CardTypes
<1> QED
  BY <1>4, <1>6 DEF CardTypes

Ones == (\E s \in Statuses : DropOnSection(s)) \/ (\E i \in Issues : EditOnCard(i))
   \/ DropOnDay \/ DropOnLane

\* What the gestures that change one issue save.
OneGesture(kind, epoch, i, row, body) ==
    /\ kind \in Kinds /\ kind # "order" /\ epoch \in 1..Len(heap) /\ i \in Issues
          /\ row \in Row /\ body \in Row
    /\ SaveOne(kind, epoch, i, row, body)
    /\ drag' = drag \/ drag' = NoDrag
    /\ row.pos = heap[epoch][i].pos
    /\ kind # "toggle" => epoch = Len(heap)
    /\ kind = "toggle" => epoch = drawn.epoch /\ row = [heap[epoch][i] EXCEPT !.field = ~@]
    /\ kind = "archive" => row.status = "Archive" /\ row.field = heap[epoch][i].field
    /\ kind # "lane" => body = row
    /\ kind = "lane" => row = heap[epoch][i] /\ body = [row EXCEPT !.field = TRUE]

LEMMA OnesAre ==
    ASSUME CardTypes, Ones
    PROVE  \E kind, epoch, i, row, body : OneGesture(kind, epoch, i, row, body)
<1>1. local \in Rows /\ local = heap[Len(heap)] /\ heap[drawn.epoch] \in Rows
      /\ Len(heap) \in 1..Len(heap) /\ drawn.epoch \in 1..Len(heap)
  BY LocalIs, HeapIs DEF CardTypes, PageTypes, local
<1>2. drag.issue # None => drag.issue \in Issues
  BY DEF CardTypes, PageTypes
<1>3. \A rows \in Rows : \A i \in Issues : rows[i] \in Row
  BY DEF Rows
<1>4. \A row \in Row : \A s \in Statuses :
        /\ [row EXCEPT !.status = s] \in Row /\ [row EXCEPT !.status = s].status = s
        /\ [row EXCEPT !.status = s].pos = row.pos /\ [row EXCEPT !.status = s].field = row.field
  BY DEF Row
<1>5. \A row \in Row :
        /\ [row EXCEPT !.field = TRUE] \in Row /\ [row EXCEPT !.field = TRUE].pos = row.pos
        /\ [row EXCEPT !.field = ~@] \in Row /\ [row EXCEPT !.field = ~@].pos = row.pos
  BY DEF Row
<1>6. ASSUME NEW s \in Statuses, DropOnSection(s)
      PROVE  \E kind, epoch, i, row, body : OneGesture(kind, epoch, i, row, body)
  <2> DEFINE i == drag.issue
             row == [local[i] EXCEPT !.status = s]
             kind == IF s = "Archive" THEN "archive" ELSE "section"
  <2>1. i # None /\ SaveOne(kind, Len(heap), i, row, row) /\ drag' = NoDrag
    BY <1>6 DEF DropOnSection
  <2>2. /\ i \in Issues /\ row \in Row /\ row.status = s
        /\ row.pos = heap[Len(heap)][i].pos /\ row.field = heap[Len(heap)][i].field
    BY <1>1, <1>2, <1>3, <1>4, <2>1
  <2>3. kind \in Kinds /\ kind \notin {"order", "toggle", "lane"}
           /\ (kind = "archive" => s = "Archive")
    BY DEF Kinds
  <2> HIDE DEF i, row, kind
  <2>4. OneGesture(kind, Len(heap), i, row, row)
    BY <1>1, <2>1, <2>2, <2>3 DEF OneGesture
  <2> QED
    BY <2>4
<1>7. ASSUME NEW i \in Issues, EditOnCard(i)
      PROVE  \E kind, epoch, j, row, body : OneGesture(kind, epoch, j, row, body)
  <2> DEFINE old == heap[drawn.epoch][i]
             row == [old EXCEPT !.field = ~@]
  <2>1. SaveOne("toggle", drawn.epoch, i, row, row) /\ drag' = drag
    BY <1>7 DEF EditOnCard
  <2>2. row \in Row /\ row.pos = old.pos
    BY <1>1, <1>3, <1>5
  <2>3. "toggle" \in Kinds
    BY DEF Kinds
  <2>4. row = [heap[drawn.epoch][i] EXCEPT !.field = ~@] /\ row.pos = heap[drawn.epoch][i].pos
    BY <2>2
  <2> HIDE DEF row
  <2>5. OneGesture("toggle", drawn.epoch, i, row, row)
    BY <1>1, <2>1, <2>2, <2>3, <2>4 DEF OneGesture
  <2> QED
    BY <2>5
<1>8. ASSUME DropOnDay
      PROVE  \E kind, epoch, i, row, body : OneGesture(kind, epoch, i, row, body)
  <2> DEFINE i == drag.issue
             row == [local[i] EXCEPT !.field = TRUE]
  <2>1. i # None /\ SaveOne("plan", Len(heap), i, row, row) /\ drag' = NoDrag
    BY <1>8 DEF DropOnDay
  <2>2. i \in Issues /\ row \in Row /\ row.pos = heap[Len(heap)][i].pos
    BY <1>1, <1>2, <1>3, <1>5, <2>1
  <2>3. "plan" \in Kinds
    BY DEF Kinds
  <2> HIDE DEF i, row
  <2>4. OneGesture("plan", Len(heap), i, row, row)
    BY <1>1, <2>1, <2>2, <2>3 DEF OneGesture
  <2> QED
    BY <2>4
<1>9. ASSUME DropOnLane
      PROVE  \E kind, epoch, i, row, body : OneGesture(kind, epoch, i, row, body)
  <2> DEFINE i == drag.issue
             row == local[i]
             body == [row EXCEPT !.field = TRUE]
  <2>1. i # None /\ SaveOne("lane", Len(heap), i, row, body) /\ drag' = NoDrag
    BY <1>9 DEF DropOnLane
  <2>2. i \in Issues /\ row \in Row /\ row = heap[Len(heap)][i] /\ body \in Row
    BY <1>1, <1>2, <1>3, <1>5, <2>1
  <2>3. "lane" \in Kinds /\ body = [row EXCEPT !.field = TRUE]
    BY DEF Kinds
  <2> HIDE DEF i, row, body
  <2>4. OneGesture("lane", Len(heap), i, row, body)
    BY <1>1, <2>1, <2>2, <2>3 DEF OneGesture
  <2> QED
    BY <2>4
<1> QED
  BY <1>6, <1>7, <1>8, <1>9 DEF Ones

LEMMA OnesTyped ==
    ASSUME CardTypes, Ones
    PROVE  CardTypes'
<1>1. PICK kind, epoch, i, row, body : OneGesture(kind, epoch, i, row, body)
  BY OnesAre
<1> QED
  BY <1>1, SaveOneTyped DEF OneGesture

LEMMA RefreshTyped ==
    ASSUME CardTypes, Refresh
    PROVE  CardTypes'
<1>1. /\ gestures < MaxGestures /\ gestures' = gestures + 1
      /\ read' = [pc |-> "sent", rows |-> server]
      /\ excused' = (excused \/ ops # {})
      /\ UNCHANGED <<heap, shown, drawn, drag, ops, requests, server, failures>>
  BY DEF Refresh, Gesture
<1>2. gestures' \in 0..MaxGestures /\ \A n \in 1..gestures : n \in 1..gestures'
  BY <1>1, BoundsAssumption DEF CardTypes, RestTypes
<1>3. PageTypes'
  BY <1>1 DEF CardTypes, PageTypes, EachOnce
<1>4. SaveTypes'
  BY <1>1, <1>2 DEF CardTypes, SaveTypes
<1>5. RestTypes'
  <2>1. excused' \in BOOLEAN
    BY <1>1
  <2>2. read' \in [pc : {"none", "sent", "answered", "placed"}, rows : Rows]
    BY <1>1 DEF CardTypes, RestTypes
  <2> QED
    BY <1>1, <1>2, <2>1, <2>2 DEF CardTypes, RestTypes
<1> QED
  BY <1>3, <1>4, <1>5 DEF CardTypes

-----------------------------------------------------------------------------
(* The server. *)

LEMMA AppliedIs ==
    ASSUME CardTypes, NEW q \in requests, Accepts(q)
    PROVE  /\ Applied(q) \in Rows
           /\ \A i \in Issues :
                 /\ i \notin DOMAIN q.body => Applied(q)[i] = server[i]
                 /\ i \in DOMAIN q.body =>
                       /\ q.body[i] \in Row
                       /\ q.kind = "put" => Applied(q)[i] = q.body[i]
                       /\ q.kind = "archive" => Applied(q)[i] = [server[i] EXCEPT !.status = "Archive"]
                       /\ q.kind = "positions" => Applied(q)[i] = [server[i] EXCEPT !.pos = q.body[i].pos]
                       /\ q.kind \in {"put", "archive", "positions"}
<1>1. q \in CardRequest /\ server \in Rows /\ q.kind # "doubled"
  BY DEF CardTypes, SaveTypes, RestTypes, Accepts
<1>2. q.kind \in {"put", "archive", "positions"} /\ q.body \in Bodies
  BY <1>1 DEF CardRequest
<1>3. \A i \in DOMAIN q.body : q.body[i] \in Row /\ i \in Issues
  BY <1>2, BodyTyped
<1> DEFINE value(i) ==
             CASE q.kind = "put" -> q.body[i]
               [] q.kind = "archive" -> [server[i] EXCEPT !.status = "Archive"]
               [] q.kind = "positions" -> [server[i] EXCEPT !.pos = q.body[i].pos]
<1>4. ASSUME NEW i \in DOMAIN q.body
      PROVE  /\ q.kind = "put" => value(i) = q.body[i]
             /\ q.kind = "archive" => value(i) = [server[i] EXCEPT !.status = "Archive"]
             /\ q.kind = "positions" => value(i) = [server[i] EXCEPT !.pos = q.body[i].pos]
             /\ value(i) \in Row
  <2>1. server[i] \in Row /\ q.body[i] \in Row
    BY <1>1, <1>3 DEF Rows
  <2>2. [server[i] EXCEPT !.status = "Archive"] \in Row
    BY <2>1 DEF Row, Statuses
  <2>3. [server[i] EXCEPT !.pos = q.body[i].pos] \in Row
    BY <2>1 DEF Row
  <2> QED
    BY <1>2, <2>1, <2>2, <2>3
<1>5. Applied(q) = [i \in Issues |-> IF i \notin DOMAIN q.body THEN server[i] ELSE value(i)]
  BY DEF Applied
<1> HIDE DEF value
<1>6. Applied(q) \in Rows
  BY <1>1, <1>4, <1>5 DEF Rows
<1>7. ASSUME NEW i \in Issues
      PROVE  /\ i \notin DOMAIN q.body => Applied(q)[i] = server[i]
             /\ i \in DOMAIN q.body => Applied(q)[i] = value(i)
  BY <1>5
<1> QED
  BY <1>2, <1>3, <1>4, <1>6, <1>7

\* An answer takes the place of its request, if its gesture still waits.
LEMMA AnswerToTyped ==
    ASSUME CardTypes, NEW q \in requests, NEW pc \in {"saved", "failed"},
           NEW rows \in Bodies, DOMAIN rows = DOMAIN q.body, AnswerTo(q, pc, rows),
           UNCHANGED <<heap, ops, gestures>>
    PROVE  SaveTypes'
<1> DEFINE r == [q EXCEPT !.pc = pc, !.body = rows]
<1>1. q \in CardRequest /\ q.n \in 1..gestures
  BY DEF CardTypes, SaveTypes
<1>2. r \in CardRequest /\ r.n = q.n /\ r.body = rows
  BY <1>1 DEF CardRequest
<1>3. requests' = (requests \ {q}) \cup (IF \E o \in ops : o.n = q.n THEN {r} ELSE {})
  BY DEF AnswerTo
<1> HIDE DEF r
<1>4. requests' \subseteq CardRequest /\ \A p \in requests' : p.n \in 1..gestures'
  BY <1>1, <1>2, <1>3 DEF CardTypes, SaveTypes
<1>5. IsFiniteSet(requests')
  <2>1. requests' \subseteq requests \cup {r} /\ IsFiniteSet(requests)
    BY <1>3 DEF CardTypes, SaveTypes
  <2> QED
    BY <2>1, FS_Union, FS_Singleton, FS_Subset
<1>6. ASSUME NEW o \in ops'
      PROVE  \E p \in requests' : p.n = o.n
  <2>1. PICK p \in requests : p.n = o.n
    BY DEF CardTypes, SaveTypes
  <2>2. CASE p = q
    BY <1>2, <1>3, <2>1, <2>2
  <2>3. CASE p # q
    BY <1>3, <2>1, <2>3
  <2> QED
    BY <2>2, <2>3
<1>7. ASSUME NEW o \in ops', NEW p \in requests', o.kind # "order", p.n = o.n
      PROVE  DOMAIN p.body = {o.changes[1].issue}
  <2>1. CASE p \in requests
    BY <1>7, <2>1 DEF CardTypes, SaveTypes
  <2>2. CASE p \notin requests
    <3>1. p = r /\ q.n = o.n
      BY <1>2, <1>3, <1>7, <2>2
    <3>2. DOMAIN q.body = {o.changes[1].issue}
      BY <1>7, <3>1 DEF CardTypes, SaveTypes
    <3> QED
      BY <1>2, <3>1, <3>2
  <2> QED
    BY <2>1, <2>2
<1> QED
  BY <1>4, <1>5, <1>6, <1>7 DEF CardTypes, SaveTypes

LEMMA ServedTyped ==
    ASSUME CardTypes, NEW q \in requests, NEW pc \in {"saved", "failed"}, NEW rows \in Bodies,
           DOMAIN rows = DOMAIN q.body, AnswerTo(q, pc, rows), server' \in Rows,
           UNCHANGED <<heap, shown, drawn, drag, ops, read, gestures>>,
           failures' \in 0..MaxFailures, excused' \in BOOLEAN
    PROVE  CardTypes'
<1>1. PageTypes'
  BY DEF CardTypes, PageTypes, EachOnce
<1>2. SaveTypes'
  BY AnswerToTyped
<1>3. RestTypes'
  BY DEF CardTypes, RestTypes
<1> QED
  BY <1>1, <1>2, <1>3 DEF CardTypes

\* Serve, with what its answer says.
LEMMA ServeIs ==
    ASSUME CardTypes, NEW q \in requests, Serve(q)
    PROVE  /\ q.pc = "sent" /\ server' \in Rows
           /\ server' = (IF Accepts(q) THEN Applied(q) ELSE server)
           /\ \E rows \in Bodies :
                 /\ DOMAIN rows = DOMAIN q.body /\ \A i \in DOMAIN rows : rows[i] = server'[i]
                 /\ AnswerTo(q, IF Accepts(q) THEN "saved" ELSE "failed", rows)
           /\ excused' = (excused \/ \E p \in requests : p.pc = "sent" /\ p.sent < q.sent)
           /\ UNCHANGED <<heap, shown, drawn, drag, ops, read, gestures, failures>>
<1> DEFINE rows == [i \in DOMAIN q.body |-> server'[i]]
<1>1. /\ q.pc = "sent"
      /\ server' = (IF Accepts(q) THEN Applied(q) ELSE server)
      /\ AnswerTo(q, IF Accepts(q) THEN "saved" ELSE "failed", rows)
      /\ excused' = (excused \/ \E p \in requests : p.pc = "sent" /\ p.sent < q.sent)
      /\ UNCHANGED <<heap, shown, drawn, drag, ops, read, gestures, failures>>
  BY DEF Serve
<1>2. server' \in Rows
  BY <1>1, AppliedIs DEF CardTypes, RestTypes
<1>3. rows \in Bodies /\ DOMAIN rows = DOMAIN q.body /\ \A i \in DOMAIN rows : rows[i] = server'[i]
  <2>1. DOMAIN q.body \in SUBSET Issues
    BY BodyTyped DEF CardTypes, SaveTypes, CardRequest
  <2>2. rows \in [DOMAIN q.body -> Row]
    BY <1>2, <2>1 DEF Rows
  <2> QED
    BY <2>1, <2>2, BodyTyped
<1> QED
  BY <1>1, <1>2, <1>3

LEMMA ServeTyped ==
    ASSUME CardTypes, NEW q \in requests, Serve(q)
    PROVE  CardTypes'
<1>1. PICK rows \in Bodies :
         /\ DOMAIN rows = DOMAIN q.body
         /\ AnswerTo(q, IF Accepts(q) THEN "saved" ELSE "failed", rows)
  BY ServeIs
<1>2. /\ server' \in Rows /\ UNCHANGED <<heap, shown, drawn, drag, ops, read, gestures, failures>>
      /\ excused' = (excused \/ \E p \in requests : p.pc = "sent" /\ p.sent < q.sent)
  BY ServeIs
<1>3. excused' \in BOOLEAN
  BY <1>2
<1>4. failures' \in 0..MaxFailures
  BY <1>2 DEF CardTypes, RestTypes
<1>5. (IF Accepts(q) THEN "saved" ELSE "failed") \in {"saved", "failed"}
  OBVIOUS
<1> QED
  BY <1>1, <1>2, <1>3, <1>4, <1>5, ServedTyped

LEMMA ServeInVainTyped ==
    ASSUME CardTypes, NEW q \in requests, NEW executed \in BOOLEAN, ServeInVain(q, executed)
    PROVE  CardTypes'
<1>1. /\ failures < MaxFailures /\ failures' = failures + 1
      /\ executed => Accepts(q)
      /\ server' = (IF executed THEN Applied(q) ELSE server)
      /\ AnswerTo(q, "failed", q.body)
      /\ excused' = (excused \/ (executed /\ \E o \in ops : o.n = q.n
            /\ o.kind \in {"toggle", "lane"}))
      /\ UNCHANGED <<heap, shown, drawn, drag, ops, read, gestures>>
  BY DEF ServeInVain
<1>2. server' \in Rows
  BY <1>1, AppliedIs DEF CardTypes, RestTypes
<1>3. excused' \in BOOLEAN
  BY <1>1
<1>4. failures' \in 0..MaxFailures
  BY <1>1, BoundsAssumption DEF CardTypes, RestTypes
<1>5. q.body \in Bodies
  BY DEF CardTypes, SaveTypes, CardRequest
<1> QED
  BY <1>1, <1>2, <1>3, <1>4, <1>5, ServedTyped

-----------------------------------------------------------------------------
(* Answers. *)

LEMMA SavePositionsIs ==
    ASSUME CardTypes, NEW o \in ops, SavePositions(o)
    PROVE  /\ o \in CardOp /\ o.n \in Nat /\ o.changes \in Seq(Change) /\ heap[o.epoch] \in Rows
           /\ IsFiniteSet(Positions(o.n, o.changes, heap[o.epoch]))
           /\ Positions(o.n, o.changes, heap[o.epoch]) # {}
           /\ requests' = (requests \ OfOp(o)) \cup Positions(o.n, o.changes, heap[o.epoch])
           /\ o.kind = "order" /\ \A q \in OfOp(o) : q.kind = "put" /\ q.pc = "saved"
           /\ UNCHANGED <<heap, shown, drawn, drag, ops, read, server, gestures, failures, excused>>
<1>1. /\ o.kind = "order" /\ \A q \in OfOp(o) : q.kind = "put" /\ q.pc = "saved"
      /\ Positions(o.n, o.changes, heap[o.epoch]) # {}
      /\ requests' = (requests \ OfOp(o)) \cup Positions(o.n, o.changes, heap[o.epoch])
      /\ UNCHANGED <<heap, shown, drawn, drag, ops, read, server, gestures, failures, excused>>
  BY DEF SavePositions
<1>2. o \in CardOp /\ o.epoch \in 1..Len(heap)
  BY DEF CardTypes, SaveTypes
<1>3. o.n \in Nat /\ o.changes \in Seq(Change) /\ heap[o.epoch] \in Rows
  BY <1>2, HeapIs DEF CardTypes, PageTypes, CardOp
<1>4. IsFiniteSet(Positions(o.n, o.changes, heap[o.epoch]))
  BY <1>3, PositionsAre DEF CardTypes, SaveTypes
<1> QED
  BY <1>1, <1>2, <1>3, <1>4

LEMMA SavePositionsTyped ==
    ASSUME CardTypes, NEW o \in ops, SavePositions(o)
    PROVE  CardTypes'
<1> DEFINE new == Positions(o.n, o.changes, heap[o.epoch])
<1>1. /\ o \in CardOp /\ o.n \in Nat /\ o.changes \in Seq(Change) /\ heap[o.epoch] \in Rows
      /\ IsFiniteSet(new) /\ new # {}
      /\ requests' = (requests \ OfOp(o)) \cup new
      /\ o.kind = "order"
      /\ UNCHANGED <<heap, shown, drawn, drag, ops, read, server, gestures, failures, excused>>
  BY SavePositionsIs
<1>2. \A q \in new : q \in CardRequest /\ q.n = o.n
  BY <1>1, PositionsAre DEF CardTypes, SaveTypes, Fresh
<1> HIDE DEF new
<1>3. requests' \subseteq CardRequest /\ \A q \in requests' : q.n \in 1..gestures'
  BY <1>1, <1>2 DEF CardTypes, SaveTypes
<1>4. IsFiniteSet(requests')
  BY <1>1, FS_Union, FS_Subset DEF CardTypes, SaveTypes
<1>5. ASSUME NEW p \in ops
      PROVE  \E q \in requests' : q.n = p.n
  <2>1. CASE p.n = o.n
    BY <1>1, <1>2, <2>1
  <2>2. CASE p.n # o.n
    <3>1. PICK q \in requests : q.n = p.n
      BY DEF CardTypes, SaveTypes
    <3> QED
      BY <1>1, <2>2, <3>1 DEF OfOp
  <2> QED
    BY <2>1, <2>2
<1>6. ASSUME NEW p \in ops, NEW q \in requests', p.kind # "order", q.n = p.n
      PROVE  DOMAIN q.body = {p.changes[1].issue}
  <2>1. p.n # o.n
    BY <1>1, <1>6 DEF CardTypes, SaveTypes
  <2>2. q \in requests
    BY <1>1, <1>2, <1>6, <2>1
  <2> QED
    BY <1>6, <2>2 DEF CardTypes, SaveTypes
<1>7. SaveTypes'
  BY <1>1, <1>3, <1>4, <1>5, <1>6 DEF CardTypes, SaveTypes
<1>8. PageTypes' /\ RestTypes'
  BY <1>1 DEF CardTypes, PageTypes, EachOnce, RestTypes
<1> QED
  BY <1>7, <1>8 DEF CardTypes

\* A gesture is done: the requests of the others stay.
LEMMA OpDone ==
    ASSUME CardTypes, NEW o \in ops, ops' = ops \ {o},
           requests' \subseteq requests, \A q \in requests : q.n # o.n => q \in requests',
           UNCHANGED gestures, Len(heap') = Len(heap)
    PROVE  SaveTypes'
<1>1. \A p \in ops' : p \in ops /\ p.n # o.n
  BY DEF CardTypes, SaveTypes
<1>2. \A p \in ops' : \E q \in requests' : q.n = p.n
  BY <1>1 DEF CardTypes, SaveTypes
<1>3. IsFiniteSet(requests')
  BY FS_Subset DEF CardTypes, SaveTypes
<1> QED
  BY <1>1, <1>2, <1>3 DEF CardTypes, SaveTypes

LEMMA MergedIs ==
    ASSUME CardTypes, NEW o \in ops
    PROVE  /\ o.kind # "lane" => Merged(o) = heap
           /\ o.kind = "lane" => \E q \in OfOp(o), i \in Issues :
                 /\ DOMAIN q.body = {i} /\ q.body[i] \in Row /\ i = o.changes[1].issue
                 /\ Merged(o) = [heap EXCEPT ![o.epoch] = [heap[o.epoch] EXCEPT ![i] = q.body[i]]]
           /\ Merged(o) \in Seq(Rows) /\ Merged(o) # <<>> /\ Len(Merged(o)) = Len(heap)
<1>1. o \in CardOp /\ o.epoch \in 1..Len(heap) /\ heap \in Seq(Rows) /\ heap # <<>>
  BY DEF CardTypes, SaveTypes, PageTypes
<1>2. heap[o.epoch] \in Rows /\ DOMAIN heap = 1..Len(heap)
  BY <1>1, HeapIs
<1>3. CASE o.kind # "lane"
  BY <1>1, <1>3 DEF Merged
<1>4. CASE o.kind = "lane"
  <2> DEFINE q == CHOOSE r \in OfOp(o) : TRUE
             i == CHOOSE j \in DOMAIN q.body : TRUE
  <2>1. q \in OfOp(o)
    BY DEF CardTypes, SaveTypes, OfOp
  <2>2. Merged(o) = [heap EXCEPT ![o.epoch][i] = q.body[i]]
    BY <1>4 DEF Merged
  <2> HIDE DEF q
  <2>3. q \in requests /\ q.n = o.n
    BY <2>1 DEF OfOp
  <2>4. DOMAIN q.body = {o.changes[1].issue} /\ q \in CardRequest
    BY <1>4, <2>3 DEF CardTypes, SaveTypes
  <2>5. i = o.changes[1].issue /\ DOMAIN q.body = {i}
    BY <2>4
  <2> HIDE DEF i
  <2>6. i \in Issues /\ q.body[i] \in Row
    BY <2>4, <2>5, BodyTyped DEF CardRequest
  <2> DEFINE rows == [heap[o.epoch] EXCEPT ![i] = q.body[i]]
  <2>7. rows \in Rows
    BY <1>2, <2>6 DEF Rows
  <2>8. Merged(o) = [heap EXCEPT ![o.epoch] = rows]
    BY <1>1, <1>2, <2>2
  <2>9. Merged(o) \in Seq(Rows) /\ Merged(o) # <<>> /\ Len(Merged(o)) = Len(heap)
    <3> HIDE DEF rows
    <3> QED
      BY <1>1, <2>7, <2>8, HeapIs
  <2> QED
    BY <1>4, <2>1, <2>5, <2>6, <2>8, <2>9
<1> QED
  BY <1>3, <1>4

LEMMA SavedTyped ==
    ASSUME CardTypes, NEW o \in ops, Saved(o)
    PROVE  CardTypes'
<1>1. /\ heap' = Merged(o) /\ Redraw(heap'[Len(heap)], Len(heap))
      /\ ops' = ops \ {o} /\ requests' = requests \ OfOp(o)
      /\ UNCHANGED <<read, server, gestures, failures, excused>>
  BY DEF Saved
<1>2. heap' \in Seq(Rows) /\ heap' # <<>> /\ Len(heap') = Len(heap)
  BY <1>1, MergedIs
<1>3. Len(heap) \in 1..Len(heap') /\ heap'[Len(heap)] \in Rows
  BY <1>2, LocalIs, HeapIs
<1>4. PageTypes'
  BY <1>1, <1>2, <1>3, RedrawTyped DEF CardTypes, PageTypes
<1>5. SaveTypes'
  BY <1>1, <1>2, OpDone DEF OfOp
<1>6. RestTypes'
  BY <1>1 DEF CardTypes, RestTypes
<1> QED
  BY <1>4, <1>5, <1>6 DEF CardTypes

LEMMA FailsIs ==
    ASSUME CardTypes, NEW o \in ops, Fails(o)
    PROVE  /\ o \in CardOp /\ o.epoch \in 1..Len(heap) /\ heap[o.epoch] \in Rows
           /\ RolledBack(heap[o.epoch], o.changes, o.kind) \in Rows
           /\ heap' = [heap EXCEPT ![o.epoch] = RolledBack(heap[o.epoch], o.changes, o.kind)]
           /\ heap' \in Seq(Rows) /\ heap' # <<>> /\ Len(heap') = Len(heap)
<1>1. o \in CardOp /\ o.epoch \in 1..Len(heap) /\ heap \in Seq(Rows) /\ heap # <<>>
  BY DEF CardTypes, SaveTypes, PageTypes
<1>2. heap[o.epoch] \in Rows /\ o.changes \in Seq(Change) /\ o.kind \in Kinds
  BY <1>1, HeapIs DEF CardOp
<1>3. RolledBack(heap[o.epoch], o.changes, o.kind) \in Rows
  BY <1>2, RolledBackOne
<1>4. heap' = [heap EXCEPT ![o.epoch] = RolledBack(heap[o.epoch], o.changes, o.kind)]
  BY DEF Fails
<1> QED
  BY <1>1, <1>2, <1>3, <1>4, HeapIs

LEMMA FailsTyped ==
    ASSUME CardTypes, NEW o \in ops, Fails(o)
    PROVE  CardTypes'
<1>1. /\ ops' = ops \ {o} /\ requests' = {q \in requests : q.n = o.n => q.pc = "sent"}
      /\ read' = (IF ReadsAgain(o.kind) THEN [pc |-> "sent", rows |-> server] ELSE read)
      /\ IF o.kind \in {"plan", "lane"} THEN UNCHANGED <<shown, drawn, drag>>
         ELSE Redraw(heap'[Len(heap)], Len(heap))
      /\ excused' = (excused \/ ~o.alone)
      /\ UNCHANGED <<server, gestures, failures>>
  BY DEF Fails
<1>2. heap' \in Seq(Rows) /\ heap' # <<>> /\ Len(heap') = Len(heap)
  BY FailsIs
<1>3. Len(heap) \in 1..Len(heap') /\ heap'[Len(heap)] \in Rows /\ Len(heap') >= Len(heap)
  BY <1>2, LocalIs, HeapIs
<1>4. PageTypes'
  <2>1. CASE o.kind \in {"plan", "lane"}
    BY <1>1, <1>2, <1>3, <2>1, PageStays DEF CardTypes
  <2>2. CASE o.kind \notin {"plan", "lane"}
    BY <1>1, <1>2, <1>3, <2>2, RedrawTyped DEF CardTypes, PageTypes
  <2> QED
    BY <2>1, <2>2
<1>5. SaveTypes'
  BY <1>1, <1>2, OpDone
<1>6. RestTypes'
  <2>1. excused' \in BOOLEAN
    BY <1>1
  <2>2. read' \in [pc : {"none", "sent", "answered", "placed"}, rows : Rows]
    BY <1>1 DEF CardTypes, RestTypes
  <2> QED
    BY <1>1, <2>1, <2>2 DEF CardTypes, RestTypes
<1> QED
  BY <1>4, <1>5, <1>6 DEF CardTypes

LEMMA RefreshingTyped ==
    ASSUME CardTypes, Refreshing
    PROVE  CardTypes'
<1>1. CASE ReadServed
  <2>1. /\ read' = [pc |-> "answered", rows |-> server]
        /\ excused' = (excused \/ \E q \in requests : q.pc = "sent")
        /\ UNCHANGED <<heap, shown, drawn, drag, ops, requests, server, gestures, failures>>
    BY <1>1 DEF ReadServed
  <2>2. PageTypes' /\ SaveTypes'
    BY <2>1 DEF CardTypes, PageTypes, EachOnce, SaveTypes
  <2>3. excused' \in BOOLEAN
    BY <2>1
  <2>4. read' \in [pc : {"none", "sent", "answered", "placed"}, rows : Rows]
    BY <2>1 DEF CardTypes, RestTypes
  <2>5. RestTypes'
    BY <2>1, <2>3, <2>4 DEF CardTypes, RestTypes
  <2> QED
    BY <2>2, <2>5 DEF CardTypes
<1>2. CASE ReadReturns
  <2>1. /\ heap' = Append(heap, read.rows) /\ read' = [read EXCEPT !.pc = "placed"]
        /\ UNCHANGED <<shown, drawn, drag, ops, requests, server, gestures, failures, excused>>
    BY <1>2 DEF ReadReturns
  <2>2. read.rows \in Rows /\ read' \in [pc : {"none", "sent", "answered", "placed"}, rows : Rows]
    BY <2>1 DEF CardTypes, RestTypes
  <2>3. /\ heap' \in Seq(Rows) /\ heap' # <<>> /\ Len(heap') = Len(heap) + 1
        /\ Len(heap) \in Nat
    BY <2>1, <2>2, HeapIs DEF CardTypes, PageTypes
  <2>4. Len(heap') >= Len(heap) /\ Len(heap') \in Nat
    BY <2>3
  <2>5. PageTypes'
    BY <2>1, <2>3, <2>4, PageStays DEF CardTypes
  <2>6. SaveTypes'
    BY <2>1, <2>4, SavesStay
  <2>7. RestTypes'
    BY <2>1, <2>2 DEF CardTypes, RestTypes
  <2> QED
    BY <2>5, <2>6, <2>7 DEF CardTypes
<1>3. CASE RefreshEnds
  <2>1. /\ read' = [read EXCEPT !.pc = "none"] /\ Redraw(local, Len(heap))
        /\ UNCHANGED <<heap, ops, requests, server, gestures, failures, excused>>
    BY <1>3 DEF RefreshEnds
  <2>2. PageTypes'
    BY <2>1, LocalIs, RedrawTyped DEF CardTypes, PageTypes
  <2>3. SaveTypes'
    BY <2>1 DEF CardTypes, SaveTypes
  <2>4. read' \in [pc : {"none", "sent", "answered", "placed"}, rows : Rows]
    BY <2>1 DEF CardTypes, RestTypes
  <2>5. RestTypes'
    BY <2>1, <2>4 DEF CardTypes, RestTypes
  <2> QED
    BY <2>2, <2>3, <2>5 DEF CardTypes
<1> QED
  BY <1>1, <1>2, <1>3 DEF Refreshing

LEMMA NextTyped == CardTypes /\ [Next]_vars => CardTypes'
<1> SUFFICES ASSUME CardTypes, [Next]_vars
             PROVE  CardTypes'
  OBVIOUS
<1>1. CASE UNCHANGED vars
  BY <1>1 DEF vars, CardTypes, PageTypes, EachOnce, SaveTypes, RestTypes
<1>2. ASSUME NEW c \in Listed, NEW k \in 1..Len(shown[c]), StartDrag(c, k)
      PROVE  CardTypes'
  BY <1>2, StartDragTyped
<1>3. ASSUME NEW c \in Listed, NEW k \in 1..(Len(shown[c]) + 1), Drop(c, k)
      PROVE  CardTypes'
  BY <1>3, DropTyped
<1>4. ASSUME NEW i \in Issues, NEW c \in Listed, NEW top \in BOOLEAN, MoveInList(i, c, top)
      PROVE  CardTypes'
  BY <1>4, MoveInListTyped
<1>5. CASE Ones
  BY <1>5, OnesTyped
<1>6. CASE CancelDrag
  BY <1>6, CancelDragTyped
<1>7. CASE Refresh
  BY <1>7, RefreshTyped
<1>8. ASSUME NEW q \in requests, Serve(q)
      PROVE  CardTypes'
  BY <1>8, ServeTyped
<1>9. ASSUME NEW q \in requests, NEW executed \in BOOLEAN, ServeInVain(q, executed)
      PROVE  CardTypes'
  BY <1>9, ServeInVainTyped
<1>10. ASSUME NEW o \in ops, SavePositions(o) \/ Saved(o) \/ Fails(o)
       PROVE  CardTypes'
  BY <1>10, SavePositionsTyped, SavedTyped, FailsTyped
<1>11. CASE Refreshing
  BY <1>11, RefreshingTyped
<1> QED
  BY <1>1, <1>2, <1>3, <1>4, <1>5, <1>6, <1>7, <1>8, <1>9, <1>10, <1>11
     DEF Next, Drops, Answered, Ones

LEMMA CardTypesHold == Spec => []CardTypes
<1>1. Init => CardTypes
  BY InitTyped
<1>2. CardTypes /\ [Next]_vars => CardTypes'
  BY NextTyped
<1> QED
  BY <1>1, <1>2, PTL DEF Spec

\* Every gesture, request, refresh and list of cards is about issues and columns that there are:
\* what handlers read of the cards (dataset.issueId, dataset.status) and of older issues.
THEOREM CardsTyped == Spec => []TypeOK
BY CardTypesHold, CardTypesTyped, PTL

-----------------------------------------------------------------------------
(* A drop leaves the lists as they were dropped. *)

\* A list whose cards have the positions they are at is the one that is drawn.
LEMMA NumberedIsRendered ==
    ASSUME NEW rows \in Rows, NEW c \in Listed, NEW s \in Seq(Issues),
           \A m \in DOMAIN s : rows[s[m]].status = c /\ rows[s[m]].pos = m - 1,
           \A i \in Issues : rows[i].status = c => \E m \in DOMAIN s : s[m] = i
    PROVE  Rendered(rows)[c] = s
<1> DEFINE S == Shows(rows, c)
           N == Len(s)
<1>1. N \in Nat /\ DOMAIN s = 1..N /\ \A m \in 1..N : s[m] \in Issues
  OBVIOUS
<1>2. S \in SUBSET Issues /\ Rendered(rows)[c] = Sorted(rows, S)
  BY DEF Shows, Rendered
<1>3. /\ \A m \in 1..N : s[m] \in S
      /\ \A i \in S : \E m \in 1..N : s[m] = i
  BY <1>1 DEF Shows
<1> HIDE DEF S
<1>4. \A m, n \in 1..N : s[m] = s[n] => m = n
  <2> SUFFICES ASSUME NEW m \in 1..N, NEW n \in 1..N, s[m] = s[n]
               PROVE  m = n
    OBVIOUS
  <2>1. m - 1 = n - 1
    BY <1>1
  <2> QED
    BY <1>1, <2>1
<1>5. s \in [1..N -> S]
  BY <1>1, <1>3
<1>6. s \in Injection(1..N, S) /\ s \in Surjection(1..N, S)
  BY <1>3, <1>4, <1>5 DEF Injection, IsInjective, Surjection
<1>7. Cardinality(S) = N
  <2>1. IsFiniteSet(1..N) /\ Cardinality(1..N) = N
    BY <1>1, FS_Interval
  <2> QED
    BY <1>6, <2>1, FS_Surjection
<1>8. Along(ByPos(rows, S), s)
  <2> SUFFICES ASSUME NEW m \in DOMAIN s, NEW n \in DOMAIN s, m < n
               PROVE  <<s[m], s[n]>> \in ByPos(rows, S)
    BY DEF Along
  <2>1. s[m] \in S /\ s[n] \in S
    BY <1>1, <1>3
  <2>2. rows[s[m]].pos = m - 1 /\ rows[s[n]].pos = n - 1
    OBVIOUS
  <2>3. rows[s[m]].pos < rows[s[n]].pos
    BY <1>1, <2>2
  <2>4. Before(rows, s[m], s[n])
    BY <2>3 DEF Before
  <2> QED
    BY <2>1, <2>4, ByPosIsBefore
<1>9. Enumerates(s, ByPos(rows, S), S)
  BY <1>5, <1>7, <1>8 DEF Enumerates
<1> QED
  BY <1>2, <1>9, SortedEnumerates

LEMMA DropShown ==
    ASSUME CardTypes, NEW c \in Listed, NEW k, Drop(c, k),
           OneCardEach(shown'), Complete(shown', local)
    PROVE  Rendered(local') = shown'
<1> DEFINE places == Places(shown')
           update == Reordered(local, places)
           rows == update.rows
<1>1. /\ shown' \in Lists /\ places \in Seq(AnyPlace) /\ update \in Update
      /\ SaveOrder(Len(heap), update)
      /\ UNCHANGED <<read, server, failures>>
      /\ excused' = (excused \/ Excuse("order") \/ ~OneCardEach(shown'))
  BY DropIs
<1>2. rows \in Rows /\ local \in Rows
  BY <1>1, LocalIs DEF Update
<1>3. local' = rows
  <2>1. excused' \in BOOLEAN
    BY <1>1
  <2> HIDE DEF update
  <2>2. Len(heap') = Len(heap) /\ heap'[Len(heap)] = rows
    BY <1>1, <2>1, LocalIs, SaveOrderTyped
  <2> QED
    BY <2>2 DEF local
<1>4. OncePlaced(places)
  BY DEF OneCardEach, OncePlaced
<1>5. /\ \A n \in DOMAIN places : \E d \in Listed : \E m \in DOMAIN shown'[d] :
            places[n] = [issue |-> shown'[d][m], status |-> d, pos |-> m - 1]
      /\ \A d \in Listed : \A m \in DOMAIN shown'[d] : \E n \in DOMAIN places :
            places[n] = [issue |-> shown'[d][m], status |-> d, pos |-> m - 1]
  BY <1>1, PlacesHold
<1>6. \A i \in Issues : local[i].status \in Listed => \E n \in DOMAIN places : places[n].issue = i
  BY DEF Complete
<1> HIDE DEF places
<1>7. MovedUpTo(Len(places), local, places, update)
  BY <1>1, <1>2, <1>4, ReorderedMoves
<1> HIDE DEF update
<1>8. DOMAIN places = 1..Len(places) /\ \A n \in DOMAIN places : places[n] \in AnyPlace
  BY <1>1
<1>9. /\ \A n \in DOMAIN places :
            rows[places[n].issue] = PlacedAt(local[places[n].issue], places[n])
      /\ \A i \in Issues : (\A n \in DOMAIN places : places[n].issue # i) => rows[i] = local[i]
  BY <1>7, <1>8 DEF MovedUpTo
<1>10. \A n \in DOMAIN places :
         /\ rows[places[n].issue].status = places[n].status
         /\ rows[places[n].issue].pos = places[n].pos
  <2> SUFFICES ASSUME NEW n \in DOMAIN places
               PROVE  /\ rows[places[n].issue].status = places[n].status
                      /\ rows[places[n].issue].pos = places[n].pos
    OBVIOUS
  <2>1. local[places[n].issue] \in Row
    BY <1>2, <1>8 DEF AnyPlace, Rows
  <2>2. rows[places[n].issue] = PlacedAt(local[places[n].issue], places[n])
    BY <1>9
  <2> QED
    BY <2>1, <2>2 DEF PlacedAt, Row
<1> HIDE DEF rows
<1>11. ASSUME NEW d \in Listed
       PROVE  Rendered(rows)[d] = shown'[d]
  <2>1. shown'[d] \in Seq(Issues)
    BY <1>1 DEF Lists
  <2>2. ASSUME NEW m \in DOMAIN shown'[d]
        PROVE  rows[shown'[d][m]].status = d /\ rows[shown'[d][m]].pos = m - 1
    <3>1. PICK n \in DOMAIN places :
             places[n] = [issue |-> shown'[d][m], status |-> d, pos |-> m - 1]
      BY <1>5
    <3>2. places[n].issue = shown'[d][m] /\ places[n].status = d /\ places[n].pos = m - 1
      BY <3>1
    <3> QED
      BY <1>10, <3>2
  <2>3. ASSUME NEW i \in Issues, rows[i].status = d
        PROVE  \E m \in DOMAIN shown'[d] : shown'[d][m] = i
    <3>1. PICK n \in DOMAIN places : places[n].issue = i
      BY <1>6, <1>9, <2>3
    <3>2. PICK e \in Listed : \E m \in DOMAIN shown'[e] :
             places[n] = [issue |-> shown'[e][m], status |-> e, pos |-> m - 1]
      BY <1>5
    <3>3. PICK m \in DOMAIN shown'[e] :
             places[n] = [issue |-> shown'[e][m], status |-> e, pos |-> m - 1]
      BY <3>2
    <3>4. places[n].issue = shown'[e][m] /\ places[n].status = e
      BY <3>3
    <3>5. e = d
      BY <1>10, <2>3, <3>1, <3>4
    <3> QED
      BY <3>1, <3>4, <3>5
  <2> QED
    BY <1>2, <2>1, <2>2, <2>3, NumberedIsRendered DEF rows
<1>12. Rendered(rows) = [d \in Listed |-> Rendered(rows)[d]]
          /\ shown' = [d \in Listed |-> shown'[d]]
  BY <1>1 DEF Rendered, Lists
<1>13. Rendered(rows) = shown'
  BY <1>11, <1>12
<1> QED
  BY <1>3, <1>13

\* After a drop, the issues have the statuses and positions of their cards, so that the next
\* rendering shows the cards as they were dropped (getBoardUpdates, getListUpdates).
THEOREM DropsAlwaysLand == Spec => DropLands
<1> DEFINE D == Drops /\ OneCardEach(shown') /\ Complete(shown', local) => Rendered(local') = shown'
<1>1. ASSUME CardTypes, [Next]_vars
      PROVE  [D]_vars
  <2>1. ASSUME Drops, OneCardEach(shown'), Complete(shown', local)
        PROVE  Rendered(local') = shown'
    BY <1>1, <2>1, DropShown DEF Drops
  <2> QED
    BY <2>1
<1>2. CardTypes /\ [Next]_vars => [D]_vars
  BY <1>1
<1> QED
  BY <1>2, CardTypesHold, PTL DEF Spec, DropLands

-----------------------------------------------------------------------------
(* The page has what the server has, or will have. *)

\* A reorder that still saves statuses will save the position of an issue.
Owes(o, R, rows, i) ==
    /\ o.kind = "order" /\ \E q \in R : q.n = o.n /\ q.kind = "put"
    /\ \E m \in DOMAIN o.changes : o.changes[m].issue = i /\ ~StatusChanged(o.changes[m], rows)

StatusAgrees(R, rows, there, i) ==
    Promised(R, {"put", "archive"}, "status", i, rows[i].status, there[i].status)
FieldAgrees(R, rows, there, i) ==
    Promised(R, {"put"}, "field", i, rows[i].field, there[i].field)
PosAgrees(R, rows, there, i) ==
    Promised(R, {"put", "positions"}, "pos", i, rows[i].pos, there[i].pos)

PosOwed(O, R, rows, there, i) ==
    \/ rows[i].status = "Archive"
    \/ PosAgrees(R, rows, there, i)
    \/ \E o \in O : Owes(o, R, rows, i)

\* O: gestures being saved, R: requests, rows: the issues of the page, there: of the server.
PageAgrees(O, R, rows, there) ==
    \A i \in Issues : /\ StatusAgrees(R, rows, there, i) /\ FieldAgrees(R, rows, there, i)
                      /\ PosOwed(O, R, rows, there, i)

\* A lane's request is the only one, and the issue becomes what the answer says.
LaneAgrees(o, R, rows, there) ==
    \E q \in R, i \in Issues :
        /\ R = {q} /\ q.n = o.n /\ q.kind = "put" /\ DOMAIN q.body = {i}
        /\ q.pc = "sent" => q.body[i] = [rows[i] EXCEPT !.field = TRUE]
        /\ Agree(IF q.pc = "saved" THEN [rows EXCEPT ![i] = q.body[i]] ELSE rows, there)

\* Without the change of a field that fails, the page has what the server has.
ToggleAgrees(o, R, rows, there) ==
    \E q \in R : /\ R = {q} /\ q.n = o.n /\ q.kind = "put"
                 /\ q.pc # "saved" => Agree(PutBack(rows, o.changes[1], "toggle"), there)

Settled(O, R, rows, there) ==
    /\ \A q \in R : \E o \in O : o.n = q.n
    /\ (\A o \in O : o.kind # "lane") /\ (\A q \in R : q.pc # "failed") =>
          PageAgrees(O, R, rows, there)
    /\ \A o \in O : o.kind = "lane" => O = {o} /\ LaneAgrees(o, R, rows, there)
    /\ \A o \in O : o.kind = "toggle" /\ o.alone => ToggleAgrees(o, R, rows, there)

InShape(O, R) ==
    /\ \A o \in O : o.alone => O = {o}
    /\ \A o \in O : \A m, n \in DOMAIN o.changes : o.changes[m].issue = o.changes[n].issue => m = n
    /\ \A q \in R : q.kind # "doubled"
    /\ \A q \in R : q.kind = "archive" /\ q.pc = "sent" => \A i \in DOMAIN q.body :
          q.body[i].status = "Archive"

Calm ==
    /\ drawn.epoch = Len(heap) /\ \A o \in ops : o.epoch = Len(heap)
    /\ Settled(ops, requests, local, server)

Reading ==
    /\ ops = {} /\ \A q \in requests : q.pc = "sent"
    /\ read.pc # "sent" => requests = {} /\ read.rows = server
    /\ read.pc = "placed" => local = server

Agreed ==
    ~excused => /\ InShape(ops, requests)
                /\ read.pc = "none" => Calm
                /\ read.pc # "none" => Reading

LEMMA QuietAgrees ==
    ASSUME NEW rows, NEW there
    PROVE  PageAgrees({}, {}, rows, there) <=> Agree(rows, there)
<1>1. \A kinds, i : Writers({}, kinds, i) = {}
  BY DEF Writers
<1>2. \A kinds, part, i, here, then : Promised({}, kinds, part, i, here, then) <=> here = then
  BY <1>1 DEF Promised
<1>3. \A i : /\ StatusAgrees({}, rows, there, i) <=> rows[i].status = there[i].status
             /\ FieldAgrees({}, rows, there, i) <=> rows[i].field = there[i].field
             /\ PosOwed({}, {}, rows, there, i) <=>
                   rows[i].status = "Archive" \/ rows[i].pos = there[i].pos
  BY <1>2 DEF StatusAgrees, FieldAgrees, PosOwed, PosAgrees
<1> QED
  BY <1>3 DEF PageAgrees, Agree

LEMMA QuietSettled ==
    ASSUME NEW rows, NEW there
    PROVE  /\ Settled({}, {}, rows, there) <=> Agree(rows, there)
           /\ InShape({}, {})
BY QuietAgrees DEF Settled, InShape

LEMMA SettledQuiet ==
    ASSUME NEW R, NEW rows, NEW there, Settled({}, R, rows, there)
    PROVE  R = {} /\ Agree(rows, there)
<1>1. R = {}
  BY DEF Settled
<1> QED
  BY <1>1, QuietSettled

\* Requests that are answered write nothing.
LEMMA AgreesWithoutAnswered ==
    ASSUME NEW O, NEW P \in SUBSET O, NEW R, NEW S, NEW rows, NEW there,
           \A q \in R : q.pc = "sent" <=> q \in S /\ q.pc = "sent",
           \A q \in S : q.pc = "sent" => q \in R,
           \A i \in Issues : \A o \in O : Owes(o, R, rows, i) => PosOwed(P, S, rows, there, i),
           PageAgrees(O, R, rows, there)
    PROVE  PageAgrees(P, S, rows, there)
<1>1. \A kinds, i : Writers(S, kinds, i) = Writers(R, kinds, i)
  BY DEF Writers
<1>2. ASSUME NEW i \in Issues
      PROVE  /\ StatusAgrees(S, rows, there, i) /\ FieldAgrees(S, rows, there, i)
             /\ PosAgrees(R, rows, there, i) => PosAgrees(S, rows, there, i)
  BY <1>1, PromiseStays DEF PageAgrees, StatusAgrees, FieldAgrees, PosAgrees
<1>3. ASSUME NEW i \in Issues
      PROVE  PosOwed(P, S, rows, there, i)
  <2>1. PosOwed(O, R, rows, there, i)
    BY DEF PageAgrees
  <2> QED
    BY <1>2, <2>1 DEF PosOwed
<1> QED
  BY <1>2, <1>3 DEF PageAgrees

\* The oldest request is served: the server has what it wrote.
LEMMA AgreesServed ==
    ASSUME NEW O, NEW R \in SUBSET CardRequest, NEW q \in R, q.pc = "sent",
           \A p \in R : p.pc = "sent" => ~(p.sent < q.sent),
           NEW r, r.n = q.n, r.kind = q.kind, r.pc = "saved",
           NEW rows, NEW there, NEW then,
           \A i \in Issues :
              /\ then[i].status =
                    IF q \in Writers(R, {"put", "archive"}, i)
                    THEN q.body[i]["status"] ELSE there[i].status
              /\ then[i].field =
                    IF q \in Writers(R, {"put"}, i)
                    THEN q.body[i]["field"] ELSE there[i].field
              /\ then[i].pos =
                    IF q \in Writers(R, {"put", "positions"}, i)
                    THEN q.body[i]["pos"] ELSE there[i].pos,
           PageAgrees(O, R, rows, there)
    PROVE  PageAgrees(O, (R \ {q}) \cup {r}, rows, then)
<1> DEFINE S == (R \ {q}) \cup {r}
<1>1. \A kinds, i : Writers(S, kinds, i) = Writers(R, kinds, i) \ {q}
  BY DEF Writers
<1>2. \A o, i : Owes(o, R, rows, i) => Owes(o, S, rows, i)
  <2>1. \A o : (\E p \in R : p.n = o.n /\ p.kind = "put") => \E p \in S : p.n = o.n
           /\ p.kind = "put"
    OBVIOUS
  <2> QED
    BY <2>1 DEF Owes
<1> HIDE DEF S
<1>3. ASSUME NEW i \in Issues
      PROVE  /\ StatusAgrees(S, rows, then, i) /\ FieldAgrees(S, rows, then, i)
             /\ PosOwed(O, S, rows, then, i)
  <2>1. /\ then[i].status =
              IF q \in Writers(R, {"put", "archive"}, i)
              THEN q.body[i]["status"] ELSE there[i].status
        /\ then[i].field =
              IF q \in Writers(R, {"put"}, i)
              THEN q.body[i]["field"] ELSE there[i].field
        /\ then[i].pos =
              IF q \in Writers(R, {"put", "positions"}, i)
              THEN q.body[i]["pos"] ELSE there[i].pos
    OBVIOUS
  <2>2. StatusAgrees(S, rows, then, i)
    <3>1. Promised(R, {"put", "archive"}, "status", i, rows[i].status, there[i].status)
      BY DEF PageAgrees, StatusAgrees
    <3>2. Promised(S, {"put", "archive"}, "status", i, rows[i].status, then[i].status)
      BY <1>1, <2>1, <3>1, PromiseKept
    <3> QED
      BY <3>2 DEF StatusAgrees
  <2>3. FieldAgrees(S, rows, then, i)
    <3>1. Promised(R, {"put"}, "field", i, rows[i].field, there[i].field)
      BY DEF PageAgrees, FieldAgrees
    <3>2. Promised(S, {"put"}, "field", i, rows[i].field, then[i].field)
      BY <1>1, <2>1, <3>1, PromiseKept
    <3> QED
      BY <3>2 DEF FieldAgrees
  <2>4. ASSUME PosAgrees(R, rows, there, i)
        PROVE  PosAgrees(S, rows, then, i)
    <3>1. Promised(R, {"put", "positions"}, "pos", i, rows[i].pos, there[i].pos)
      BY <2>4 DEF PosAgrees
    <3>2. Promised(S, {"put", "positions"}, "pos", i, rows[i].pos, then[i].pos)
      BY <1>1, <2>1, <3>1, PromiseKept
    <3> QED
      BY <3>2 DEF PosAgrees
  <2>5. PosOwed(O, R, rows, there, i)
    BY DEF PageAgrees
  <2>6. PosOwed(O, S, rows, then, i)
    BY <1>2, <2>4, <2>5 DEF PosOwed
  <2> QED
    BY <2>2, <2>3, <2>6
<1> QED
  BY <1>3 DEF PageAgrees, S

\* A request fails. What the server has may differ then, if the issues are read again.
LEMMA SettledFailing ==
    ASSUME NEW O, NEW R, NEW q \in R, q.pc = "sent",
           NEW r, r.n = q.n, r.kind = q.kind, r.pc = "failed", DOMAIN r.body = DOMAIN q.body,
           NEW rows, NEW there, NEW then,
           then = there \/ \A o \in O : o.n = q.n => o.kind \notin {"toggle", "lane"},
           Settled(O, R, rows, there)
    PROVE  Settled(O, (R \ {q}) \cup {r}, rows, then)
<1> DEFINE S == (R \ {q}) \cup {r}
<1>1. \A p \in S : \E o \in O : o.n = p.n
  BY DEF Settled
<1>2. r \in S /\ r.pc = "failed"
  OBVIOUS
<1>3. ASSUME NEW o \in O, o.kind = "lane"
      PROVE  O = {o} /\ LaneAgrees(o, S, rows, then)
  <2>1. O = {o} /\ LaneAgrees(o, R, rows, there)
    BY <1>3 DEF Settled
  <2>2. PICK p \in R, i \in Issues :
           /\ R = {p} /\ p.n = o.n /\ p.kind = "put" /\ DOMAIN p.body = {i}
           /\ Agree(IF p.pc = "saved" THEN [rows EXCEPT ![i] = p.body[i]] ELSE rows, there)
    BY <2>1 DEF LaneAgrees
  <2>3. p = q /\ S = {r} /\ then = there
    BY <1>3, <2>2
  <2>4. Agree(rows, then)
    BY <2>2, <2>3
  <2>5. r \in S /\ S = {r} /\ r.n = o.n /\ r.kind = "put" /\ DOMAIN r.body = {i}
           /\ r.pc # "sent" /\ r.pc # "saved"
    BY <2>2, <2>3
  <2> HIDE DEF S
  <2> QED
    BY <2>1, <2>4, <2>5 DEF LaneAgrees
<1>4. ASSUME NEW o \in O, o.kind = "toggle", o.alone
      PROVE  ToggleAgrees(o, S, rows, then)
  <2>1. PICK p \in R :
           /\ R = {p} /\ p.n = o.n /\ p.kind = "put"
           /\ p.pc # "saved" => Agree(PutBack(rows, o.changes[1], "toggle"), there)
    BY <1>4 DEF Settled, ToggleAgrees
  <2>2. p = q /\ S = {r} /\ then = there
    BY <1>4, <2>1
  <2> HIDE DEF S
  <2> QED
    BY <2>1, <2>2 DEF ToggleAgrees
<1> HIDE DEF S
<1>5. Settled(O, S, rows, then)
  BY <1>1, <1>2, <1>3, <1>4 DEF Settled
<1> QED
  BY <1>5 DEF S

\* The oldest request is served.
LEMMA SettledServed ==
    ASSUME NEW O, NEW R \in SUBSET CardRequest, NEW q \in R, q.pc = "sent",
           \A p \in R : p.pc = "sent" => ~(p.sent < q.sent),
           NEW r, r.n = q.n, r.kind = q.kind, r.pc = "saved", DOMAIN r.body = DOMAIN q.body,
           NEW rows \in Rows, NEW there, NEW then,
           \A i \in DOMAIN r.body : r.body[i] = then[i],
           \A i \in Issues :
              /\ then[i].status =
                    IF q \in Writers(R, {"put", "archive"}, i)
                    THEN q.body[i]["status"] ELSE there[i].status
              /\ then[i].field =
                    IF q \in Writers(R, {"put"}, i)
                    THEN q.body[i]["field"] ELSE there[i].field
              /\ then[i].pos =
                    IF q \in Writers(R, {"put", "positions"}, i)
                    THEN q.body[i]["pos"] ELSE there[i].pos
              /\ q.kind = "put" /\ i \in DOMAIN q.body => then[i] = q.body[i]
              /\ i \notin DOMAIN q.body => then[i] = there[i],
           Settled(O, R, rows, there)
    PROVE  Settled(O, (R \ {q}) \cup {r}, rows, then)
<1> DEFINE S == (R \ {q}) \cup {r}
<1>1. \A p \in S : \E o \in O : o.n = p.n
  BY DEF Settled
<1>2. (\A p \in S : p.pc # "failed") => \A p \in R : p.pc # "failed"
  OBVIOUS
<1>3. ASSUME PageAgrees(O, R, rows, there)
      PROVE  PageAgrees(O, S, rows, then)
  BY <1>3, AgreesServed
<1>4. ASSUME NEW o \in O, o.kind = "lane"
      PROVE  O = {o} /\ LaneAgrees(o, S, rows, then)
  <2>1. O = {o} /\ LaneAgrees(o, R, rows, there)
    BY <1>4 DEF Settled
  <2>2. PICK p \in R, i \in Issues :
           /\ R = {p} /\ p.n = o.n /\ p.kind = "put" /\ DOMAIN p.body = {i}
           /\ Agree(IF p.pc = "saved" THEN [rows EXCEPT ![i] = p.body[i]] ELSE rows, there)
    BY <2>1 DEF LaneAgrees
  <2>3. p = q /\ S = {r}
    BY <2>2
  <2>4. Agree(rows, there)
    BY <2>2, <2>3
  <2>5. r.body[i] = then[i]
    BY <2>2, <2>3
  <2>6. Agree([rows EXCEPT ![i] = r.body[i]], then)
    <3>1. \A j \in Issues : [rows EXCEPT ![i] = r.body[i]][j] = IF j = i THEN then[i] ELSE rows[j]
      BY <2>5 DEF Rows
    <3>2. \A j \in Issues : j # i => then[j] = there[j]
      BY <2>2, <2>3
    <3> QED
      BY <2>4, <3>1, <3>2 DEF Agree
  <2>7. r \in S /\ S = {r} /\ r.n = o.n /\ r.kind = "put" /\ DOMAIN r.body = {i}
           /\ r.pc # "sent" /\ r.pc = "saved"
    BY <2>2, <2>3
  <2> HIDE DEF S
  <2> QED
    BY <2>1, <2>6, <2>7 DEF LaneAgrees
<1>5. ASSUME NEW o \in O, o.kind = "toggle", o.alone
      PROVE  ToggleAgrees(o, S, rows, then)
  <2>1. PICK p \in R : R = {p} /\ p.n = o.n /\ p.kind = "put"
    BY <1>5 DEF Settled, ToggleAgrees
  <2>2. p = q /\ S = {r}
    BY <2>1
  <2> HIDE DEF S
  <2> QED
    BY <2>1, <2>2 DEF ToggleAgrees
<1> HIDE DEF S
<1>6. Settled(O, S, rows, then)
  BY <1>1, <1>2, <1>3, <1>4, <1>5 DEF Settled
<1> QED
  BY <1>6 DEF S

LEMMA AnswerToIs ==
    ASSUME CardTypes, NEW q \in requests, NEW pc \in {"saved", "failed"},
           NEW rows \in Bodies, AnswerTo(q, pc, rows)
    PROVE  \E r : /\ r.n = q.n /\ r.kind = q.kind /\ r.pc = pc /\ r.body = rows
                  /\ requests' =
                        (requests \ {q}) \cup (IF \E o \in ops : o.n = q.n THEN {r} ELSE {})
<1>1. q \in CardRequest
  BY DEF CardTypes, SaveTypes
<1>2. /\ [q EXCEPT !.pc = pc, !.body = rows].n = q.n
      /\ [q EXCEPT !.pc = pc, !.body = rows].kind = q.kind
      /\ [q EXCEPT !.pc = pc, !.body = rows].pc = pc
      /\ [q EXCEPT !.pc = pc, !.body = rows].body = rows
  BY <1>1 DEF CardRequest
<1>3. requests' =
         (requests \ {q})
         \cup (IF \E o \in ops : o.n = q.n THEN {[q EXCEPT !.pc = pc, !.body = rows]} ELSE {})
  BY DEF AnswerTo
<1> QED
  BY <1>2, <1>3

\* Before the answer, and after it, as long as what is settled stays so.
LEMMA AnsweredAgreed ==
    ASSUME Agreed, NEW q \in requests, q.pc = "sent", NEW r, r.n = q.n, r.kind = q.kind,
           r.pc # "sent",
           requests' = (requests \ {q}) \cup (IF \E o \in ops : o.n = q.n THEN {r} ELSE {}),
           UNCHANGED <<heap, drawn, ops, read>>, ~excused' => ~excused,
           ~excused /\ ~excused' /\ Settled(ops, requests, local, server)
              => Settled(ops, (requests \ {q}) \cup {r}, local, server')
    PROVE  Agreed'
<1> SUFFICES ASSUME ~excused'
             PROVE  (InShape(ops, requests) /\ (read.pc = "none" => Calm)
                       /\ (read.pc # "none" => Reading))'
  BY DEF Agreed
<1>1. InShape(ops, requests) /\ (read.pc = "none" => Calm) /\ (read.pc # "none" => Reading)
  BY DEF Agreed
<1>2. InShape(ops, requests)'
  BY <1>1 DEF InShape
<1>3. ASSUME read.pc = "none"
      PROVE  Calm'
  <2>1. Calm /\ Settled(ops, requests, local, server)
    BY <1>1, <1>3 DEF Calm
  <2>2. requests' = (requests \ {q}) \cup {r}
    BY <2>1 DEF Settled
  <2>3. Settled(ops, (requests \ {q}) \cup {r}, local, server')
    BY <2>1
  <2>4. local' = local
    BY DEF local
  <2>5. Settled(ops, requests, local, server)'
    BY <2>2, <2>3, <2>4
  <2> QED
    BY <2>1, <2>5 DEF Calm
<1>4. ASSUME read.pc # "none"
      PROVE  Reading'
  <2>1. ops = {} /\ (\A p \in requests : p.pc = "sent") /\ read.pc = "sent"
    BY <1>1, <1>4 DEF Reading
  <2>2. requests' = requests \ {q}
    BY <2>1
  <2> QED
    BY <2>1, <2>2 DEF Reading
<1> QED
  BY <1>2, <1>3, <1>4

LEMMA ServeAgreed ==
    ASSUME CardTypes, Agreed, NEW q \in requests, Serve(q)
    PROVE  Agreed'
<1>1. /\ q.pc = "sent" /\ server' \in Rows
      /\ server' = (IF Accepts(q) THEN Applied(q) ELSE server)
      /\ excused' = (excused \/ \E p \in requests : p.pc = "sent" /\ p.sent < q.sent)
      /\ UNCHANGED <<heap, shown, drawn, drag, ops, read, gestures, failures>>
  BY ServeIs
<1> DEFINE pc == IF Accepts(q) THEN "saved" ELSE "failed"
<1>2. PICK rows \in Bodies :
         /\ DOMAIN rows = DOMAIN q.body /\ \A i \in DOMAIN rows : rows[i] = server'[i]
         /\ AnswerTo(q, pc, rows)
  BY ServeIs
<1>3. pc \in {"saved", "failed"} /\ pc # "sent"
  OBVIOUS
<1>4. PICK r : /\ r.n = q.n /\ r.kind = q.kind /\ r.pc = pc /\ r.body = rows
               /\ requests' = (requests \ {q}) \cup (IF \E o \in ops : o.n = q.n THEN {r} ELSE {})
  <2> HIDE DEF pc
  <2> QED
    BY <1>2, <1>3, AnswerToIs
<1>5. ~excused' => ~excused /\ \A p \in requests : p.pc = "sent" => ~(p.sent < q.sent)
  BY <1>1
<1>6. ASSUME ~excused', Settled(ops, requests, local, server)
      PROVE  Settled(ops, (requests \ {q}) \cup {r}, local, server')
  <2>1. CASE Accepts(q)
    <3>1. server' = Applied(q) /\ requests \in SUBSET CardRequest /\ local \in Rows
             /\ r.pc = "saved"
      BY <1>1, <1>4, <2>1, LocalIs DEF CardTypes, SaveTypes
    <3>2. InShape(ops, requests)
      BY <1>5, <1>6 DEF Agreed
    <3>3. ASSUME NEW i \in Issues
          PROVE  /\ server'[i].status = IF q \in Writers(requests, {"put", "archive"}, i)
                                        THEN q.body[i]["status"] ELSE server[i].status
                 /\ server'[i].field = IF q \in Writers(requests, {"put"}, i)
                                       THEN q.body[i]["field"] ELSE server[i].field
                 /\ server'[i].pos = IF q \in Writers(requests, {"put", "positions"}, i)
                                     THEN q.body[i]["pos"] ELSE server[i].pos
                 /\ q.kind = "put" /\ i \in DOMAIN q.body => server'[i] = q.body[i]
                 /\ i \notin DOMAIN q.body => server'[i] = server[i]
      <4>1. /\ i \notin DOMAIN q.body => server'[i] = server[i]
            /\ i \in DOMAIN q.body =>
                  /\ q.body[i] \in Row
                  /\ q.kind = "put" => server'[i] = q.body[i]
                  /\ q.kind = "archive" => server'[i] = [server[i] EXCEPT !.status = "Archive"]
                  /\ q.kind = "positions" => server'[i] = [server[i] EXCEPT !.pos = q.body[i].pos]
                  /\ q.kind \in {"put", "archive", "positions"}
        BY <2>1, <3>1, AppliedIs
      <4>2. \A kinds : q \in Writers(requests, kinds, i) <=> q.kind \in kinds /\ i \in DOMAIN q.body
        BY <1>1 DEF Writers
      <4>3. CASE i \notin DOMAIN q.body
        BY <4>1, <4>2, <4>3
      <4>4. CASE i \in DOMAIN q.body
        <5>1. q.body[i] \in Row /\ server[i] \in Row
          BY <4>1, <4>4 DEF CardTypes, RestTypes, Rows
        <5>2. /\ q.body[i].status = q.body[i]["status"] /\ q.body[i].field = q.body[i]["field"]
              /\ q.body[i].pos = q.body[i]["pos"]
          BY <5>1, PartsOfRow
        <5>3. CASE q.kind = "put"
          BY <4>1, <4>2, <4>4, <5>2, <5>3
        <5>4. CASE q.kind = "archive"
          <6>1. q.body[i].status = "Archive"
            BY <1>1, <3>2, <4>4, <5>4 DEF InShape
          <6>2. server'[i].status = "Archive" /\ server'[i].pos = server[i].pos
                   /\ server'[i].field = server[i].field
            BY <4>1, <4>4, <5>1, <5>4 DEF Row
          <6> QED
            BY <4>2, <4>4, <5>2, <5>4, <6>1, <6>2
        <5>5. CASE q.kind = "positions"
          <6>1. /\ server'[i].pos = q.body[i].pos /\ server'[i].status = server[i].status
                /\ server'[i].field = server[i].field
            BY <4>1, <4>4, <5>1, <5>5 DEF Row
          <6> QED
            BY <4>2, <4>4, <5>2, <5>5, <6>1
        <5> QED
          BY <4>1, <4>4, <5>3, <5>4, <5>5
      <4> QED
        BY <4>3, <4>4
    <3>4. /\ r.n = q.n /\ r.kind = q.kind /\ DOMAIN r.body = DOMAIN q.body
          /\ \A i \in DOMAIN r.body : r.body[i] = server'[i]
          /\ q.pc = "sent" /\ \A p \in requests : p.pc = "sent" => ~(p.sent < q.sent)
      BY <1>1, <1>2, <1>4, <1>5, <1>6
    <3> HIDE DEF pc
    <3> QED
      BY <1>6, <3>1, <3>3, <3>4, SettledServed
  <2>2. CASE ~Accepts(q)
    <3>1. server' = server /\ r.pc = "failed"
      BY <1>1, <1>4, <2>2
    <3> QED
      BY <1>1, <1>2, <1>4, <1>6, <3>1, SettledFailing
  <2> QED
    BY <2>1, <2>2
<1>7. r.pc # "sent"
  BY <1>3, <1>4
<1> HIDE DEF pc
<1> QED
  BY <1>1, <1>4, <1>5, <1>6, <1>7, AnsweredAgreed

LEMMA ServeInVainAgreed ==
    ASSUME CardTypes, Agreed, NEW q \in requests, NEW executed \in BOOLEAN, ServeInVain(q, executed)
    PROVE  Agreed'
<1>1. /\ q.pc = "sent"
      /\ server' = (IF executed THEN Applied(q) ELSE server)
      /\ AnswerTo(q, "failed", q.body)
      /\ excused' = (excused \/ (executed /\ \E o \in ops : o.n = q.n
            /\ o.kind \in {"toggle", "lane"}))
      /\ UNCHANGED <<heap, drawn, ops, read>>
  BY DEF ServeInVain
<1>2. q.body \in Bodies
  BY DEF CardTypes, SaveTypes, CardRequest
<1>3. PICK r : /\ r.n = q.n /\ r.kind = q.kind /\ r.pc = "failed" /\ r.body = q.body
               /\ requests' = (requests \ {q}) \cup (IF \E o \in ops : o.n = q.n THEN {r} ELSE {})
  BY <1>1, <1>2, AnswerToIs
<1>4. ASSUME ~excused', Settled(ops, requests, local, server)
      PROVE  Settled(ops, (requests \ {q}) \cup {r}, local, server')
  <2>1. server' = server \/ \A o \in ops : o.n = q.n => o.kind \notin {"toggle", "lane"}
    BY <1>1, <1>4
  <2> QED
    BY <1>1, <1>3, <1>4, <2>1, SettledFailing
<1> QED
  BY <1>1, <1>3, <1>4, AnsweredAgreed

\* While a gesture waits, nothing is read.
LEMMA CalmWithOp ==
    ASSUME Agreed, ~excused, NEW o \in ops
    PROVE  InShape(ops, requests) /\ read.pc = "none" /\ Calm
              /\ Settled(ops, requests, local, server)
BY DEF Agreed, Reading, Calm

LEMMA SavePositionsAgreed ==
    ASSUME CardTypes, Agreed, NEW o \in ops, SavePositions(o)
    PROVE  Agreed'
<1> SUFFICES ASSUME ~excused'
             PROVE  (InShape(ops, requests) /\ read.pc = "none" /\ Calm)'
  BY DEF Agreed
<1> DEFINE R == requests
           S == requests \ OfOp(o)
           new == Positions(o.n, o.changes, local)
<1>1. /\ o \in CardOp /\ o.n \in Nat /\ o.changes \in Seq(Change)
      /\ requests' = S \cup Positions(o.n, o.changes, heap[o.epoch])
      /\ o.kind = "order" /\ \A q \in OfOp(o) : q.kind = "put" /\ q.pc = "saved"
      /\ UNCHANGED <<heap, shown, drawn, drag, ops, read, server, gestures, failures, excused>>
  BY SavePositionsIs
<1>2. InShape(ops, R) /\ read.pc = "none" /\ Calm /\ Settled(ops, R, local, server)
  BY <1>1, CalmWithOp
<1>3. heap[o.epoch] = local /\ requests' = S \cup new
  BY <1>1, <1>2 DEF Calm, local
<1>4. local \in Rows /\ R \in SUBSET CardRequest /\ IsFiniteSet(R)
  BY LocalIs DEF CardTypes, SaveTypes
<1>5. /\ \A q \in new :
            /\ Fresh(q, o.n)
            /\ \A i \in DOMAIN q.body : q.body[i] = local[i]
            /\ \A k \in DOMAIN o.changes : ~StatusChanged(o.changes[k], local) =>
                  o.changes[k].issue \in DOMAIN q.body
            /\ q.kind = "positions"
      /\ new # {} /\ \A p, q \in new : p = q
  <2>1. \A k, l \in DOMAIN o.changes : o.changes[k].issue = o.changes[l].issue => k = l
    BY <1>2 DEF InShape
  <2>2. new # {}
    BY <1>3, SavePositionsIs
  <2> HIDE DEF new
  <2>3. /\ \A q \in new :
            /\ Fresh(q, o.n)
            /\ \A i \in DOMAIN q.body : q.body[i] = local[i]
            /\ \A k \in DOMAIN o.changes : ~StatusChanged(o.changes[k], local) =>
                  o.changes[k].issue \in DOMAIN q.body
            /\ (\A k, l \in DOMAIN o.changes : o.changes[k].issue = o.changes[l].issue => k = l)
                  => q.kind = "positions"
        /\ \A p, q \in new : p = q
    BY <1>1, <1>4, PositionsAre DEF new
  <2> QED
    BY <2>1, <2>2, <2>3
<1>6. \A q \in new : q \in CardRequest /\ q.n = o.n /\ q.pc = "sent" /\ \A p \in R :
         p.pc = "sent" => p.sent < q.sent
  BY <1>4, <1>5, NextSentIsLast DEF Fresh
<1> HIDE DEF new
<1>7. S \subseteq R /\ (\A q \in R : q.pc # "saved" => q \in S) /\ \A q \in R : q.n # o.n => q \in S
  BY <1>1 DEF OfOp
<1> HIDE DEF S
<1>8. \A p \in ops : p.kind # "lane" /\ (p.kind = "toggle" => ~p.alone)
  <2> SUFFICES ASSUME NEW p \in ops, p.kind = "lane" \/ (p.kind = "toggle" /\ p.alone)
               PROVE  FALSE
    OBVIOUS
  <2>1. ops = {p}
    BY <1>2 DEF Settled, InShape
  <2> QED
    BY <1>1, <2>1
<1>9. ASSUME \A q \in S \cup new : q.pc # "failed"
      PROVE  PageAgrees(ops, S \cup new, local, server)
  <2>1. PageAgrees(ops, R, local, server)
    <3>1. \A q \in R : q.pc # "failed"
      BY <1>7, <1>9
    <3> QED
      BY <1>2, <1>8, <3>1 DEF Settled
  <2>2. \A kinds, i : Writers(S, kinds, i) = Writers(R, kinds, i)
    BY <1>7 DEF Writers
  <2>3. S \in SUBSET CardRequest /\ new \in SUBSET CardRequest
        /\ \A q \in new : \A p \in S : p.pc = "sent" => p.sent < q.sent
    BY <1>4, <1>6, <1>7
  <2>4. \A i : Writers(new, {"put", "archive"}, i) = {} /\ Writers(new, {"put"}, i) = {}
    BY <1>5 DEF Writers
  <2>5. ASSUME NEW i \in Issues
        PROVE  StatusAgrees(S \cup new, local, server, i)
    <3>1. Promised(S, {"put", "archive"}, "status", i, local[i].status, server[i].status)
      BY <2>1, <2>2, PromiseStays DEF PageAgrees, StatusAgrees
    <3>2. Promised(S \cup new, {"put", "archive"}, "status", i, local[i].status, server[i].status)
      BY <2>3, <2>4, <3>1, PromiseMade
    <3> QED
      BY <3>2 DEF StatusAgrees
  <2>6. ASSUME NEW i \in Issues
        PROVE  FieldAgrees(S \cup new, local, server, i)
    <3>1. Promised(S, {"put"}, "field", i, local[i].field, server[i].field)
      BY <2>1, <2>2, PromiseStays DEF PageAgrees, FieldAgrees
    <3>2. Promised(S \cup new, {"put"}, "field", i, local[i].field, server[i].field)
      BY <2>3, <2>4, <3>1, PromiseMade
    <3> QED
      BY <3>2 DEF FieldAgrees
  <2>7. ASSUME NEW i \in Issues,
               Writers(new, {"put", "positions"}, i) # {} \/ PosAgrees(R, local, server, i)
        PROVE  PosAgrees(S \cup new, local, server, i)
    <3>1. \A q \in Writers(new, {"put", "positions"}, i) : q.body[i]["pos"] = local[i].pos
      <4>1. local[i].pos = local[i]["pos"]
        BY <1>4, PartsOfRow DEF Rows
      <4>2. \A q \in Writers(new, {"put", "positions"}, i) : q.body[i] = local[i]
        BY <1>5 DEF Writers
      <4> QED
        BY <4>1, <4>2
    <3>2. Writers(new, {"put", "positions"}, i) = {}
             => Promised(S, {"put", "positions"}, "pos", i, local[i].pos, server[i].pos)
      BY <2>2, <2>7, PromiseStays DEF PosAgrees
    <3>3. Promised(S \cup new, {"put", "positions"}, "pos", i, local[i].pos, server[i].pos)
      BY <2>3, <3>1, <3>2, PromiseMade
    <3> QED
      BY <3>3 DEF PosAgrees
  <2>8. ASSUME NEW i \in Issues
        PROVE  PosOwed(ops, S \cup new, local, server, i)
    <3>1. CASE local[i].status = "Archive"
      BY <3>1 DEF PosOwed
    <3>2. CASE PosAgrees(R, local, server, i)
      BY <2>7, <3>2 DEF PosOwed
    <3>3. ASSUME NEW p \in ops, Owes(p, R, local, i)
          PROVE  PosOwed(ops, S \cup new, local, server, i)
      <4>1. CASE p.n = o.n
        <5>1. p = o
          BY <4>1 DEF CardTypes, SaveTypes
        <5>2. PICK q \in new : TRUE
          BY <1>5
        <5>3. i \in DOMAIN q.body
          BY <1>5, <3>3, <5>1 DEF Owes
        <5>4. q \in Writers(new, {"put", "positions"}, i)
          BY <1>5, <1>6, <5>3 DEF Writers
        <5> QED
          BY <2>7, <5>4 DEF PosOwed
      <4>2. CASE p.n # o.n
        <5>1. PICK q \in R : q.n = p.n /\ q.kind = "put"
          BY <3>3 DEF Owes
        <5>2. q \in S \cup new
          BY <1>7, <4>2, <5>1
        <5>3. Owes(p, S \cup new, local, i)
          BY <3>3, <5>1, <5>2 DEF Owes
        <5> QED
          BY <5>3 DEF PosOwed
      <4> QED
        BY <4>1, <4>2
    <3> QED
      BY <2>1, <3>1, <3>2, <3>3 DEF PageAgrees, PosOwed
  <2> QED
    BY <2>5, <2>6, <2>8 DEF PageAgrees
<1>10. Settled(ops, S \cup new, local, server)
  <2>1. \A q \in S \cup new : \E p \in ops : p.n = q.n
    BY <1>2, <1>6, <1>7 DEF Settled
  <2> QED
    BY <1>8, <1>9, <2>1 DEF Settled
<1>11. InShape(ops, S \cup new)
  BY <1>2, <1>5, <1>7 DEF InShape
<1>12. local' = local /\ ops' = ops /\ server' = server /\ read' = read /\ requests' = S \cup new
       /\ UNCHANGED <<drawn, heap>>
  BY <1>1, <1>3 DEF local
<1>13. Settled(ops, requests, local, server)' /\ InShape(ops, requests)'
  BY <1>10, <1>11, <1>12
<1> QED
  BY <1>2, <1>12, <1>13 DEF Calm

LEMMA SavedAgreed ==
    ASSUME CardTypes, Agreed, NEW o \in ops, Saved(o)
    PROVE  Agreed'
<1> SUFFICES ASSUME ~excused'
             PROVE  (InShape(ops, requests) /\ read.pc = "none" /\ Calm)'
  BY DEF Agreed
<1> DEFINE S == requests \ OfOp(o)
           P == ops \ {o}
<1>1. /\ \A q \in OfOp(o) : q.pc = "saved"
      /\ o.kind = "order" /\ (\E q \in OfOp(o) : q.kind = "put") =>
            Positions(o.n, o.changes, heap[o.epoch]) = {}
      /\ heap' = Merged(o) /\ Redraw(heap'[Len(heap)], Len(heap))
      /\ ops' = P /\ requests' = S
      /\ UNCHANGED <<read, server, gestures, failures, excused>>
  BY DEF Saved
<1>2. InShape(ops, requests) /\ read.pc = "none" /\ Calm /\ Settled(ops, requests, local, server)
  BY <1>1, CalmWithOp
<1>3. o.epoch = Len(heap) /\ heap[o.epoch] = local /\ Len(heap') = Len(heap)
         /\ drawn'.epoch = Len(heap')
  BY <1>1, <1>2, MergedIs DEF Calm, local, Redraw
<1>4. /\ S \subseteq requests /\ (\A q \in S : q.n # o.n)
      /\ (\A q \in requests : q.pc # "saved" => q \in S) /\ \A q \in requests : q.n # o.n => q \in S
  BY <1>1 DEF OfOp
<1>5. \A p \in P : p \in ops /\ p.n # o.n /\ ~p.alone /\ p.kind # "lane"
  <2> SUFFICES ASSUME NEW p \in P
               PROVE  p \in ops /\ p.n # o.n /\ ~p.alone /\ p.kind # "lane"
    OBVIOUS
  <2>1. p \in ops /\ o \in ops /\ p # o
    OBVIOUS
  <2>2. p.n # o.n
    BY <2>1 DEF CardTypes, SaveTypes
  <2>3. ops # {p}
    BY <2>1
  <2> QED
    BY <1>2, <2>1, <2>2, <2>3 DEF Settled, InShape
<1>6. InShape(P, S)
  <2>1. P \subseteq ops
    OBVIOUS
  <2> HIDE DEF P, S
  <2> QED
    BY <1>2, <1>4, <1>5, <2>1 DEF InShape
<1>7. Settled(P, S, local', server)
  <2>1. CASE o.kind = "lane"
    <3>1. ops = {o} /\ LaneAgrees(o, requests, local, server)
      BY <1>2, <2>1 DEF Settled
    <3>2. PICK q \in requests, i \in Issues :
             /\ requests = {q} /\ q.n = o.n /\ DOMAIN q.body = {i}
             /\ Agree(IF q.pc = "saved" THEN [local EXCEPT ![i] = q.body[i]] ELSE local, server)
      BY <3>1 DEF LaneAgrees
    <3>3. OfOp(o) = {q} /\ q.pc = "saved"
      BY <1>1, <3>2 DEF OfOp
    <3>4. PICK r \in OfOp(o), j \in Issues :
             /\ DOMAIN r.body = {j} /\ r.body[j] \in Row
             /\ heap' = [heap EXCEPT ![o.epoch] = [heap[o.epoch] EXCEPT ![j] = r.body[j]]]
      <4>1. heap' = Merged(o)
        BY <1>1
      <4>2. \E r \in OfOp(o), j \in Issues :
               /\ DOMAIN r.body = {j} /\ r.body[j] \in Row
               /\ Merged(o) = [heap EXCEPT ![o.epoch] = [heap[o.epoch] EXCEPT ![j] = r.body[j]]]
        <5> HIDE DEF S, P
        <5>1. o.kind = "lane" => \E r \in OfOp(o), j \in Issues :
                 /\ DOMAIN r.body = {j} /\ r.body[j] \in Row /\ j = o.changes[1].issue
                 /\ Merged(o) = [heap EXCEPT ![o.epoch] = [heap[o.epoch] EXCEPT ![j] = r.body[j]]]
          BY MergedIs
        <5> QED
          BY <2>1, <5>1
      <4> QED
        BY <4>1, <4>2
    <3>5. r = q /\ j = i
      BY <3>2, <3>3, <3>4
    <3>6. local' = [local EXCEPT ![i] = q.body[i]]
      <4>1. [local EXCEPT ![i] = q.body[i]] \in Rows /\ Len(heap) \in 1..Len(heap)
        BY <3>4, <3>5, LocalIs DEF Rows
      <4>2. heap' = [heap EXCEPT ![Len(heap)] = [local EXCEPT ![i] = q.body[i]]]
        BY <1>3, <3>4, <3>5
      <4>3. heap'[Len(heap)] = [local EXCEPT ![i] = q.body[i]]
        BY <4>1, <4>2, HeapIs DEF CardTypes, PageTypes
      <4> QED
        BY <1>3, <4>3 DEF local
    <3>7. Agree(local', server)
      BY <3>2, <3>3, <3>6
    <3>8. P = {} /\ S = {}
      BY <3>1, <3>2, <3>3
    <3> QED
      BY <3>7, <3>8, QuietSettled
  <2>2. CASE o.kind # "lane"
    <3>1. heap' = heap /\ local' = local
      BY <1>1, <2>2, MergedIs DEF local
    <3>2. \A p \in ops : p.kind # "lane"
      BY <1>5, <2>2
    <3>3. \A q \in S : \E p \in P : p.n = q.n
      <4>1. \A q \in requests : \E p \in ops : p.n = q.n
        BY <1>2 DEF Settled
      <4> QED
        BY <1>4, <4>1
    <3>4. ASSUME \A q \in S : q.pc # "failed"
          PROVE  PageAgrees(P, S, local, server)
      <4>1. \A q \in requests : q.pc # "failed"
        BY <1>4, <3>4
      <4>2. PageAgrees(ops, requests, local, server)
        BY <1>2, <3>2, <4>1 DEF Settled
      <4>3. ASSUME NEW i \in Issues, NEW p \in ops, Owes(p, requests, local, i)
            PROVE  PosOwed(P, S, local, server, i)
        <5>1. PICK q \in requests : q.n = p.n /\ q.kind = "put"
          BY <4>3 DEF Owes
        <5>2. PICK m \in DOMAIN p.changes : ~StatusChanged(p.changes[m], local)
          BY <4>3 DEF Owes
        <5>3. p # o
          <6> SUFFICES ASSUME p = o
                       PROVE  FALSE
            OBVIOUS
          <6>1. o.kind = "order" /\ q \in OfOp(o)
            BY <4>3, <5>1 DEF Owes, OfOp
          <6>2. Positions(o.n, o.changes, local) = {}
            BY <1>1, <1>3, <5>1, <6>1
          <6>3. o.n \in Nat /\ o.changes \in Seq(Change) /\ local \in Rows
            BY LocalIs DEF CardTypes, SaveTypes, CardOp
          <6>4. \A k \in DOMAIN o.changes : StatusChanged(o.changes[k], local)
            BY <6>2, <6>3, PositionsAre DEF CardTypes, SaveTypes
          <6> QED
            BY <5>2, <6>4
        <5>4. p \in P /\ q \in S
          BY <1>4, <1>5, <5>1, <5>3
        <5> HIDE DEF P, S
        <5>5. Owes(p, S, local, i)
          BY <4>3, <5>1, <5>4 DEF Owes
        <5> QED
          BY <5>4, <5>5 DEF PosOwed
      <4>4. P \in SUBSET ops
        OBVIOUS
      <4>5. (\A q \in requests : q.pc = "sent" <=> q \in S /\ q.pc = "sent")
            /\ \A q \in S : q.pc = "sent" => q \in requests
        BY <1>4
      <4> HIDE DEF P, S
      <4> QED
        BY <4>2, <4>3, <4>4, <4>5, AgreesWithoutAnswered
    <3> HIDE DEF P, S
    <3>5. Settled(P, S, local, server)
      BY <1>5, <3>3, <3>4 DEF Settled
    <3> QED
      BY <3>1, <3>5
  <2> QED
    BY <2>1, <2>2
<1>8. Settled(ops, requests, local, server)' /\ InShape(ops, requests)'
  BY <1>1, <1>6, <1>7
<1>9. drawn'.epoch = Len(heap') /\ \A p \in ops' : p.epoch = Len(heap')
  BY <1>1, <1>2, <1>3 DEF Calm
<1> QED
  BY <1>1, <1>2, <1>8, <1>9 DEF Calm

LEMMA FailsAgreed ==
    ASSUME CardTypes, Agreed, NEW o \in ops, Fails(o)
    PROVE  Agreed'
<1> SUFFICES ASSUME ~excused'
             PROVE  (InShape(ops, requests) /\ (read.pc = "none" => Calm)
                       /\ (read.pc # "none" => Reading))'
  BY DEF Agreed
<1>1. /\ \E q \in OfOp(o) : q.pc = "failed"
      /\ ops' = ops \ {o} /\ requests' = {q \in requests : q.n = o.n => q.pc = "sent"}
      /\ read' = (IF ReadsAgain(o.kind) THEN [pc |-> "sent", rows |-> server] ELSE read)
      /\ IF o.kind \in {"plan", "lane"} THEN UNCHANGED <<shown, drawn, drag>>
         ELSE Redraw(heap'[Len(heap)], Len(heap))
      /\ excused' = (excused \/ ~o.alone)
      /\ UNCHANGED <<server, gestures, failures>>
  BY DEF Fails
<1>2. ~excused /\ o.alone
  BY <1>1
<1>3. InShape(ops, requests) /\ read.pc = "none" /\ Calm /\ Settled(ops, requests, local, server)
  BY <1>2, CalmWithOp
<1>4. ops = {o} /\ ops' = {}
  BY <1>1, <1>2, <1>3 DEF InShape
<1>5. \A q \in requests : q.n = o.n
  BY <1>3, <1>4 DEF Settled
<1>6. requests' \subseteq requests /\ \A q \in requests' : q.pc = "sent"
  BY <1>1, <1>5
<1>7. InShape(ops, requests)'
  BY <1>3, <1>4, <1>6 DEF InShape
<1>8. CASE ReadsAgain(o.kind)
  BY <1>1, <1>4, <1>6, <1>7, <1>8 DEF Reading
<1>9. CASE ~ReadsAgain(o.kind)
  <2>1. read'.pc = "none" /\ o \in CardOp /\ o.kind \in {"toggle", "lane"}
    BY <1>1, <1>3, <1>9 DEF ReadsAgain, CardTypes, SaveTypes, CardOp, Kinds
  <2>2. /\ heap' = [heap EXCEPT ![o.epoch] = RolledBack(heap[o.epoch], o.changes, o.kind)]
        /\ RolledBack(heap[o.epoch], o.changes, o.kind) \in Rows /\ Len(heap') = Len(heap)
        /\ o.epoch = Len(heap) /\ heap[o.epoch] = local
    BY <1>3, FailsIs DEF Calm, local
  <2>3. heap'[Len(heap)] = RolledBack(local, o.changes, o.kind)
    BY <2>2, LocalIs, HeapIs DEF CardTypes, PageTypes
  <2>4. Len(o.changes) = 1 /\ local \in Rows /\ o.changes \in Seq(Change) /\ o.kind \in Kinds
           /\ o.changes[1] \in Change
    <3>1. Len(o.changes) = 1 /\ local \in Rows /\ o.changes \in Seq(Change) /\ o.kind \in Kinds
      BY <2>1, LocalIs DEF CardTypes, SaveTypes, CardOp
    <3>2. o.changes[1] \in Change
      BY <3>1
    <3> QED
      BY <3>1, <3>2
  <2>5. local' = PutBack(local, o.changes[1], o.kind)
    BY <2>2, <2>3, <2>4, RolledBackOne DEF local
  <2>6. drawn'.epoch = Len(heap')
    BY <1>1, <1>3, <2>2 DEF Calm, Redraw
  <2>7. Agree(local', server) /\ requests' = {}
    <3>1. CASE o.kind = "lane"
      <4>1. PICK q \in requests :
               requests = {q} /\ (q.pc # "saved" => Agree(local, server))
        BY <1>3, <3>1 DEF Settled, LaneAgrees
      <4>2. q.pc = "failed"
        BY <1>1, <4>1 DEF OfOp
      <4>3. local' = local
        BY <2>4, <2>5, <3>1, PutBackTyped
      <4>4. requests' = {}
        BY <1>6, <4>1, <4>2
      <4> QED
        BY <4>1, <4>2, <4>3, <4>4
    <3>2. CASE o.kind = "toggle"
      <4>1. PICK q \in requests :
               /\ requests = {q}
               /\ q.pc # "saved" => Agree(PutBack(local, o.changes[1], "toggle"), server)
        BY <1>2, <1>3, <3>2 DEF Settled, ToggleAgrees
      <4>2. q.pc = "failed"
        BY <1>1, <4>1 DEF OfOp
      <4>3. requests' = {}
        BY <1>6, <4>1, <4>2
      <4> QED
        BY <2>5, <3>2, <4>1, <4>2, <4>3
    <3> QED
      BY <2>1, <3>1, <3>2
  <2>8. Settled({}, {}, local', server)
    BY <2>7, QuietSettled
  <2>9. Settled(ops, requests, local, server)'
    BY <1>1, <1>4, <2>7, <2>8
  <2>10. Calm'
    BY <1>4, <2>6, <2>9 DEF Calm
  <2> QED
    BY <1>7, <2>1, <2>10
<1> QED
  BY <1>8, <1>9

LEMMA RefreshingAgreed ==
    ASSUME CardTypes, Agreed, Refreshing
    PROVE  Agreed'
<1> SUFFICES ASSUME ~excused'
             PROVE  (InShape(ops, requests) /\ (read.pc = "none" => Calm)
                       /\ (read.pc # "none" => Reading))'
  BY DEF Agreed
<1>1. CASE ReadServed
  <2>1. /\ read.pc = "sent" /\ read' = [pc |-> "answered", rows |-> server]
        /\ excused' = (excused \/ \E q \in requests : q.pc = "sent")
        /\ UNCHANGED <<heap, ops, requests, server>>
    BY <1>1 DEF ReadServed
  <2>2. InShape(ops, requests) /\ ops = {} /\ \A q \in requests : q.pc = "sent"
    BY <2>1 DEF Agreed, Reading
  <2>3. requests = {}
    BY <2>1, <2>2
  <2>4. read'.pc = "answered" /\ read'.rows = server
    BY <2>1
  <2> QED
    BY <2>1, <2>2, <2>3, <2>4 DEF Reading, InShape
<1>2. CASE ReadReturns
  <2>1. /\ read.pc = "answered" /\ heap' = Append(heap, read.rows)
              /\ read' = [read EXCEPT !.pc = "placed"]
        /\ UNCHANGED <<ops, requests, server, excused>>
    BY <1>2 DEF ReadReturns
  <2>2. InShape(ops, requests) /\ ops = {} /\ requests = {} /\ read.rows = server
    BY <2>1 DEF Agreed, Reading
  <2>3. local' = server
    <3>1. read.rows \in Rows
      BY DEF CardTypes, RestTypes
    <3> QED
      BY <2>1, <2>2, <3>1, HeapIs DEF CardTypes, PageTypes, local
  <2>4. read'.pc = "placed" /\ read'.rows = server
    BY <2>1, <2>2 DEF CardTypes, RestTypes
  <2> QED
    BY <2>1, <2>2, <2>3, <2>4 DEF Reading, InShape
<1>3. CASE RefreshEnds
  <2>1. /\ read.pc = "placed" /\ read' = [read EXCEPT !.pc = "none"] /\ Redraw(local, Len(heap))
        /\ UNCHANGED <<heap, ops, requests, server, excused>>
    BY <1>3 DEF RefreshEnds
  <2>2. InShape(ops, requests) /\ ops = {} /\ requests = {} /\ local = server
    BY <2>1 DEF Agreed, Reading
  <2>3. read'.pc = "none" /\ drawn'.epoch = Len(heap)
    BY <2>1 DEF CardTypes, RestTypes, Redraw
  <2>4. Settled({}, {}, local, server)
    BY <2>2, QuietSettled DEF Agree
  <2>5. local' = local
    BY <2>1 DEF local
  <2>6. Settled(ops, requests, local, server)'
    BY <2>1, <2>2, <2>4, <2>5
  <2>7. ops' = {} /\ requests' = {} /\ heap' = heap
    BY <2>1, <2>2
  <2>8. Calm'
    BY <2>3, <2>6, <2>7 DEF Calm
  <2> QED
    BY <2>3, <2>7, <2>8, QuietSettled
<1> QED
  BY <1>1, <1>2, <1>3 DEF Refreshing

LEMMA RefreshAgreed ==
    ASSUME CardTypes, Agreed, Refresh
    PROVE  Agreed'
<1> SUFFICES ASSUME ~excused'
             PROVE  (InShape(ops, requests) /\ read.pc = "sent" /\ Reading)'
  BY DEF Agreed
<1>1. /\ read' = [pc |-> "sent", rows |-> server]
      /\ excused' = (excused \/ ops # {})
      /\ UNCHANGED <<heap, ops, requests, server>>
  BY DEF Refresh
<1>2. ~excused /\ ops = {} /\ read'.pc = "sent"
  BY <1>1
<1>3. InShape(ops, requests)
  BY <1>2 DEF Agreed
<1>4. \A q \in requests : q.pc = "sent"
  <2>1. CASE read.pc = "none"
    BY <1>2, <2>1 DEF Agreed, Calm, Settled
  <2>2. CASE read.pc # "none"
    BY <1>2, <2>2 DEF Agreed, Reading
  <2> QED
    BY <2>1, <2>2
<1> QED
  BY <1>1, <1>2, <1>3, <1>4 DEF Reading, InShape

\* A step that touches only the lists.
LEMMA AgreedStays ==
    ASSUME Agreed, UNCHANGED <<heap, ops, requests, read, server>>, drawn'.epoch = drawn.epoch,
           ~excused' => ~excused
    PROVE  Agreed'
<1>1. local' = local
  BY DEF local
<1> QED
  BY <1>1 DEF Agreed, Calm, Reading, InShape

\* New requests write what is on the page now, and a position that changes is written or owed.
Carries(kind, changes, rows, then, new) ==
    \A i \in Issues :
        /\ \A q \in Writers(new, {"put", "archive"}, i) : q.body[i]["status"] = then[i].status
        /\ Writers(new, {"put", "archive"}, i) = {} => then[i].status = rows[i].status
        /\ \A q \in Writers(new, {"put"}, i) : q.body[i]["field"] = then[i].field
        /\ Writers(new, {"put"}, i) = {} => then[i].field = rows[i].field
        /\ \A q \in Writers(new, {"put", "positions"}, i) : q.body[i]["pos"] = then[i].pos
        /\ Writers(new, {"put", "positions"}, i) = {} =>
              \/ then[i].status = "Archive"
              \/ then[i].pos = rows[i].pos /\ then[i].status = rows[i].status
              \/ /\ kind = "order" /\ \E q \in new : q.kind = "put"
                 /\ \E m \in DOMAIN changes : changes[m].issue = i
                       /\ ~StatusChanged(changes[m], then)

LEMMA AgreesAdded ==
    ASSUME NEW O, NEW P, NEW R \in SUBSET CardRequest, NEW new \in SUBSET CardRequest,
           \A q \in new : \A p \in R : p.pc = "sent" => p.sent < q.sent,
           NEW rows, NEW there, NEW then, NEW kind, NEW changes,
           \A o \in O : \E p \in P : p.n = o.n /\ p.kind = o.kind /\ p.changes = o.changes,
           NEW o1 \in P, \A q \in new : q.n = o1.n, o1.kind = kind, o1.changes = changes,
           Carries(kind, changes, rows, then, new),
           PageAgrees(O, R, rows, there)
    PROVE  PageAgrees(P, R \cup new, then, there)
<1>1. ASSUME NEW i \in Issues
      PROVE  StatusAgrees(R \cup new, then, there, i)
  <2>1. Promised(R, {"put", "archive"}, "status", i, rows[i].status, there[i].status)
    BY DEF PageAgrees, StatusAgrees
  <2>2. /\ \A q \in Writers(new, {"put", "archive"}, i) : q.body[i]["status"] = then[i].status
        /\ Writers(new, {"put", "archive"}, i) = {} => then[i].status = rows[i].status
    BY DEF Carries
  <2>3. Promised(R \cup new, {"put", "archive"}, "status", i, then[i].status, there[i].status)
    BY <2>1, <2>2, PromiseMade
  <2> QED
    BY <2>3 DEF StatusAgrees
<1>2. ASSUME NEW i \in Issues
      PROVE  FieldAgrees(R \cup new, then, there, i)
  <2>1. Promised(R, {"put"}, "field", i, rows[i].field, there[i].field)
    BY DEF PageAgrees, FieldAgrees
  <2>2. /\ \A q \in Writers(new, {"put"}, i) : q.body[i]["field"] = then[i].field
        /\ Writers(new, {"put"}, i) = {} => then[i].field = rows[i].field
    BY DEF Carries
  <2>3. Promised(R \cup new, {"put"}, "field", i, then[i].field, there[i].field)
    BY <2>1, <2>2, PromiseMade
  <2> QED
    BY <2>3 DEF FieldAgrees
<1>3. ASSUME NEW i \in Issues,
             \/ Writers(new, {"put", "positions"}, i) # {}
             \/ PosAgrees(R, rows, there, i) /\ then[i].pos = rows[i].pos
      PROVE  PosAgrees(R \cup new, then, there, i)
  <2>1. \A q \in Writers(new, {"put", "positions"}, i) : q.body[i]["pos"] = then[i].pos
    BY DEF Carries
  <2>2. Writers(new, {"put", "positions"}, i) = {}
           => Promised(R, {"put", "positions"}, "pos", i, then[i].pos, there[i].pos)
    BY <1>3 DEF PosAgrees
  <2>3. Promised(R \cup new, {"put", "positions"}, "pos", i, then[i].pos, there[i].pos)
    BY <2>1, <2>2, PromiseMade
  <2> QED
    BY <2>3 DEF PosAgrees
<1>4. ASSUME NEW i \in Issues
      PROVE  PosOwed(P, R \cup new, then, there, i)
  <2>1. CASE Writers(new, {"put", "positions"}, i) # {}
    BY <1>3, <2>1 DEF PosOwed
  <2>2. CASE then[i].status = "Archive"
    BY <2>2 DEF PosOwed
  <2>3. ASSUME then[i].pos = rows[i].pos, then[i].status = rows[i].status
        PROVE  PosOwed(P, R \cup new, then, there, i)
    <3>1. CASE rows[i].status = "Archive"
      BY <2>3, <3>1 DEF PosOwed
    <3>2. CASE PosAgrees(R, rows, there, i)
      BY <1>3, <2>3, <3>2 DEF PosOwed
    <3>3. ASSUME NEW o \in O, Owes(o, R, rows, i)
          PROVE  PosOwed(P, R \cup new, then, there, i)
      <4>1. PICK p \in P : p.n = o.n /\ p.kind = o.kind /\ p.changes = o.changes
        OBVIOUS
      <4>2. PICK m \in DOMAIN o.changes : o.changes[m].issue = i
               /\ ~StatusChanged(o.changes[m], rows)
        BY <3>3 DEF Owes
      <4>3. ~StatusChanged(p.changes[m], then) /\ m \in DOMAIN p.changes /\ p.changes[m].issue = i
        BY <2>3, <4>1, <4>2 DEF StatusChanged
      <4>4. Owes(p, R \cup new, then, i)
        BY <3>3, <4>1, <4>3 DEF Owes
      <4> QED
        BY <4>4 DEF PosOwed
    <3> QED
      BY <3>1, <3>2, <3>3 DEF PageAgrees, PosOwed
  <2>4. ASSUME kind = "order", NEW q \in new, q.kind = "put",
               NEW m \in DOMAIN changes, changes[m].issue = i, ~StatusChanged(changes[m], then)
        PROVE  PosOwed(P, R \cup new, then, there, i)
    <3>1. Owes(o1, R \cup new, then, i)
      BY <2>4 DEF Owes
    <3> QED
      BY <3>1 DEF PosOwed
  <2> QED
    BY <2>1, <2>2, <2>3, <2>4 DEF Carries
<1> QED
  BY <1>1, <1>2, <1>4 DEF PageAgrees

LEMMA WithOpIs ==
    ASSUME CardTypes, NEW n, NEW kind, NEW epoch, NEW changes,
           ops' = WithOp(n, kind, epoch, changes)
    PROVE  \E o1 \in ops' :
              /\ o1.n = n /\ o1.kind = kind /\ o1.epoch = epoch /\ o1.changes = changes
              /\ o1.alone <=> ops = {}
              /\ ops = {} => ops' = {o1}
              /\ \A o \in ops' : o = o1 \/ \E p \in ops :
                    o.n = p.n /\ o.kind = p.kind /\ o.epoch = p.epoch /\ o.changes = p.changes
                       /\ ~o.alone
              /\ \A p \in ops : \E o \in ops' : o.n = p.n /\ o.kind = p.kind
                    /\ o.changes = p.changes
<1> DEFINE o1 == [n |-> n, kind |-> kind, epoch |-> epoch, changes |-> changes, alone |-> ops = {}]
<1>1. ops' = {[o EXCEPT !.alone = FALSE] : o \in ops} \cup {o1}
  BY DEF WithOp
<1>2. o1.n = n /\ o1.kind = kind /\ o1.epoch = epoch /\ o1.changes = changes
         /\ (o1.alone <=> ops = {})
  OBVIOUS
<1> HIDE DEF o1
<1>3. \A p \in ops : /\ [p EXCEPT !.alone = FALSE].n = p.n
                           /\ [p EXCEPT !.alone = FALSE].kind = p.kind
                     /\ [p EXCEPT !.alone = FALSE].epoch = p.epoch
                     /\ [p EXCEPT !.alone = FALSE].changes = p.changes
                     /\ ~[p EXCEPT !.alone = FALSE].alone
  BY OpUnalone DEF CardTypes, SaveTypes
<1>4. o1 \in ops' /\ (ops = {} => ops' = {o1})
  BY <1>1
<1>5. \A o \in ops' : o = o1 \/ \E p \in ops :
         o.n = p.n /\ o.kind = p.kind /\ o.epoch = p.epoch /\ o.changes = p.changes /\ ~o.alone
  BY <1>1, <1>3
<1>6. ASSUME NEW p \in ops
      PROVE  \E o \in ops' : o.n = p.n /\ o.kind = p.kind /\ o.changes = p.changes
  <2>1. [p EXCEPT !.alone = FALSE] \in ops'
    BY <1>1
  <2> QED
    BY <1>3, <2>1
<1> QED
  BY <1>2, <1>4, <1>5, <1>6

\* What toggleSection and toggleLane send.
TogglesBack(new, changes, was, rows) ==
    \E q : new = {q} /\ q.kind = "put" /\ PutBack(rows, changes[1], "toggle") = was

OpensLane(new, was, rows) ==
    \E q : \E i \in Issues :
       /\ new = {q} /\ q.kind = "put" /\ DOMAIN q.body = {i}
       /\ rows = was /\ q.body[i] = [rows[i] EXCEPT !.field = TRUE]

LEMMA SavesAgreed ==
    ASSUME CardTypes, Agreed, ~excused, NEW n, NEW kind, ~Excuse(kind), NEW rows, NEW changes,
           NEW new,
           Saves(n, kind, Len(heap), rows, changes, new), UNCHANGED <<drawn, read, server>>,
           \A k, m \in DOMAIN changes : changes[k].issue = changes[m].issue => k = m,
           \A q \in new : /\ q.kind # "doubled"
                          /\ q.kind = "archive" => \A i \in DOMAIN q.body :
                                q.body[i].status = "Archive",
           kind # "lane" => Carries(kind, changes, local, rows, new),
           kind = "toggle" => TogglesBack(new, changes, local, rows),
           kind = "lane" => OpensLane(new, local, rows)
    PROVE  Agreed'
<1>1. read.pc = "none" /\ (\A o \in ops : o.kind # "lane") /\ (kind = "lane" => ops = {})
  BY DEF Excuse
<1>2. Calm /\ InShape(ops, requests) /\ Settled(ops, requests, local, server)
  BY <1>1 DEF Agreed, Calm
<1>3. /\ gestures' = n /\ heap' = [heap EXCEPT ![Len(heap)] = rows] /\ rows \in Rows
      /\ ops' = WithOp(n, kind, Len(heap), changes) /\ requests' = requests \cup new
      /\ \A q \in new : q \in CardRequest /\ q.n = n /\ q.pc = "sent" /\ q.sent = NextSent
  BY DEF Saves, Fresh
<1>4. PICK o1 \in ops' :
         /\ o1.n = n /\ o1.kind = kind /\ o1.epoch = Len(heap) /\ o1.changes = changes
         /\ o1.alone <=> ops = {}
         /\ ops = {} => ops' = {o1}
         /\ \A o \in ops' : o = o1 \/ \E p \in ops :
               o.n = p.n /\ o.kind = p.kind /\ o.epoch = p.epoch /\ o.changes = p.changes
                  /\ ~o.alone
         /\ \A p \in ops : \E o \in ops' : o.n = p.n /\ o.kind = p.kind /\ o.changes = p.changes
  BY <1>3, WithOpIs
<1>5. Len(heap') = Len(heap) /\ local' = rows
  BY <1>3, LocalIs, HeapIs DEF CardTypes, PageTypes, local
<1>6. requests \in SUBSET CardRequest /\ \A q \in new : \A p \in requests : p.pc = "sent" =>
         p.sent < q.sent
  BY <1>3, NextSentIsLast DEF CardTypes, SaveTypes
<1>7. InShape(ops', requests')
  <2>1. \A o \in ops' : o.alone => ops' = {o}
    BY <1>4
  <2>2. \A o \in ops' : \A k, m \in DOMAIN o.changes : o.changes[k].issue = o.changes[m].issue =>
           k = m
    <3> SUFFICES ASSUME NEW o \in ops'
                 PROVE  \A k, m \in DOMAIN o.changes : o.changes[k].issue = o.changes[m].issue =>
                           k = m
      OBVIOUS
    <3>1. CASE o = o1
      BY <1>4, <3>1
    <3>2. CASE o # o1
      <4>1. PICK p \in ops : o.changes = p.changes
        BY <1>4, <3>2
      <4> QED
        BY <1>2, <4>1 DEF InShape
    <3> QED
      BY <3>1, <3>2
  <2>3. \A q \in requests' :
           /\ q.kind # "doubled"
           /\ q.kind = "archive" /\ q.pc = "sent" => \A i \in DOMAIN q.body :
                 q.body[i].status = "Archive"
    BY <1>2, <1>3 DEF InShape
  <2> QED
    BY <2>1, <2>2, <2>3 DEF InShape
<1>8. \A q \in requests' : \E o \in ops' : o.n = q.n
  <2>1. \A q \in requests : \E o \in ops : o.n = q.n
    BY <1>2 DEF Settled
  <2> QED
    BY <1>3, <1>4, <2>1
<1>9. ASSUME \A o \in ops' : o.kind # "lane", \A q \in requests' : q.pc # "failed"
      PROVE  PageAgrees(ops', requests', rows, server)
  <2>1. PageAgrees(ops, requests, local, server)
    BY <1>1, <1>2, <1>3, <1>9 DEF Settled
  <2>2. kind # "lane"
    BY <1>4, <1>9
  <2>3. \A p \in ops : \E o \in ops' : o.n = p.n /\ o.kind = p.kind /\ o.changes = p.changes
    BY <1>4
  <2>4. new \in SUBSET CardRequest /\ \A q \in new : q.n = o1.n
    BY <1>3, <1>4
  <2>5. PageAgrees(ops', requests \cup new, rows, server)
    BY <1>4, <1>6, <2>1, <2>2, <2>3, <2>4, AgreesAdded
  <2> QED
    BY <1>3, <2>5
<1>10. ops = {} => requests' = new /\ Agree(local, server)
  BY <1>2, <1>3, SettledQuiet
<1>11. ASSUME NEW o \in ops', o.kind = "lane"
       PROVE  ops' = {o} /\ LaneAgrees(o, requests', rows, server)
  <2>1. o = o1 /\ kind = "lane"
    BY <1>1, <1>4, <1>11
  <2>2. ops' = {o} /\ requests' = new /\ Agree(local, server)
    BY <1>1, <1>4, <1>10, <2>1
  <2>3. PICK q, i : /\ i \in Issues /\ new = {q} /\ q.kind = "put" /\ DOMAIN q.body = {i}
                    /\ rows = local /\ q.body[i] = [rows[i] EXCEPT !.field = TRUE]
    BY <2>1 DEF OpensLane
  <2>4. q.n = o.n /\ q.pc = "sent"
    BY <1>3, <1>4, <2>1, <2>3
  <2>5. q \in requests' /\ requests' = {q} /\ Agree(rows, server)
    BY <2>2, <2>3
  <2>6. LaneAgrees(o, requests', rows, server)
    BY <2>3, <2>4, <2>5 DEF LaneAgrees
  <2> QED
    BY <2>2, <2>6
<1>12. ASSUME NEW o \in ops', o.kind = "toggle", o.alone
       PROVE  ToggleAgrees(o, requests', rows, server)
  <2>1. o = o1 /\ kind = "toggle" /\ ops = {}
    BY <1>4, <1>12
  <2>2. PICK q : new = {q} /\ q.kind = "put" /\ PutBack(rows, changes[1], "toggle") = local
    BY <2>1 DEF TogglesBack
  <2>3. q \in requests' /\ requests' = {q} /\ q.n = o.n /\ o.changes = changes
    BY <1>3, <1>4, <1>10, <2>1, <2>2
  <2>4. Agree(PutBack(rows, o.changes[1], "toggle"), server)
    BY <1>10, <2>1, <2>2, <2>3
  <2> QED
    BY <2>2, <2>3, <2>4 DEF ToggleAgrees
<1>13. Settled(ops', requests', rows, server)
  BY <1>8, <1>9, <1>11, <1>12 DEF Settled
<1>14. \A o \in ops' : o.epoch = Len(heap')
  <2>1. \A p \in ops : p.epoch = Len(heap)
    BY <1>2 DEF Calm
  <2> QED
    BY <1>4, <1>5, <2>1
<1>15. Calm'
  <2>1. Settled(ops, requests, local, server)'
    BY <1>5, <1>13
  <2> QED
    BY <1>2, <1>5, <1>14, <2>1 DEF Calm
<1>16. InShape(ops, requests)' /\ read'.pc = "none"
  BY <1>1, <1>7
<1> QED
  BY <1>15, <1>16 DEF Agreed

\* A reorder.
LEMMA SaveOrderAgreed ==
    ASSUME CardTypes, Agreed, ~excused, ~Excuse("order"), UNCHANGED <<drawn, read, server>>,
           NEW places \in Seq(AnyPlace), OncePlaced(places),
              SaveOrder(Len(heap), Reordered(local, places))
    PROVE  Agreed'
<1> DEFINE update == Reordered(local, places)
           rows == update.rows
           changes == update.changes
           n == gestures + 1
           new == FirstOf(n, update)
<1>1. local \in Rows /\ Len(heap) \in 1..Len(heap)
  BY LocalIs
<1>2. update \in Update /\ MovedUpTo(Len(places), local, places, update)
         /\ SaveOrder(Len(heap), update)
  BY <1>1, ReorderedTyped, ReorderedMoves
<1> HIDE DEF update
<1>3. rows \in Rows /\ changes \in Seq(Change)
  BY <1>2 DEF Update
<1>4. /\ \A k \in DOMAIN changes : changes[k].issue \in Issues
            /\ changes[k].was = local[changes[k].issue]
      /\ \A i \in Issues : rows[i] # local[i] => \E k \in DOMAIN changes : changes[k].issue = i
      /\ \A k, m \in DOMAIN changes : changes[k].issue = changes[m].issue => k = m
  <2>1. \A k \in DOMAIN changes : changes[k] \in Change
    BY <1>3
  <2> QED
    BY <1>2, <2>1 DEF MovedUpTo, Change
<1>5. \A i \in Issues : rows[i].field = local[i].field
  <2> SUFFICES ASSUME NEW i \in Issues
               PROVE  rows[i].field = local[i].field
    OBVIOUS
  <2>1. CASE \E m \in 1..Len(places) : places[m].issue = i
    <3>1. PICK m \in 1..Len(places) : places[m].issue = i
      BY <2>1
    <3>2. rows[i] = PlacedAt(local[i], places[m]) /\ local[i] \in Row
      BY <1>1, <1>2, <3>1 DEF MovedUpTo, Rows
    <3> QED
      BY <3>2 DEF PlacedAt, Row
  <2>2. CASE \A m \in 1..Len(places) : places[m].issue # i
    BY <1>2, <2>2 DEF MovedUpTo
  <2> QED
    BY <2>1, <2>2
<1>6. CASE /\ changes = <<>> /\ UNCHANGED <<ops, requests>>
                 /\ heap' = [heap EXCEPT ![Len(heap)] = rows]
  <2>1. \A i \in Issues : rows[i] = local[i]
    BY <1>4, <1>6
  <2>2. rows = local
    BY <1>1, <1>3, <2>1 DEF Rows
  <2>3. heap' = heap
    BY <1>1, <1>6, <2>2 DEF local, CardTypes, PageTypes
  <2> QED
    BY <1>6, <2>3, AgreedStays
<1>7. CASE Saves(n, "order", Len(heap), rows, changes, new)
  <2> DEFINE puts == Puts(n, changes, rows)
             positions == Positions(n, changes, rows)
  <2>1. new = IF puts # {} THEN puts ELSE positions
    BY DEF FirstOf
  <2>2. n \in Nat /\ requests \subseteq CardRequest /\ IsFiniteSet(requests)
    BY BoundsAssumption DEF CardTypes, RestTypes, SaveTypes
  <2> HIDE DEF rows, changes, n, new, puts, positions
  <2>3. /\ \A q \in puts : /\ q.kind = "put" /\ q.pc = "sent"
                           /\ \E i \in Issues : DOMAIN q.body = {i} /\ q.body[i] = rows[i]
        /\ \A k \in DOMAIN changes : StatusChanged(changes[k], rows) =>
              \E q \in puts : DOMAIN q.body = {changes[k].issue}
    <3>1. /\ \A q \in Puts(n, changes, rows) :
                /\ Fresh(q, n) /\ q.kind = "put"
                /\ \E i \in Issues : DOMAIN q.body = {i} /\ q.body[i] = rows[i]
          /\ \A k \in DOMAIN changes : StatusChanged(changes[k], rows) =>
                \E q \in Puts(n, changes, rows) :
                   DOMAIN q.body = {changes[k].issue} /\ q.body[changes[k].issue] = rows[changes[k].issue]
      BY <1>3, <2>2, PutsAre DEF rows, changes
    <3>2. \A q : Fresh(q, n) => q.pc = "sent"
      BY DEF Fresh
    <3> QED
      BY <3>1, <3>2 DEF puts
  <2>4. \A q \in positions :
           /\ q.pc = "sent"
           /\ \A i \in DOMAIN q.body : q.body[i] = rows[i]
           /\ \A k \in DOMAIN changes : ~StatusChanged(changes[k], rows) =>
                 changes[k].issue \in DOMAIN q.body
           /\ q.kind = "positions"
    BY <1>3, <1>4, <2>2, PositionsAre DEF positions, Fresh
  <2>5. positions = {} => \A k \in DOMAIN changes : StatusChanged(changes[k], rows)
    BY <1>3, <2>2, PositionsAre DEF positions
  <2>6. ASSUME NEW i \in Issues
        PROVE  /\ \A kinds : \A q \in Writers(new, kinds, i) : q.body[i] = rows[i]
               /\ rows[i].status = rows[i]["status"] /\ rows[i].field = rows[i]["field"]
               /\ rows[i].pos = rows[i]["pos"]
    <3>1. \A kinds : \A q \in Writers(new, kinds, i) : q.body[i] = rows[i]
      BY <2>1, <2>3, <2>4 DEF Writers
    <3> QED
      BY <1>3, <3>1, PartsOfRow DEF Rows
  <2>7. ASSUME NEW i \in Issues, Writers(new, {"put"}, i) = {}
        PROVE  rows[i].status = local[i].status
    <3> SUFFICES ASSUME rows[i].status # local[i].status
                 PROVE  FALSE
      OBVIOUS
    <3>1. PICK k \in DOMAIN changes : changes[k].issue = i
      BY <1>4
    <3>2. StatusChanged(changes[k], rows)
      BY <1>4, <3>1 DEF StatusChanged
    <3>3. PICK q \in puts : DOMAIN q.body = {i}
      BY <2>3, <3>1, <3>2
    <3>4. q \in Writers(new, {"put"}, i)
      BY <2>1, <2>3, <3>3 DEF Writers
    <3> QED
      BY <2>7, <3>4
  <2>8. ASSUME NEW i \in Issues, Writers(new, {"put", "positions"}, i) = {}
        PROVE  \/ rows[i].pos = local[i].pos /\ rows[i].status = local[i].status
               \/ /\ \E q \in new : q.kind = "put"
                  /\ \E m \in DOMAIN changes : changes[m].issue = i
                        /\ ~StatusChanged(changes[m], rows)
    <3>1. CASE rows[i] = local[i]
      BY <3>1
    <3>2. CASE rows[i] # local[i]
      <4>1. PICK k \in DOMAIN changes : changes[k].issue = i
        BY <1>4, <3>2
      <4>2. ~StatusChanged(changes[k], rows)
        <5> SUFFICES ASSUME StatusChanged(changes[k], rows)
                     PROVE  FALSE
          OBVIOUS
        <5>1. PICK q \in puts : DOMAIN q.body = {i}
          BY <2>3, <4>1
        <5>2. q \in Writers(new, {"put", "positions"}, i)
          BY <2>1, <2>3, <5>1 DEF Writers
        <5> QED
          BY <2>8, <5>2
      <4>3. puts # {}
        <5> SUFFICES ASSUME puts = {}
                     PROVE  FALSE
          OBVIOUS
        <5>1. PICK q \in positions : TRUE
          BY <2>5, <4>2
        <5>2. q \in Writers(new, {"put", "positions"}, i)
          BY <2>1, <2>4, <4>1, <4>2, <5>1 DEF Writers
        <5> QED
          BY <2>8, <5>2
      <4>4. \E q \in new : q.kind = "put"
        BY <2>1, <2>3, <4>3
      <4> QED
        BY <4>1, <4>2, <4>4
    <3> QED
      BY <3>1, <3>2
  <2>9. \A i : Writers(new, {"put"}, i) \subseteq Writers(new, {"put", "archive"}, i)
    BY DEF Writers
  <2>10. Carries("order", changes, local, rows, new)
    <3> SUFFICES ASSUME NEW i \in Issues
                 PROVE  /\ \A q \in Writers(new, {"put", "archive"}, i) :
                              q.body[i]["status"] = rows[i].status
                        /\ Writers(new, {"put", "archive"}, i) = {} =>
                              rows[i].status = local[i].status
                        /\ \A q \in Writers(new, {"put"}, i) : q.body[i]["field"] = rows[i].field
                        /\ rows[i].field = local[i].field
                        /\ \A q \in Writers(new, {"put", "positions"}, i) :
                              q.body[i]["pos"] = rows[i].pos
                        /\ Writers(new, {"put", "positions"}, i) = {} =>
                              \/ rows[i].status = "Archive"
                              \/ rows[i].pos = local[i].pos /\ rows[i].status = local[i].status
                              \/ /\ \E q \in new : q.kind = "put"
                                 /\ \E m \in DOMAIN changes : changes[m].issue = i
                                       /\ ~StatusChanged(changes[m], rows)
      BY DEF Carries
    <3>1. Writers(new, {"put", "archive"}, i) = {} => rows[i].status = local[i].status
      BY <2>7, <2>9
    <3>2. rows[i].field = local[i].field
      BY <1>5 DEF rows
    <3> QED
      BY <2>6, <2>8, <3>1, <3>2
  <2>11. \A q \in new : q.kind # "doubled" /\ q.kind # "archive"
    BY <2>1, <2>3, <2>4
  <2>12. \A k, m \in DOMAIN changes : changes[k].issue = changes[m].issue => k = m
    BY <1>4 DEF changes
  <2>13. Saves(n, "order", Len(heap), rows, changes, new)
    BY <1>7 DEF rows, changes, n, new
  <2> QED
    BY <2>10, <2>11, <2>12, <2>13, SavesAgreed
<1> QED
  BY <1>1, <1>2, <1>6, <1>7, SaveOrderIs

LEMMA OnesAgreed ==
    ASSUME CardTypes, Agreed, Ones
    PROVE  Agreed'
<1>1. PICK kind, epoch, i, row, body : OneGesture(kind, epoch, i, row, body)
  BY OnesAre
<1>2. /\ kind \in Kinds /\ kind # "order" /\ epoch \in 1..Len(heap) /\ i \in Issues
            /\ row \in Row /\ body \in Row
      /\ SaveOne(kind, epoch, i, row, body)
      /\ row.pos = heap[epoch][i].pos
      /\ kind # "toggle" => epoch = Len(heap)
      /\ kind = "toggle" => epoch = drawn.epoch /\ row = [heap[epoch][i] EXCEPT !.field = ~@]
      /\ kind = "archive" => row.status = "Archive" /\ row.field = heap[epoch][i].field
      /\ kind # "lane" => body = row
      /\ kind = "lane" => row = heap[epoch][i] /\ body = [row EXCEPT !.field = TRUE]
  BY <1>1 DEF OneGesture
<1>3. excused' = (excused \/ Excuse(kind)) /\ UNCHANGED <<drawn, read, server>>
  BY <1>2 DEF SaveOne
<1> SUFFICES ASSUME ~excused'
             PROVE  Agreed'
  BY DEF Agreed
<1>4. ~excused /\ ~Excuse(kind)
  BY <1>3
<1>5. epoch = Len(heap) /\ heap[epoch] = local
  <2>1. drawn.epoch = Len(heap)
    BY <1>4 DEF Agreed, Calm, Excuse
  <2> QED
    BY <1>2, <2>1 DEF local
<1> DEFINE rows == [local EXCEPT ![i] = row]
           changes == <<[issue |-> i, was |-> local[i]]>>
<1>6. PICK q :
         /\ Fresh(q, gestures + 1) /\ q.kind = (IF kind = "archive" THEN "archive" ELSE "put")
         /\ DOMAIN q.body = {i} /\ q.body[i] = body
         /\ Saves(gestures + 1, kind, Len(heap), rows, changes, {q})
  <2> HIDE DEF rows, changes
  <2>1. /\ kind \in Kinds /\ kind # "order" /\ epoch \in 1..Len(heap) /\ i \in Issues
        /\ row \in Row /\ body \in Row /\ SaveOne(kind, epoch, i, row, body)
    BY <1>2
  <2>2. PICK p :
           /\ Fresh(p, gestures + 1) /\ p.kind = (IF kind = "archive" THEN "archive" ELSE "put")
           /\ DOMAIN p.body = {i} /\ p.body[i] = body
           /\ Saves(gestures + 1, kind, epoch, [heap[epoch] EXCEPT ![i] = row],
                    <<[issue |-> i, was |-> heap[epoch][i]]>>, {p})
           /\ [heap[epoch] EXCEPT ![i] = row] \in Rows
    BY <2>1, SaveOneIs
  <2>3. /\ rows = [heap[epoch] EXCEPT ![i] = row]
        /\ changes = <<[issue |-> i, was |-> heap[epoch][i]]>>
    BY <1>5 DEF rows, changes
  <2>4. Saves(gestures + 1, kind, Len(heap), rows, changes, {p})
    BY <1>5, <2>2, <2>3
  <2> QED
    BY <2>2, <2>4
<1>7. /\ rows[i] = row /\ \A j \in Issues : j # i => rows[j] = local[j]
      /\ local \in Rows /\ local[i] \in Row
  BY <1>2, LocalIs DEF Rows
<1>8. q.pc = "sent"
  BY <1>6 DEF Fresh
<1>9. ASSUME kind # "lane"
      PROVE  Carries(kind, changes, local, rows, {q})
  <2>1. q.body[i] = row
    BY <1>2, <1>6, <1>9
  <2>2. \A kinds : /\ Writers({q}, kinds, i) = (IF q.kind \in kinds THEN {q} ELSE {})
                   /\ \A j : j # i => Writers({q}, kinds, j) = {}
    BY <1>6, <1>8 DEF Writers
  <2> HIDE DEF rows, changes
  <2>3. ASSUME NEW j \in Issues, j # i
        PROVE  /\ Writers({q}, {"put", "archive"}, j) = {} /\ Writers({q}, {"put"}, j) = {}
               /\ Writers({q}, {"put", "positions"}, j) = {} /\ rows[j] = local[j]
    BY <1>7, <2>2, <2>3
  <2>4. row.status = row["status"] /\ row.field = row["field"] /\ row.pos = row["pos"]
    BY <1>2, PartsOfRow
  <2>5. CASE kind = "archive"
    <3>1. /\ Writers({q}, {"put", "archive"}, i) = {q} /\ Writers({q}, {"put"}, i) = {}
          /\ Writers({q}, {"put", "positions"}, i) = {}
      BY <1>6, <2>2, <2>5
    <3>2. row.status = "Archive" /\ row.field = local[i].field
      BY <1>2, <1>5, <2>5
    <3> QED
      BY <1>7, <2>1, <2>3, <2>4, <3>1, <3>2 DEF Carries
  <2>6. CASE kind # "archive"
    <3>1. /\ Writers({q}, {"put", "archive"}, i) = {q} /\ Writers({q}, {"put"}, i) = {q}
          /\ Writers({q}, {"put", "positions"}, i) = {q}
      BY <1>6, <2>2, <2>6
    <3> QED
      BY <1>7, <2>1, <2>3, <2>4, <3>1 DEF Carries
  <2> QED
    BY <2>5, <2>6
<1>10. ASSUME kind = "toggle"
       PROVE  q.kind = "put" /\ PutBack(rows, changes[1], "toggle") = local
  <2>1. row = [local[i] EXCEPT !.field = ~@] /\ q.kind = "put"
    BY <1>2, <1>5, <1>6, <1>10
  <2>2. [row EXCEPT !.field = local[i].field] = local[i]
    BY <1>7, <2>1 DEF Row
  <2>3. changes[1].issue = i /\ changes[1].was = local[i]
    OBVIOUS
  <2>4. PutBack(rows, changes[1], "toggle") = [rows EXCEPT ![i] = [row EXCEPT !.field = local[i].field]]
    <3> HIDE DEF changes
    <3>1. Restored(row, local[i], "toggle") = [row EXCEPT !.field = local[i].field]
      BY DEF Restored
    <3> QED
      BY <1>2, <1>7, <2>3, <3>1 DEF PutBack, Rows
  <2>5. [rows EXCEPT ![i] = local[i]] = local
    BY <1>7 DEF Rows
  <2> QED
    BY <2>1, <2>2, <2>4, <2>5
<1>11. ASSUME kind = "lane"
       PROVE  q.kind = "put" /\ rows = local /\ q.body[i] = [rows[i] EXCEPT !.field = TRUE]
  <2>1. row = local[i] /\ body = [row EXCEPT !.field = TRUE] /\ q.kind = "put"
    BY <1>2, <1>5, <1>6, <1>11
  <2>2. rows = local
    BY <1>7, <2>1 DEF Rows
  <2> QED
    BY <1>6, <1>7, <2>1, <2>2
<1>12. \A k, m \in DOMAIN changes : changes[k].issue = changes[m].issue => k = m
  OBVIOUS
<1>13. q.kind # "doubled" /\ (q.kind = "archive" => \A j \in DOMAIN q.body :
          q.body[j].status = "Archive")
  <2>1. CASE kind = "archive"
    BY <1>2, <1>6, <2>1
  <2>2. CASE kind # "archive"
    BY <1>6, <2>2
  <2> QED
    BY <2>1, <2>2
<1> HIDE DEF rows, changes
<1>14. kind = "toggle" => \E p : {q} = {p} /\ p.kind = "put"
          /\ PutBack(rows, changes[1], "toggle") = local
  BY <1>10
<1>15. kind = "lane" => \E p : \E j \in Issues :
          /\ {q} = {p} /\ p.kind = "put" /\ DOMAIN p.body = {j}
          /\ rows = local /\ p.body[j] = [rows[j] EXCEPT !.field = TRUE]
  <2> HAVE kind = "lane"
  <2>1. /\ {q} = {q} /\ q.kind = "put" /\ DOMAIN q.body = {i}
        /\ rows = local /\ q.body[i] = [rows[i] EXCEPT !.field = TRUE]
    BY <1>6, <1>11
  <2>2. i \in Issues
    BY <1>2
  <2> QED
    BY <2>1, <2>2
<1>16. \A p \in {q} : /\ p.kind # "doubled"
                      /\ p.kind = "archive" =>
                            \A j \in DOMAIN p.body : p.body[j].status = "Archive"
  BY <1>13
<1>17. kind # "lane" => Carries(kind, changes, local, rows, {q})
  BY <1>9
<1> DEFINE n == gestures + 1
           new == {q}
<1>18. Saves(n, kind, Len(heap), rows, changes, new) /\ UNCHANGED <<drawn, read, server>>
  BY <1>3, <1>6
<1>19. kind = "toggle" => TogglesBack(new, changes, local, rows)
  BY <1>14 DEF TogglesBack
<1>20. kind = "lane" => OpensLane(new, local, rows)
  BY <1>15 DEF OpensLane
<1>21. \A p \in new : /\ p.kind # "doubled"
                      /\ p.kind = "archive" =>
                            \A j \in DOMAIN p.body : p.body[j].status = "Archive"
  BY <1>16
<1>22. kind # "lane" => Carries(kind, changes, local, rows, new)
  BY <1>17
<1> HIDE DEF n, new
<1>23. ~excused
  BY <1>4
<1>24. ~Excuse(kind)
  BY <1>4
<1> QED
  BY <1>12, <1>18, <1>19, <1>20, <1>21, <1>22, <1>23, <1>24, SavesAgreed

LEMMA DropAgreed ==
    ASSUME CardTypes, Agreed, NEW c \in Listed, NEW k, Drop(c, k)
    PROVE  Agreed'
<1> SUFFICES ASSUME ~excused'
             PROVE  Agreed'
  BY DEF Agreed
<1>1. /\ Places(shown') \in Seq(AnyPlace)
      /\ SaveOrder(Len(heap), Reordered(local, Places(shown')))
      /\ UNCHANGED <<drawn, read, server>>
      /\ excused' = (excused \/ Excuse("order") \/ ~OneCardEach(shown'))
  BY DropIs
<1>2. ~excused /\ ~Excuse("order") /\ OneCardEach(shown')
  BY <1>1
<1>3. OncePlaced(Places(shown'))
  BY <1>2 DEF OneCardEach, OncePlaced
<1> QED
  BY <1>1, <1>2, <1>3, SaveOrderAgreed

LEMMA MoveInListAgreed ==
    ASSUME CardTypes, Agreed, NEW i \in Issues, NEW c \in Listed, NEW top \in BOOLEAN,
           MoveInList(i, c, top)
    PROVE  Agreed'
<1> SUFFICES ASSUME ~excused'
             PROVE  Agreed'
  BY DEF Agreed
<1>1. PICK places \in Seq(AnyPlace) :
         /\ OncePlaced(places)
         /\ SaveOrder(drawn.epoch, Reordered(heap[drawn.epoch], places))
         /\ UNCHANGED <<shown, drawn, drag, read, server, failures>>
         /\ excused' = (excused \/ Excuse("order"))
  BY MoveInListIs
<1>2. ~excused /\ ~Excuse("order")
  BY <1>1
<1>3. drawn.epoch = Len(heap) /\ heap[drawn.epoch] = local
  BY <1>2 DEF Agreed, Calm, Excuse, local
<1> QED
  BY <1>1, <1>2, <1>3, SaveOrderAgreed

LEMMA InitAgreed == Init => Agreed
<1> SUFFICES ASSUME Init
             PROVE  Agreed
  OBVIOUS
<1>1. /\ heap = <<server>> /\ drawn.epoch = 1 /\ ops = {} /\ requests = {} /\ read.pc = "none"
  BY DEF Init
<1>2. local = server /\ Len(heap) = 1
  BY <1>1 DEF local
<1>3. Settled({}, {}, local, server) /\ InShape({}, {})
  BY <1>2, QuietSettled DEF Agree
<1>4. Calm
  BY <1>1, <1>2, <1>3 DEF Calm
<1> QED
  BY <1>1, <1>3, <1>4 DEF Agreed

LEMMA NextAgreed == CardTypes /\ Agreed /\ [Next]_vars => Agreed'
<1> SUFFICES ASSUME CardTypes, Agreed, [Next]_vars
             PROVE  Agreed'
  OBVIOUS
<1>1. CASE UNCHANGED vars
  BY <1>1, AgreedStays DEF vars
<1>2. ASSUME NEW c \in Listed, NEW k \in 1..Len(shown[c]), StartDrag(c, k)
      PROVE  Agreed'
  BY <1>2, AgreedStays DEF StartDrag
<1>3. ASSUME NEW c \in Listed, NEW k \in 1..(Len(shown[c]) + 1), Drop(c, k)
      PROVE  Agreed'
  BY <1>3, DropAgreed
<1>4. ASSUME NEW i \in Issues, NEW c \in Listed, NEW top \in BOOLEAN, MoveInList(i, c, top)
      PROVE  Agreed'
  BY <1>4, MoveInListAgreed
<1>5. CASE Ones
  BY <1>5, OnesAgreed
<1>6. CASE CancelDrag
  BY <1>6, AgreedStays DEF CancelDrag
<1>7. CASE Refresh
  BY <1>7, RefreshAgreed
<1>8. ASSUME NEW q \in requests, Serve(q)
      PROVE  Agreed'
  BY <1>8, ServeAgreed
<1>9. ASSUME NEW q \in requests, NEW executed \in BOOLEAN, ServeInVain(q, executed)
      PROVE  Agreed'
  BY <1>9, ServeInVainAgreed
<1>10. ASSUME NEW o \in ops, SavePositions(o) \/ Saved(o) \/ Fails(o)
       PROVE  Agreed'
  BY <1>10, SavePositionsAgreed, SavedAgreed, FailsAgreed
<1>11. CASE Refreshing
  BY <1>11, RefreshingAgreed
<1> QED
  BY <1>1, <1>2, <1>3, <1>4, <1>5, <1>6, <1>7, <1>8, <1>9, <1>10, <1>11
     DEF Next, Drops, Answered, Ones

\* When nothing is being saved or read, the page has what the server has: gestures that overlap,
\* saves in two steps, failures and refreshes leave no difference (saveIssueOrder,
\* showSaveFailure), except where the history variable excuses it.
THEOREM PageAlwaysAgrees == Spec => []LocalIsServer
<1>1. Init => CardTypes /\ Agreed
  BY InitTyped, InitAgreed
<1>2. CardTypes /\ Agreed /\ [Next]_vars => (CardTypes /\ Agreed)'
  BY NextTyped, NextAgreed
<1>3. CardTypes /\ Agreed => LocalIsServer
  <2> SUFFICES ASSUME Agreed, ops = {}, requests = {}, read.pc = "none", ~excused
               PROVE  Agree(local, server)
    BY DEF LocalIsServer
  <2>1. Settled({}, {}, local, server)
    BY DEF Agreed, Calm
  <2> QED
    BY <2>1, QuietSettled
<1> QED
  BY <1>1, <1>2, <1>3, PTL DEF Spec

=============================================================================
