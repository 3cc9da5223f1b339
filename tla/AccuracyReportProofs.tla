------------------------- MODULE AccuracyReportProofs -------------------------
(***************************************************************************)
(* The accuracy of a transcription is its edit distance and a percentile   *)
(* is a nearest rank, for any letters, texts, sentences and measurements.  *)
(*                                                                         *)
(* What a table of distances, an order by accuracy and the pairs joined by *)
(* edits are is defined over smaller ones: that they exist, and what they  *)
(* hold, is shown by looking at the least number for which it would fail.  *)
(***************************************************************************)
EXTENDS AccuracyReport, FiniteSetTheorems, SequenceTheorems, TLAPS

LEMMA LeastNumber ==
  ASSUME NEW T \in SUBSET Nat, T # {}
  PROVE  \E n \in T : \A k \in T : n <= k
<1>1. PICK n \in T : \A k \in T : ~(<<k, n>> \in OpToRel(<, Nat))
  BY NatLessThanWellFounded, WFMin
<1>2. \A k \in T : k < n => <<k, n>> \in OpToRel(<, Nat)
  BY DEF OpToRel
<1>3. \A k \in T : ~(k < n)
  BY <1>1, <1>2, Zenon
<1>4. QED
  BY <1>3

(***************************************************************************)
(* The table of distances                                                  *)
(***************************************************************************)
LEMMA MinOfThree ==
  ASSUME NEW a \in Nat, NEW b \in Nat, NEW c \in Nat
  PROVE  /\ Min({a, b, c}) \in {a, b, c} /\ Min({a, b, c}) \in Nat
         /\ Min({a, b, c}) <= a /\ Min({a, b, c}) <= b /\ Min({a, b, c}) <= c
<1>1. \E m \in {a, b, c} : \A k \in {a, b, c} : m <= k
  OBVIOUS
<1>2. QED
  BY <1>1 DEF Min

LEMMA CellType ==
  ASSUME NEW r \in Seq(Letters), NEW h \in Seq(Letters),
         NEW d \in [Cells(r, h) -> Nat], NEW i \in 0..Len(r), NEW j \in 0..Len(h)
  PROVE  Cell(r, h, d, i, j) \in Nat
<1>1. CASE i = 0 \/ j = 0
  BY <1>1 DEF Cell
<1>2. CASE i # 0 /\ j # 0
  <2>1. /\ <<i - 1, j>> \in Cells(r, h) /\ <<i, j - 1>> \in Cells(r, h)
        /\ <<i - 1, j - 1>> \in Cells(r, h)
    BY <1>2 DEF Cells
  <2>2. /\ d[<<i - 1, j>>] + 1 \in Nat /\ d[<<i, j - 1>>] + 1 \in Nat
        /\ d[<<i - 1, j - 1>>] + (IF r[i] = h[j] THEN 0 ELSE 1) \in Nat
    BY <2>1
  <2>3. Min({d[<<i - 1, j>>] + 1, d[<<i, j - 1>>] + 1,
             d[<<i - 1, j - 1>>] + (IF r[i] = h[j] THEN 0 ELSE 1)}) \in Nat
    BY <2>2, MinOfThree
  <2>4. QED
    BY <1>2, <2>3 DEF Cell
<1>3. QED
  BY <1>1, <1>2

(* A cell looks only at cells nearer to the origin.                        *)
AgreeBefore(r, h, d, e, i, j) ==
  \A c \in Cells(r, h) : c[1] + c[2] < i + j => d[c] = e[c]

LEMMA CellAgrees ==
  ASSUME NEW r \in Seq(Letters), NEW h \in Seq(Letters), NEW d, NEW e,
         NEW i \in 0..Len(r), NEW j \in 0..Len(h),
         AgreeBefore(r, h, d, e, i, j)
  PROVE  Cell(r, h, d, i, j) = Cell(r, h, e, i, j)
<1>1. CASE i = 0 \/ j = 0
  BY <1>1 DEF Cell
<1>2. CASE i # 0 /\ j # 0
  <2>1. /\ <<i - 1, j>> \in Cells(r, h) /\ <<i, j - 1>> \in Cells(r, h)
        /\ <<i - 1, j - 1>> \in Cells(r, h)
    BY <1>2 DEF Cells
  <2>2. /\ d[<<i - 1, j>>] = e[<<i - 1, j>>] /\ d[<<i, j - 1>>] = e[<<i, j - 1>>]
        /\ d[<<i - 1, j - 1>>] = e[<<i - 1, j - 1>>]
    BY <2>1 DEF AgreeBefore
  <2>3. QED
    BY <1>2, <2>2 DEF Cell
<1>3. QED
  BY <1>1, <1>2

LEMMA TableExists ==
  ASSUME NEW r \in Seq(Letters), NEW h \in Seq(Letters)
  PROVE  \E d \in [Cells(r, h) -> Nat] :
            d = [c \in Cells(r, h) |-> Cell(r, h, d, c[1], c[2])]
<1> DEFINE Filled(d, n) == \A c \in Cells(r, h) :
                              c[1] + c[2] < n => d[c] = Cell(r, h, d, c[1], c[2])
           Bad == {n \in Nat : ~ \E d \in [Cells(r, h) -> Nat] : Filled(d, n)}
<1>0. \A c \in Cells(r, h) : /\ c[1] \in 0..Len(r) /\ c[2] \in 0..Len(h) /\ c = <<c[1], c[2]>>
                             /\ c[1] \in Nat /\ c[2] \in Nat /\ c[1] + c[2] < Len(r) + Len(h) + 1
  BY DEF Cells
<1>1. Bad = {}
  <2> SUFFICES ASSUME Bad # {} PROVE FALSE
    OBVIOUS
  <2>1. PICK n \in Bad : \A k \in Bad : n <= k
    <3> HIDE DEF Filled
    <3>1. Bad \in SUBSET Nat
      OBVIOUS
    <3>2. QED
      BY <3>1, LeastNumber
  <2>2. n # 0
    <3>1. [c \in Cells(r, h) |-> 0] \in [Cells(r, h) -> Nat]
      OBVIOUS
    <3>2. Filled([c \in Cells(r, h) |-> 0], 0)
      BY <1>0
    <3>3. QED
      BY <3>1, <3>2
  <2>3. n - 1 \in Nat /\ n - 1 \notin Bad
    <3> HIDE DEF Bad
    <3>1. n \in Nat
      BY <2>1 DEF Bad
    <3>2. QED
      BY <2>1, <2>2, <3>1
  <2>4. PICK d \in [Cells(r, h) -> Nat] : Filled(d, n - 1)
    BY <2>3
  <2> DEFINE e == [c \in Cells(r, h) |-> IF c[1] + c[2] < n - 1 THEN d[c]
                                         ELSE Cell(r, h, d, c[1], c[2])]
  <2>5. e \in [Cells(r, h) -> Nat]
    <3>1. \A c \in Cells(r, h) : Cell(r, h, d, c[1], c[2]) \in Nat
      BY <1>0, CellType
    <3>2. QED
      BY <3>1
  <2>6. ASSUME NEW c \in Cells(r, h), c[1] + c[2] < n
        PROVE  e[c] = Cell(r, h, e, c[1], c[2])
    <3>1. \A b \in Cells(r, h) : b[1] + b[2] < c[1] + c[2] => d[b] = e[b]
      BY <1>0, <2>3, <2>6
    <3>2. Cell(r, h, d, c[1], c[2]) = Cell(r, h, e, c[1], c[2])
      <4> HIDE DEF e
      <4> DEFINE i == c[1]
                 j == c[2]
      <4>1. i \in 0..Len(r) /\ j \in 0..Len(h)
        BY <1>0
      <4>2. AgreeBefore(r, h, d, e, i, j)
        BY <3>1 DEF AgreeBefore
      <4> HIDE DEF i, j
      <4>3. Cell(r, h, d, i, j) = Cell(r, h, e, i, j)
        BY <4>1, <4>2, CellAgrees
      <4>4. QED
        BY <4>3 DEF i, j
    <3>3. e[c] = Cell(r, h, d, c[1], c[2])
      BY <2>4
    <3>4. QED
      BY <3>2, <3>3
  <2>7. Filled(e, n)
    BY <2>6
  <2>8. QED
    BY <2>1, <2>5, <2>7
<1>2. Len(r) + Len(h) + 1 \in Nat
  OBVIOUS
<1>3. PICK d \in [Cells(r, h) -> Nat] : Filled(d, Len(r) + Len(h) + 1)
  BY <1>1, <1>2
<1>4. \A c \in Cells(r, h) : d[c] = Cell(r, h, d, c[1], c[2])
  BY <1>0, <1>3
<1>5. d = [c \in Cells(r, h) |-> Cell(r, h, d, c[1], c[2])]
  BY <1>4
<1>6. QED
  BY <1>5

(* The CHOOSE that stands for the table satisfies its equation.            *)
LEMMA TableFilled ==
  ASSUME NEW r \in Seq(Letters), NEW h \in Seq(Letters)
  PROVE  Distances(r, h) = [c \in Cells(r, h) |-> Cell(r, h, Distances(r, h), c[1], c[2])]
BY TableExists DEF Distances

LEMMA TableType ==
  ASSUME NEW r \in Seq(Letters), NEW h \in Seq(Letters)
  PROVE  Distances(r, h) \in [Cells(r, h) -> Nat]
<1> DEFINE d == Distances(r, h)
<1>1. PICK e \in [Cells(r, h) -> Nat] : e = [c \in Cells(r, h) |-> Cell(r, h, e, c[1], c[2])]
  BY TableExists
<1>2. /\ DOMAIN d = Cells(r, h)
      /\ \A c \in Cells(r, h) : d[c] = Cell(r, h, d, c[1], c[2])
  BY TableFilled
<1> HIDE DEF d
<1>3. \A c \in Cells(r, h) : /\ c[1] \in 0..Len(r) /\ c[2] \in 0..Len(h)
                             /\ c[1] + c[2] \in Nat
  BY DEF Cells
<1>4. SUFFICES ASSUME \E c \in Cells(r, h) : d[c] # e[c] PROVE FALSE
  <2>1. CASE \A c \in Cells(r, h) : d[c] = e[c]
    <3>1. d = [c \in Cells(r, h) |-> d[c]]
      BY <1>2, TableFilled DEF d
    <3>2. QED
      BY <2>1, <3>1 DEF d
  <2>2. QED
    BY <2>1, <1>4
<1> DEFINE Bad == {n \in Nat : \E c \in Cells(r, h) : n = c[1] + c[2] /\ d[c] # e[c]}
<1>5. PICK n \in Bad : \A k \in Bad : n <= k
  <2>1. Bad # {} /\ Bad \in SUBSET Nat
    BY <1>3, <1>4
  <2> HIDE DEF Bad
  <2>2. QED
    BY <2>1, LeastNumber
<1>6. PICK c \in Cells(r, h) : n = c[1] + c[2] /\ d[c] # e[c]
  BY <1>5
<1> DEFINE i == c[1]
           j == c[2]
<1>7. i \in 0..Len(r) /\ j \in 0..Len(h)
  BY <1>3
<1>8. AgreeBefore(r, h, d, e, i, j)
  <2> SUFFICES ASSUME NEW b \in Cells(r, h), b[1] + b[2] < i + j, d[b] # e[b] PROVE FALSE
    BY DEF AgreeBefore
  <2>1. b[1] + b[2] \in Bad
    BY <1>3
  <2>2. b[1] + b[2] \in Nat /\ i + j \in Nat
    BY <1>3
  <2> HIDE DEF Bad
  <2>3. QED
    BY <1>5, <1>6, <2>1, <2>2
<1>9. Cell(r, h, d, i, j) = Cell(r, h, e, i, j)
  <2> HIDE DEF i, j
  <2>1. QED
    BY <1>7, <1>8, CellAgrees
<1>10. QED
  BY <1>1, <1>2, <1>6, <1>9

LEMMA AccuracyType ==
  ASSUME NEW r \in Texts, NEW h \in Texts
  PROVE  Accuracy(r, h) \in Int
<1>1. /\ r \in Seq(Letters) /\ h \in Seq(Letters) /\ Full \in Nat
      /\ Len(r) \in Nat /\ Len(h) \in Nat
  BY ReportAssumption DEF Texts
<1>2. Distance(r, h) \in Nat
  <2>1. <<Len(r), Len(h)>> \in Cells(r, h)
    BY <1>1 DEF Cells
  <2>2. QED
    BY <1>1, <2>1, TableType DEF Distance
<1>3. CASE r = <<>>
  BY <1>1, <1>3 DEF Accuracy
<1>4. CASE r # <<>>
  <2>1. Longer(r, h) \in Nat \ {0}
    BY <1>1, <1>4 DEF Longer
  <2>2. Full * Distance(r, h) \in Nat
    BY <1>1, <1>2
  <2>3. (Full * Distance(r, h)) \div Longer(r, h) \in Int
    BY <2>1, <2>2
  <2>4. QED
    BY <1>1, <1>4, <2>3 DEF Accuracy
<1>5. QED
  BY <1>3, <1>4

(* Among some cells there is one nearest to the origin.                    *)
LEMMA NearestCell ==
  ASSUME NEW r \in Seq(Letters), NEW h \in Seq(Letters),
         NEW B \in SUBSET Cells(r, h), B # {}
  PROVE  \E c \in B : \A b \in B : c[1] + c[2] <= b[1] + b[2]
<1> DEFINE T == {c[1] + c[2] : c \in B}
<1>1. T \in SUBSET Nat /\ T # {}
  BY DEF Cells
<1>2. PICK n \in T : \A k \in T : n <= k
  <2> HIDE DEF T
  <2>1. QED
    BY <1>1, LeastNumber
<1>3. QED
  BY <1>2

(* The table once more, cell by cell.                                      *)
Entry(r, h, i, j) == Distances(r, h)[<<i, j>>]
Cost(r, h, i, j) == IF r[i] = h[j] THEN 0 ELSE 1

LEMMA EntryIsCell ==
  ASSUME NEW r \in Seq(Letters), NEW h \in Seq(Letters),
         NEW i \in 0..Len(r), NEW j \in 0..Len(h)
  PROVE  Entry(r, h, i, j) = Cell(r, h, Distances(r, h), i, j) /\ Entry(r, h, i, j) \in Nat
<1> DEFINE d == Distances(r, h)
<1>1. d \in [Cells(r, h) -> Nat]
  BY TableType
<1>2. \A c \in Cells(r, h) : d[c] = Cell(r, h, d, c[1], c[2])
  BY TableFilled
<1> HIDE DEF d
<1>3. <<i, j>> \in Cells(r, h) /\ <<i, j>>[1] = i /\ <<i, j>>[2] = j
  BY DEF Cells
<1>4. d[<<i, j>>] = Cell(r, h, d, i, j) /\ d[<<i, j>>] \in Nat
  BY <1>1, <1>2, <1>3
<1>5. QED
  BY <1>4 DEF d, Entry

LEMMA Edges ==
  ASSUME NEW r \in Seq(Letters), NEW h \in Seq(Letters)
  PROVE  /\ \A j \in 0..Len(h) : Entry(r, h, 0, j) = j
         /\ \A i \in 0..Len(r) : Entry(r, h, i, 0) = i
<1>1. 0 \in 0..Len(r) /\ 0 \in 0..Len(h)
  OBVIOUS
<1>2. ASSUME NEW j \in 0..Len(h) PROVE Entry(r, h, 0, j) = j
  BY <1>1, EntryIsCell DEF Cell
<1>3. ASSUME NEW i \in 0..Len(r) PROVE Entry(r, h, i, 0) = i
  <2>1. Entry(r, h, i, 0) = Cell(r, h, Distances(r, h), i, 0)
    BY <1>1, EntryIsCell
  <2>2. QED
    BY <2>1 DEF Cell
<1>4. QED
  BY <1>2, <1>3

LEMMA Inside ==
  ASSUME NEW r \in Seq(Letters), NEW h \in Seq(Letters),
         NEW i \in 1..Len(r), NEW j \in 1..Len(h)
  PROVE  /\ Entry(r, h, i, j) <= Entry(r, h, i - 1, j) + 1
         /\ Entry(r, h, i, j) <= Entry(r, h, i, j - 1) + 1
         /\ Entry(r, h, i, j) <= Entry(r, h, i - 1, j - 1) + Cost(r, h, i, j)
         /\ \/ Entry(r, h, i, j) = Entry(r, h, i - 1, j) + 1
            \/ Entry(r, h, i, j) = Entry(r, h, i, j - 1) + 1
            \/ Entry(r, h, i, j) = Entry(r, h, i - 1, j - 1) + Cost(r, h, i, j)
<1> DEFINE x == Entry(r, h, i - 1, j) + 1
           y == Entry(r, h, i, j - 1) + 1
           z == Entry(r, h, i - 1, j - 1) + Cost(r, h, i, j)
<1>1. /\ i \in 0..Len(r) /\ j \in 0..Len(h) /\ i # 0 /\ j # 0
      /\ i - 1 \in 0..Len(r) /\ j - 1 \in 0..Len(h)
  OBVIOUS
<1>2. Entry(r, h, i, j) = Cell(r, h, Distances(r, h), i, j)
  BY <1>1, EntryIsCell
<1>3. Entry(r, h, i, j) = Min({x, y, z})
  BY <1>1, <1>2 DEF Cell, Entry, Cost
<1>4. /\ Entry(r, h, i - 1, j) \in Nat /\ Entry(r, h, i, j - 1) \in Nat
      /\ Entry(r, h, i - 1, j - 1) \in Nat /\ Cost(r, h, i, j) \in Nat
  BY <1>1, EntryIsCell DEF Cost
<1>5. x \in Nat /\ y \in Nat /\ z \in Nat
  BY <1>4
<1> HIDE DEF x, y, z
<1>6. /\ Entry(r, h, i, j) <= x /\ Entry(r, h, i, j) <= y /\ Entry(r, h, i, j) <= z
      /\ Entry(r, h, i, j) = x \/ Entry(r, h, i, j) = y \/ Entry(r, h, i, j) = z
  BY <1>3, <1>5, MinOfThree
<1>7. QED
  BY <1>6 DEF x, y, z

(* A letter less in the transcription costs one edit at most.              *)
LEMMA ColumnsAdjacent ==
  ASSUME NEW r \in Seq(Letters), NEW h \in Seq(Letters)
  PROVE  \A i \in 0..Len(r), j \in 1..Len(h) : Entry(r, h, i, j - 1) <= Entry(r, h, i, j) + 1
<1> DEFINE B == {c \in Cells(r, h) : c[2] # 0 /\
                   ~(Entry(r, h, c[1], c[2] - 1) <= Entry(r, h, c[1], c[2]) + 1)}
<1>1. SUFFICES ASSUME B # {} PROVE FALSE
  <2> SUFFICES ASSUME NEW i \in 0..Len(r), NEW j \in 1..Len(h), B = {}
               PROVE  Entry(r, h, i, j - 1) <= Entry(r, h, i, j) + 1
    OBVIOUS
  <2>1. <<i, j>> \in Cells(r, h)
    BY DEF Cells
  <2>2. <<i, j>> \notin B
    OBVIOUS
  <2>3. QED
    BY <2>1, <2>2
<1>2. B \in SUBSET Cells(r, h)
  OBVIOUS
<1>3. PICK c \in B : \A b \in B : c[1] + c[2] <= b[1] + b[2]
  <2> HIDE DEF B
  <2>1. QED
    BY <1>1, <1>2, NearestCell
<1>4. PICK i \in 0..Len(r), j \in 1..Len(h) : c = <<i, j>>
  BY DEF Cells
<1>5. ~(Entry(r, h, i, j - 1) <= Entry(r, h, i, j) + 1)
  BY <1>4
<1>6. /\ i \in 0..Len(r) /\ j \in 0..Len(h) /\ j - 1 \in 0..Len(h)
      /\ i # 0 => i - 1 \in 0..Len(r) /\ i \in 1..Len(r)
      /\ j # 1 => j - 1 \in 1..Len(h)
      /\ Len(r) \in Nat /\ Len(h) \in Nat /\ 0 \in 0..Len(r) /\ 0 \in 0..Len(h)
  OBVIOUS
<1>7. CASE i = 0
  BY <1>5, <1>6, <1>7, Edges
<1>8. CASE i # 0
  <2>1. Entry(r, h, i - 1, j - 1) <= Entry(r, h, i - 1, j) + 1
    <3>1. <<i - 1, j>> \in Cells(r, h)
      BY <1>6, <1>8 DEF Cells
    <3>2. <<i - 1, j>> \notin B
      BY <1>3, <1>4, <1>6, <1>8
    <3>3. QED
      BY <3>1, <3>2
  <2>2. Entry(r, h, i, j - 1) <= Entry(r, h, i - 1, j - 1) + 1
    <3>1. CASE j = 1
      BY <1>6, <1>8, <3>1, Edges
    <3>2. CASE j # 1
      BY <1>6, <1>8, <3>2, Inside
    <3>3. QED
      BY <3>1, <3>2
  <2>3. /\ Entry(r, h, i, j) \in Nat /\ Entry(r, h, i, j - 1) \in Nat
        /\ Entry(r, h, i - 1, j - 1) \in Nat /\ Entry(r, h, i - 1, j) \in Nat
        /\ Cost(r, h, i, j) \in {0, 1}
    BY <1>6, <1>8, EntryIsCell DEF Cost
  <2>4. \/ Entry(r, h, i, j) = Entry(r, h, i - 1, j) + 1
        \/ Entry(r, h, i, j) = Entry(r, h, i, j - 1) + 1
        \/ Entry(r, h, i, j) = Entry(r, h, i - 1, j - 1) + Cost(r, h, i, j)
    BY <1>6, <1>8, Inside
  <2>5. QED
    BY <1>5, <2>1, <2>2, <2>3, <2>4
<1>9. QED
  BY <1>7, <1>8

(***************************************************************************)
(* Texts that are the same but for a shift.  From column a on, h continues *)
(* as s does o columns before: what holds of column a holds from there to  *)
(* column b.                                                               *)
(***************************************************************************)
Continues(s, h, o, a, b) ==
  /\ a \in 0..Len(h) /\ b \in a..Len(h) /\ o \in {-1, 0, 1}
  /\ a - o \in Nat /\ b - o <= Len(s)
  /\ \A j \in (a + 1)..b : h[j] = s[j - o]

LEMMA ThreeWays ==
  ASSUME NEW e \in Int, NEW c \in {0, 1},
         NEW x \in Nat, NEW x1 \in Nat, NEW x2 \in Nat, NEW x3 \in Nat,
         NEW y \in Nat, NEW y1 \in Nat, NEW y2 \in Nat, NEW y3 \in Nat,
         x <= x1 + 1, x <= x2 + 1, x <= x3 + c,
         y = y1 + 1 \/ y = y2 + 1 \/ y = y3 + c,
         x1 <= y1 + e, x2 <= y2 + e, x3 <= y3 + e
  PROVE  x <= y + e
OBVIOUS

LEMMA Shifted ==
  ASSUME NEW r \in Seq(Letters), NEW s \in Seq(Letters), NEW h \in Seq(Letters),
         NEW o, NEW a, NEW b, NEW e \in {0, 1}, Continues(s, h, o, a, b), o <= e,
         \A i \in 0..Len(r) : Entry(r, h, i, a) <= Entry(r, s, i, a - o) + e
  PROVE  \A i \in 0..Len(r), j \in a..b : Entry(r, h, i, j) <= Entry(r, s, i, j - o) + e
<1> DEFINE B == {c \in Cells(r, h) : c[2] \in a..b /\
                   ~(Entry(r, h, c[1], c[2]) <= Entry(r, s, c[1], c[2] - o) + e)}
<1>0. /\ a \in Nat /\ b \in Nat /\ o \in {-1, 0, 1} /\ Len(h) \in Nat /\ Len(s) \in Nat
      /\ Len(r) \in Nat /\ b <= Len(h) /\ a - o >= 0 /\ b - o <= Len(s) /\ a <= b
  BY DEF Continues
<1>1. SUFFICES ASSUME B # {} PROVE FALSE
  <2> SUFFICES ASSUME NEW i \in 0..Len(r), NEW j \in a..b, B = {}
               PROVE  Entry(r, h, i, j) <= Entry(r, s, i, j - o) + e
    OBVIOUS
  <2>1. <<i, j>> \in Cells(r, h)
    BY <1>0 DEF Cells
  <2>2. <<i, j>> \notin B
    OBVIOUS
  <2>3. QED
    BY <2>1, <2>2
<1>2. B \in SUBSET Cells(r, h)
  OBVIOUS
<1>3. PICK c \in B : \A n \in B : c[1] + c[2] <= n[1] + n[2]
  <2> HIDE DEF B
  <2>1. QED
    BY <1>1, <1>2, NearestCell
<1>4. PICK i \in 0..Len(r), j \in a..b : c = <<i, j>>
  BY DEF Cells
<1>5. ~(Entry(r, h, i, j) <= Entry(r, s, i, j - o) + e)
  BY <1>4
<1>6. j # a
  BY <1>5
<1>7. /\ j \in 1..Len(h) /\ j - 1 \in 0..Len(h) /\ j - 1 \in a..b /\ j \in (a + 1)..b
      /\ j - o \in 1..Len(s) /\ j - o - 1 \in 0..Len(s) /\ (j - 1) - o = j - o - 1
      /\ j \in Int /\ i \in Int
      /\ i # 0 => i - 1 \in 0..Len(r) /\ i \in 1..Len(r)
  BY <1>0, <1>6
<1>8. CASE i = 0
  <2>1. Entry(r, h, 0, j) = j /\ Entry(r, s, 0, j - o) = j - o
    <3>1. j \in 0..Len(h) /\ j - o \in 0..Len(s)
      BY <1>0, <1>7
    <3>2. QED
      BY <3>1, Edges
  <2>2. QED
    BY <1>0, <1>5, <1>7, <1>8, <2>1
<1>9. CASE i # 0
  <2> DEFINE q == j - o
  <2>0. q \in 1..Len(s) /\ q - 1 \in 0..Len(s) /\ (j - 1) - o = q - 1 /\ h[j] = s[q]
    BY <1>7 DEF Continues
  <2>1. ASSUME NEW x \in {i - 1, i}, NEW y \in {j - 1, j}, x + y < i + j
        PROVE  Entry(r, h, x, y) <= Entry(r, s, x, y - o) + e
    <3>0. x \in 0..Len(r) /\ y \in 0..Len(h) /\ y \in a..b
      BY <1>0, <1>7, <1>9
    <3>1. <<x, y>> \in Cells(r, h)
      BY <3>0 DEF Cells
    <3>2. <<x, y>> \notin B
      <4>1. c[1] = i /\ c[2] = j /\ <<x, y>>[1] = x /\ <<x, y>>[2] = y
        BY <1>4
      <4>2. ~(c[1] + c[2] <= <<x, y>>[1] + <<x, y>>[2])
        BY <1>7, <2>1, <3>0, <4>1
      <4> HIDE DEF B
      <4>3. QED
        BY <1>3, <4>2
    <3>3. QED
      BY <3>0, <3>1, <3>2
  <2> HIDE DEF B
  <2>2. /\ Entry(r, h, i - 1, j) <= Entry(r, s, i - 1, q) + e
        /\ Entry(r, h, i, j - 1) <= Entry(r, s, i, q - 1) + e
        /\ Entry(r, h, i - 1, j - 1) <= Entry(r, s, i - 1, q - 1) + e
    <3>1. i - 1 + j < i + j /\ i + (j - 1) < i + j /\ i - 1 + (j - 1) < i + j
      BY <1>7
    <3>2. QED
      BY <2>0, <2>1, <3>1
  <2>3. ~(Entry(r, h, i, j) <= Entry(r, s, i, q) + e)
    BY <1>5
  <2> HIDE DEF q
  <2>4. /\ Entry(r, h, i, j) <= Entry(r, h, i - 1, j) + 1
        /\ Entry(r, h, i, j) <= Entry(r, h, i, j - 1) + 1
        /\ Entry(r, h, i, j) <= Entry(r, h, i - 1, j - 1) + Cost(r, h, i, j)
    BY <1>7, <1>9, Inside
  <2>5. \/ Entry(r, s, i, q) = Entry(r, s, i - 1, q) + 1
        \/ Entry(r, s, i, q) = Entry(r, s, i, q - 1) + 1
        \/ Entry(r, s, i, q) = Entry(r, s, i - 1, q - 1) + Cost(r, s, i, q)
    BY <1>7, <1>9, <2>0, Inside
  <2>6. Cost(r, h, i, j) = Cost(r, s, i, q) /\ Cost(r, h, i, j) \in {0, 1}
    BY <2>0 DEF Cost
  <2>7. /\ Entry(r, h, i, j) \in Nat /\ Entry(r, h, i - 1, j) \in Nat
        /\ Entry(r, h, i, j - 1) \in Nat /\ Entry(r, h, i - 1, j - 1) \in Nat
    <3>1. /\ i - 1 \in 0..Len(r) /\ j - 1 \in 0..Len(h) /\ j \in 0..Len(h)
      BY <1>7, <1>9
    <3>2. QED
      BY <3>1, EntryIsCell
  <2>8. /\ Entry(r, s, i, q) \in Nat /\ Entry(r, s, i - 1, q) \in Nat
        /\ Entry(r, s, i, q - 1) \in Nat /\ Entry(r, s, i - 1, q - 1) \in Nat
    <3>1. /\ i - 1 \in 0..Len(r) /\ q - 1 \in 0..Len(s) /\ q \in 0..Len(s)
      BY <1>7, <1>9, <2>0
    <3>2. QED
      BY <3>1, EntryIsCell
  <2>9. e \in Int
    OBVIOUS
  <2> DEFINE x == Entry(r, h, i, j)
             x1 == Entry(r, h, i - 1, j)
             x2 == Entry(r, h, i, j - 1)
             x3 == Entry(r, h, i - 1, j - 1)
             y == Entry(r, s, i, q)
             y1 == Entry(r, s, i - 1, q)
             y2 == Entry(r, s, i, q - 1)
             y3 == Entry(r, s, i - 1, q - 1)
             k == Cost(r, h, i, j)
  <2>10. /\ k \in {0, 1} /\ x \in Nat /\ x1 \in Nat /\ x2 \in Nat /\ x3 \in Nat
         /\ y \in Nat /\ y1 \in Nat /\ y2 \in Nat /\ y3 \in Nat
         /\ x <= x1 + 1 /\ x <= x2 + 1 /\ x <= x3 + k
         /\ y = y1 + 1 \/ y = y2 + 1 \/ y = y3 + k
         /\ x1 <= y1 + e /\ x2 <= y2 + e /\ x3 <= y3 + e
    BY <2>2, <2>4, <2>5, <2>6, <2>7, <2>8
  <2>11. ~(x <= y + e)
    BY <2>3
  <2> HIDE DEF x, x1, x2, x3, y, y1, y2, y3, k
  <2>12. QED
    BY <2>9, <2>10, <2>11, ThreeWays
<1>10. QED
  BY <1>8, <1>9

(* Texts that begin alike have the same columns there.                     *)
LEMMA SameBeginning ==
  ASSUME NEW r \in Seq(Letters), NEW s \in Seq(Letters), NEW h \in Seq(Letters),
         NEW b \in Nat, b <= Len(s), b <= Len(h), \A j \in 1..b : h[j] = s[j]
  PROVE  \A i \in 0..Len(r), j \in 0..b : Entry(r, h, i, j) = Entry(r, s, i, j)
<1>1. Continues(s, h, 0, 0, b) /\ Continues(h, s, 0, 0, b)
  BY DEF Continues
<1>2. 0 \in {0, 1} /\ 0 <= 0 /\ 0 - 0 = 0
  OBVIOUS
<1>3. \A i \in 0..Len(r) : Entry(r, h, i, 0) = i /\ Entry(r, s, i, 0) = i
  BY Edges
<1>4. /\ \A i \in 0..Len(r) : Entry(r, h, i, 0) <= Entry(r, s, i, 0 - 0) + 0
      /\ \A i \in 0..Len(r) : Entry(r, s, i, 0) <= Entry(r, h, i, 0 - 0) + 0
  BY <1>2, <1>3
<1>5. \A i \in 0..Len(r), j \in 0..b : Entry(r, h, i, j) <= Entry(r, s, i, j - 0) + 0
  BY <1>1, <1>2, <1>4, Shifted
<1>6. \A i \in 0..Len(r), j \in 0..b : Entry(r, s, i, j) <= Entry(r, h, i, j - 0) + 0
  BY <1>1, <1>2, <1>4, Shifted
<1>7. ASSUME NEW i \in 0..Len(r), NEW j \in 0..b
      PROVE  Entry(r, h, i, j) = Entry(r, s, i, j)
  <2>1. j \in 0..Len(h) /\ j \in 0..Len(s) /\ j - 0 = j
    OBVIOUS
  <2>2. Entry(r, h, i, j) \in Nat /\ Entry(r, s, i, j) \in Nat
    BY <2>1, EntryIsCell
  <2>3. QED
    BY <1>5, <1>6, <2>1, <2>2
<1>8. QED
  BY <1>7

(***************************************************************************)
(* One edit of the transcription changes the distance by one at most.      *)
(***************************************************************************)
LEMMA Removed ==
  ASSUME NEW s \in Seq(Letters), NEW k \in DOMAIN s
  PROVE  /\ RemoveAt(s, k) \in Seq(Letters) /\ Len(RemoveAt(s, k)) = Len(s) - 1
         /\ k \in 1..Len(s) /\ Len(s) \in Nat
         /\ \A j \in 1..(k - 1) : RemoveAt(s, k)[j] = s[j]
         /\ \A j \in k..(Len(s) - 1) : RemoveAt(s, k)[j] = s[j + 1]
<1> DEFINE a == SubSeq(s, 1, k - 1)
           b == SubSeq(s, k + 1, Len(s))
<1>1. k \in 1..Len(s) /\ Len(s) \in Nat
  OBVIOUS
<1>2. a \in Seq(Letters) /\ Len(a) = k - 1 /\ \A j \in 1..(k - 1) : a[j] = s[j]
  BY <1>1
<1>3. b \in Seq(Letters) /\ Len(b) = Len(s) - k /\ \A j \in 1..(Len(s) - k) : b[j] = s[j + k]
  BY <1>1
<1>4. RemoveAt(s, k) = a \o b
  BY DEF RemoveAt
<1> HIDE DEF a, b
<1>5. a \o b \in Seq(Letters) /\ Len(a \o b) = Len(s) - 1
  BY <1>1, <1>2, <1>3
<1>6. ASSUME NEW j \in 1..(k - 1) PROVE (a \o b)[j] = s[j]
  BY <1>1, <1>2, <1>3
<1>7. ASSUME NEW j \in k..(Len(s) - 1) PROVE (a \o b)[j] = s[j + 1]
  BY <1>1, <1>2, <1>3
<1>8. QED
  BY <1>1, <1>4, <1>5, <1>6, <1>7

LEMMA LetterRemoved ==
  ASSUME NEW r \in Seq(Letters), NEW s \in Seq(Letters), NEW k \in DOMAIN s
  PROVE  Distance(r, RemoveAt(s, k)) <= Distance(r, s) + 1
<1> DEFINE h == RemoveAt(s, k)
<1>1. /\ h \in Seq(Letters) /\ Len(h) = Len(s) - 1
      /\ k \in 1..Len(s) /\ Len(s) \in Nat /\ Len(r) \in Nat
      /\ \A j \in 1..(k - 1) : h[j] = s[j]
      /\ \A j \in k..(Len(s) - 1) : h[j] = s[j + 1]
  BY Removed
<1> HIDE DEF h
<1>2. Continues(s, h, -1, k - 1, Len(h))
  BY <1>1 DEF Continues
<1>3. ASSUME NEW i \in 0..Len(r)
      PROVE  Entry(r, h, i, k - 1) <= Entry(r, s, i, (k - 1) - (-1)) + 1
  <2>1. Entry(r, h, i, k - 1) = Entry(r, s, i, k - 1)
    <3>1. k - 1 \in Nat /\ k - 1 <= Len(s) /\ k - 1 <= Len(h) /\ k - 1 \in 0..(k - 1)
      BY <1>1
    <3> DEFINE a == k - 1
    <3>2. a \in Nat /\ a <= Len(s) /\ a <= Len(h) /\ \A j \in 1..a : h[j] = s[j]
      BY <1>1
    <3> HIDE DEF a
    <3>3. a \in 0..a /\ Entry(r, h, i, a) = Entry(r, s, i, a)
      BY <1>1, <3>2, SameBeginning
    <3>4. QED
      BY <3>3 DEF a
  <2>2. Entry(r, s, i, k - 1) <= Entry(r, s, i, k) + 1
    BY <1>1, ColumnsAdjacent
  <2>3. (k - 1) - (-1) = k
    BY <1>1
  <2>4. QED
    BY <2>1, <2>2, <2>3
<1>4. \A i \in 0..Len(r), j \in (k - 1)..Len(h) :
         Entry(r, h, i, j) <= Entry(r, s, i, j - (-1)) + 1
  <2> DEFINE a == k - 1
             o == -1
             e == 1
  <2>1. /\ Continues(s, h, o, a, Len(h)) /\ o <= e /\ e \in {0, 1}
        /\ \A i \in 0..Len(r) : Entry(r, h, i, a) <= Entry(r, s, i, a - o) + e
    BY <1>2, <1>3
  <2> HIDE DEF a, o, e
  <2>2. \A i \in 0..Len(r), j \in a..Len(h) :
           Entry(r, h, i, j) <= Entry(r, s, i, j - o) + e
    BY <1>1, <2>1, Shifted
  <2>3. QED
    BY <2>2 DEF a, o, e
<1>5. /\ Len(r) \in 0..Len(r) /\ Len(h) \in (k - 1)..Len(h) /\ Len(h) - (-1) = Len(s)
  BY <1>1
<1>6. Entry(r, h, Len(r), Len(h)) <= Entry(r, s, Len(r), Len(s)) + 1
  BY <1>4, <1>5
<1>7. QED
  BY <1>6 DEF Entry, Distance, h

LEMMA LetterPutIn ==
  ASSUME NEW r \in Seq(Letters), NEW h \in Seq(Letters), NEW k \in DOMAIN h
  PROVE  Distance(r, h) <= Distance(r, RemoveAt(h, k)) + 1
<1> DEFINE s == RemoveAt(h, k)
<1>1. /\ s \in Seq(Letters) /\ Len(s) = Len(h) - 1
      /\ k \in 1..Len(h) /\ Len(h) \in Nat /\ Len(r) \in Nat
      /\ \A j \in 1..(k - 1) : s[j] = h[j]
      /\ \A j \in k..(Len(h) - 1) : s[j] = h[j + 1]
  BY Removed
<1> HIDE DEF s
<1>2. Continues(s, h, 1, k, Len(h))
  <2>1. \A j \in (k + 1)..Len(h) : j - 1 \in k..(Len(h) - 1) /\ (j - 1) + 1 = j
    BY <1>1
  <2>2. \A j \in (k + 1)..Len(h) : h[j] = s[j - 1]
    BY <1>1, <2>1
  <2>3. QED
    BY <1>1, <2>2 DEF Continues
<1>3. ASSUME NEW i \in 0..Len(r)
      PROVE  Entry(r, h, i, k) <= Entry(r, s, i, k - 1) + 1
  <2>1. Entry(r, h, i, k - 1) = Entry(r, s, i, k - 1)
    <3>1. k - 1 \in Nat /\ k - 1 <= Len(s) /\ k - 1 <= Len(h) /\ k - 1 \in 0..(k - 1)
      BY <1>1
    <3>2. \A j \in 1..(k - 1) : h[j] = s[j]
      BY <1>1
    <3>3. \A m \in 0..Len(r), j \in 0..(k - 1) : Entry(r, h, m, j) = Entry(r, s, m, j)
      BY <1>1, <3>1, <3>2, SameBeginning
    <3>4. QED
      BY <3>1, <3>3
  <2>2. CASE i = 0
    <3>1. k \in 0..Len(h) /\ k - 1 \in 0..Len(s)
      BY <1>1
    <3>2. Entry(r, h, i, k) = k /\ Entry(r, s, i, k - 1) = k - 1
      BY <1>1, <2>2, <3>1, Edges
    <3>3. QED
      BY <1>1, <3>2
  <2>3. CASE i # 0
    <3>1. Entry(r, h, i, k) <= Entry(r, h, i, k - 1) + 1
      BY <1>1, <2>3, Inside
    <3>2. QED
      BY <2>1, <3>1
  <2>4. QED
    BY <2>2, <2>3
<1>4. \A i \in 0..Len(r), j \in k..Len(h) : Entry(r, h, i, j) <= Entry(r, s, i, j - 1) + 1
  BY <1>1, <1>2, <1>3, Shifted
<1>5. /\ Len(r) \in 0..Len(r) /\ Len(h) \in k..Len(h) /\ Len(h) - 1 = Len(s)
  BY <1>1
<1>6. Entry(r, h, Len(r), Len(h)) <= Entry(r, s, Len(r), Len(s)) + 1
  BY <1>4, <1>5
<1>7. QED
  BY <1>6 DEF Entry, Distance, s

LEMMA LetterReplaced ==
  ASSUME NEW r \in Seq(Letters), NEW s \in Seq(Letters), NEW h \in Seq(Letters),
         Len(s) = Len(h), NEW k \in 1..Len(h), \A j \in 1..Len(h) : j # k => h[j] = s[j]
  PROVE  Distance(r, h) <= Distance(r, s) + 1
<1>1. /\ Len(h) \in Nat /\ Len(r) \in Nat /\ k \in Nat /\ k - 1 \in Nat
      /\ k - 1 <= Len(s) /\ k - 1 <= Len(h)
      /\ k - 1 \in 0..(k - 1) /\ k - 1 \in 0..Len(h) /\ k - 0 = k /\ k \in 0..Len(h)
  OBVIOUS
<1>2. Continues(s, h, 0, k, Len(h))
  BY <1>1 DEF Continues
<1>3. \A i \in 0..Len(r) : Entry(r, h, i, k - 1) = Entry(r, s, i, k - 1)
  <2>1. \A j \in 1..(k - 1) : h[j] = s[j]
    OBVIOUS
  <2>2. QED
    BY <1>1, <2>1, SameBeginning
<1>4. ASSUME NEW i \in 0..Len(r)
      PROVE  Entry(r, h, i, k) <= Entry(r, s, i, k) + 1
  <2>1. CASE i = 0
    <3>1. Entry(r, h, i, k) = k /\ Entry(r, s, i, k) = k
      BY <1>1, <2>1, Edges
    <3>2. QED
      BY <1>1, <3>1
  <2>2. CASE i # 0
    <3>1. i \in 1..Len(r) /\ i - 1 \in 0..Len(r)
      BY <2>2
    <3> DEFINE x == Entry(r, h, i, k)
               y == Entry(r, s, i, k)
               u == Entry(r, s, i - 1, k - 1)
               v == Entry(r, s, i, k - 1)
               w == Entry(r, s, i - 1, k)
               n == Cost(r, s, i, k)
    <3>2. x <= u + Cost(r, h, i, k) /\ x <= v + 1
      BY <1>3, <3>1, Inside
    <3>3. y = w + 1 \/ y = v + 1 \/ y = u + n
      BY <3>1, Inside
    <3>4. u <= w + 1
      BY <1>1, <3>1, ColumnsAdjacent
    <3>5. /\ x \in Nat /\ y \in Nat /\ u \in Nat /\ v \in Nat /\ w \in Nat
      BY <1>1, <3>1, EntryIsCell
    <3>6. n \in {0, 1} /\ Cost(r, h, i, k) \in {0, 1}
      BY DEF Cost
    <3> HIDE DEF x, y, u, v, w, n
    <3>7. x <= u + 1
      BY <3>2, <3>5, <3>6
    <3>8. x <= y + 1
      BY <3>2, <3>3, <3>4, <3>5, <3>6, <3>7
    <3>9. QED
      BY <3>8 DEF x, y
  <2>3. QED
    BY <2>1, <2>2
<1>5. \A i \in 0..Len(r) : Entry(r, h, i, k) <= Entry(r, s, i, k - 0) + 1
  BY <1>1, <1>4
<1>6. \A i \in 0..Len(r), j \in k..Len(h) : Entry(r, h, i, j) <= Entry(r, s, i, j - 0) + 1
  BY <1>2, <1>5, Shifted
<1>7. Len(r) \in 0..Len(r) /\ Len(h) \in k..Len(h) /\ Len(h) - 0 = Len(s)
  BY <1>1
<1>8. Entry(r, h, Len(r), Len(h)) <= Entry(r, s, Len(r), Len(s)) + 1
  BY <1>6, <1>7
<1>9. QED
  BY <1>8 DEF Entry, Distance

LEMMA OneEditOneMore ==
  ASSUME NEW r \in Seq(Letters), NEW s \in Seq(Letters), NEW h \in Seq(Letters),
         OneEdit(s, h)
  PROVE  Distance(r, h) <= Distance(r, s) + 1
<1>1. CASE Len(s) = Len(h) /\ Cardinality({i \in DOMAIN s : s[i] # h[i]}) = 1
  <2>1. PICK k : {i \in DOMAIN s : s[i] # h[i]} = {k}
    <3>1. IsFiniteSet({i \in DOMAIN s : s[i] # h[i]})
      <4>1. IsFiniteSet(1..Len(s)) /\ DOMAIN s = 1..Len(s)
        BY FS_Interval
      <4>2. QED
        BY <4>1, FS_Subset
    <3>2. QED
      BY <1>1, <3>1, FS_Singleton
  <2>2. k \in 1..Len(h) /\ \A j \in 1..Len(h) : j # k => h[j] = s[j]
    BY <1>1, <2>1
  <2>3. QED
    BY <1>1, <2>2, LetterReplaced
<1>2. CASE \E i \in DOMAIN s : RemoveAt(s, i) = h
  BY <1>2, LetterRemoved
<1>3. CASE \E i \in DOMAIN h : RemoveAt(h, i) = s
  BY <1>3, LetterPutIn
<1>4. QED
  BY <1>1, <1>2, <1>3 DEF OneEdit

(***************************************************************************)
(* The distance is never more than the edits that join two texts.          *)
(***************************************************************************)
LEMMA ToItself ==
  ASSUME NEW r \in Seq(Letters)
  PROVE  Distance(r, r) = 0
<1> DEFINE T == {i \in 0..Len(r) : Entry(r, r, i, i) # 0}
<1>1. T = {}
  <2> SUFFICES ASSUME T # {} PROVE FALSE
    OBVIOUS
  <2>1. T \in SUBSET Nat
    OBVIOUS
  <2>2. PICK i \in T : \A k \in T : i <= k
    <3> HIDE DEF T
    <3>1. QED
      BY <2>1, LeastNumber
  <2>3. i \in 0..Len(r) /\ Entry(r, r, i, i) # 0 /\ 0 \in 0..Len(r)
    OBVIOUS
  <2>4. i # 0
    BY <2>3, Edges
  <2>5. i - 1 \in 0..Len(r) /\ i \in 1..Len(r)
    BY <2>3, <2>4
  <2>6. Entry(r, r, i - 1, i - 1) = 0
    <3>1. i - 1 \notin T
      BY <2>2, <2>5
    <3>2. QED
      BY <2>5, <3>1
  <2>7. Cost(r, r, i, i) = 0
    BY DEF Cost
  <2>8. Entry(r, r, i, i) <= Entry(r, r, i - 1, i - 1) + Cost(r, r, i, i)
    BY <2>5, Inside
  <2>9. Entry(r, r, i, i) \in Nat
    BY <2>3, EntryIsCell
  <2>10. QED
    BY <2>3, <2>6, <2>7, <2>8, <2>9
<1>2. Len(r) \in 0..Len(r)
  OBVIOUS
<1>3. Entry(r, r, Len(r), Len(r)) = 0
  BY <1>1, <1>2
<1>4. QED
  BY <1>3 DEF Distance, Entry

EditMore(R) == {pair \in Texts \X Texts : \E s \in Texts :
                  <<pair[1], s>> \in R /\ OneEdit(s, pair[2])}
JoinedBy(f, n) == IF n = 0 THEN {<<t, t>> : t \in Texts} ELSE EditMore(f[n - 1])

LEMMA JoinedExists ==
  \E f : f = [n \in 0..MaxLength |-> JoinedBy(f, n)]
<1> DEFINE Pairs == SUBSET (Texts \X Texts)
           Filled(f, m) == \A n \in 0..MaxLength : n < m => f[n] = JoinedBy(f, n)
           Bad == {m \in Nat : ~ \E f \in [0..MaxLength -> Pairs] : Filled(f, m)}
<1>1. MaxLength \in Nat
  BY ReportAssumption
<1>2. ASSUME NEW f \in [0..MaxLength -> Pairs], NEW n \in 0..MaxLength
      PROVE  JoinedBy(f, n) \in Pairs
  BY DEF JoinedBy, EditMore
<1>3. Bad = {}
  <2> SUFFICES ASSUME Bad # {} PROVE FALSE
    OBVIOUS
  <2>1. PICK m \in Bad : \A k \in Bad : m <= k
    <3> HIDE DEF Filled
    <3>1. Bad \in SUBSET Nat
      OBVIOUS
    <3> HIDE DEF Bad
    <3>2. QED
      BY <3>1, LeastNumber
  <2>2. m # 0
    <3>1. [n \in 0..MaxLength |-> {}] \in [0..MaxLength -> Pairs]
      OBVIOUS
    <3>2. Filled([n \in 0..MaxLength |-> {}], 0)
      OBVIOUS
    <3>3. QED
      BY <3>1, <3>2
  <2>3. m \in Nat /\ m - 1 \in Nat /\ m - 1 \notin Bad
    <3>1. m \in Nat
      OBVIOUS
    <3> HIDE DEF Bad
    <3>2. QED
      BY <2>1, <2>2, <3>1
  <2>4. PICK f \in [0..MaxLength -> Pairs] : Filled(f, m - 1)
    <3> HIDE DEF Filled
    <3>1. QED
      BY <2>3
  <2> DEFINE g == [n \in 0..MaxLength |-> IF n < m - 1 THEN f[n] ELSE JoinedBy(f, n)]
  <2>5. g \in [0..MaxLength -> Pairs]
    BY <1>2
  <2>6. ASSUME NEW n \in 0..MaxLength, n < m
        PROVE  g[n] = JoinedBy(g, n)
    <3>1. g[n] = JoinedBy(f, n)
      BY <2>4
    <3>2. n # 0 => g[n - 1] = f[n - 1]
      <4>1. n # 0 => n - 1 \in 0..MaxLength /\ n - 1 < m - 1
        BY <1>1, <2>3, <2>6
      <4>2. QED
        BY <4>1
    <3> HIDE DEF g
    <3>3. QED
      BY <3>1, <3>2 DEF JoinedBy
  <2>7. Filled(g, m)
    BY <2>6
  <2>8. QED
    BY <2>1, <2>5, <2>7
<1>4. PICK f \in [0..MaxLength -> Pairs] : Filled(f, MaxLength + 1)
  <2>1. MaxLength + 1 \in Nat
    BY <1>1
  <2>2. MaxLength + 1 \notin Bad
    <3> HIDE DEF Bad
    <3>1. QED
      BY <1>3
  <2> HIDE DEF Filled
  <2>3. QED
    BY <2>1, <2>2
<1>5. \A n \in 0..MaxLength : f[n] = JoinedBy(f, n)
  BY <1>1, <1>4
<1>6. QED
  BY <1>5

LEMMA JoinedSteps ==
  /\ Joined[0] = {<<t, t>> : t \in Texts}
  /\ \A n \in 1..MaxLength : Joined[n] = EditMore(Joined[n - 1])
<1>1. Joined = [n \in 0..MaxLength |-> JoinedBy(Joined, n)]
  BY JoinedExists DEF Joined, JoinedBy, EditMore
<1>2. MaxLength \in Nat
  BY ReportAssumption
<1>3. \A n \in 0..MaxLength : Joined[n] = JoinedBy(Joined, n)
  BY <1>1
<1>4. Joined[0] = {<<t, t>> : t \in Texts}
  <2>1. JoinedBy(Joined, 0) = {<<t, t>> : t \in Texts}
    BY DEF JoinedBy
  <2>2. 0 \in 0..MaxLength
    BY <1>2
  <2>3. QED
    BY <1>3, <2>1, <2>2
<1>5. ASSUME NEW n \in 1..MaxLength PROVE Joined[n] = EditMore(Joined[n - 1])
  <2>1. n \in 0..MaxLength /\ n # 0
    BY <1>2
  <2>2. QED
    BY <1>3, <2>1 DEF JoinedBy
<1>6. QED
  BY <1>4, <1>5

LEMMA TextsAreSeqs ==
  /\ \A t \in Texts : t \in Seq(Letters) /\ Len(t) \in 0..MaxLength
  /\ \A t \in Seq(Letters) : Len(t) <= MaxLength => t \in Texts
<1>1. MaxLength \in Nat
  BY ReportAssumption
<1>2. ASSUME NEW t \in Texts PROVE t \in Seq(Letters) /\ Len(t) \in 0..MaxLength
  <2>1. PICK n \in 0..MaxLength : t \in [1..n -> Letters]
    BY DEF Texts
  <2>2. QED
    BY <1>1, <2>1
<1>3. ASSUME NEW t \in Seq(Letters), Len(t) <= MaxLength PROVE t \in Texts
  <2>1. t \in [1..Len(t) -> Letters] /\ Len(t) \in 0..MaxLength
    BY <1>1, <1>3
  <2>2. QED
    BY <2>1 DEF Texts
<1>4. QED
  BY <1>2, <1>3

LEMMA NoFewerEdits ==
  \A n \in 0..MaxLength, t, u \in Texts : <<t, u>> \in Joined[n] => Distance(t, u) <= n
<1> DEFINE T == {n \in 0..MaxLength : \E t, u \in Texts :
                   <<t, u>> \in Joined[n] /\ ~(Distance(t, u) <= n)}
<1>1. SUFFICES ASSUME T # {} PROVE FALSE
  OBVIOUS
<1>2. PICK n \in T : \A k \in T : n <= k
  <2>1. T \in SUBSET Nat
    OBVIOUS
  <2> HIDE DEF T
  <2>2. QED
    BY <1>1, <2>1, LeastNumber
<1>3. PICK t \in Texts, u \in Texts : <<t, u>> \in Joined[n] /\ ~(Distance(t, u) <= n)
  OBVIOUS
<1>4. n \in 0..MaxLength /\ MaxLength \in Nat
  BY ReportAssumption
<1>5. t \in Seq(Letters) /\ u \in Seq(Letters)
  BY TextsAreSeqs
<1>6. CASE n = 0
  <2>1. t = u
    BY <1>3, <1>6, JoinedSteps
  <2>2. QED
    BY <1>3, <1>5, <1>6, <2>1, ToItself
<1>7. CASE n # 0
  <2>1. n \in 1..MaxLength /\ n - 1 \in 0..MaxLength
    BY <1>4, <1>7
  <2>2. PICK s \in Texts : <<t, s>> \in Joined[n - 1] /\ OneEdit(s, u)
    <3>1. <<t, u>> \in EditMore(Joined[n - 1])
      BY <1>3, <2>1, JoinedSteps
    <3>2. QED
      BY <3>1 DEF EditMore
  <2>3. Distance(t, s) <= n - 1
    <3>1. n - 1 \notin T
      <4> HIDE DEF T
      <4>1. QED
        BY <1>2, <2>1
    <3>2. QED
      BY <2>1, <2>2, <3>1
  <2>4. s \in Seq(Letters)
    BY TextsAreSeqs
  <2>5. Distance(t, u) <= Distance(t, s) + 1
    BY <1>5, <2>2, <2>4, OneEditOneMore
  <2>6. Distance(t, u) \in Nat /\ Distance(t, s) \in Nat
    <3>1. \A w \in Seq(Letters) : Len(w) \in 0..Len(w)
      OBVIOUS
    <3>2. QED
      BY <1>5, <2>4, <3>1, EntryIsCell DEF Distance, Entry
  <2>7. QED
    BY <1>3, <1>4, <2>3, <2>5, <2>6
<1>8. QED
  BY <1>6, <1>7

(***************************************************************************)
(* Edits can be made before a last letter that both texts have.            *)
(***************************************************************************)
LEMMA WithLetter ==
  ASSUME NEW x \in Seq(Letters), NEW a \in Letters
  PROVE  /\ x \o <<a>> \in Seq(Letters) /\ Len(x \o <<a>>) = Len(x) + 1 /\ Len(x) \in Nat
         /\ \A i \in 1..Len(x) : (x \o <<a>>)[i] = x[i]
         /\ (x \o <<a>>)[Len(x) + 1] = a
OBVIOUS

LEMMA LastLetterEdit ==
  ASSUME NEW x \in Seq(Letters), NEW a \in Letters
  PROVE  OneEdit(x \o <<a>>, x) /\ OneEdit(x, x \o <<a>>)
<1> DEFINE y == x \o <<a>>
           k == Len(x) + 1
<1>1. /\ y \in Seq(Letters) /\ Len(y) = k /\ Len(x) \in Nat /\ k \in DOMAIN y
      /\ \A i \in 1..Len(x) : y[i] = x[i]
  BY WithLetter
<1> HIDE DEF y
<1>2. /\ RemoveAt(y, k) \in Seq(Letters) /\ Len(RemoveAt(y, k)) = Len(x)
      /\ \A i \in 1..Len(x) : RemoveAt(y, k)[i] = x[i]
  <2>1. /\ RemoveAt(y, k) \in Seq(Letters) /\ Len(RemoveAt(y, k)) = Len(y) - 1
        /\ \A i \in 1..(k - 1) : RemoveAt(y, k)[i] = y[i]
    BY <1>1, Removed
  <2>2. Len(y) - 1 = Len(x) /\ k - 1 = Len(x)
    BY <1>1
  <2>3. QED
    BY <1>1, <2>1, <2>2
<1>3. RemoveAt(y, k) = x
  BY <1>2, SeqEqual
<1>4. QED
  BY <1>1, <1>3 DEF OneEdit, y

LEMMA LastLetterReplaced ==
  ASSUME NEW x \in Seq(Letters), NEW a \in Letters, NEW b \in Letters, a # b
  PROVE  OneEdit(x \o <<a>>, x \o <<b>>)
<1> DEFINE y == x \o <<a>>
           z == x \o <<b>>
<1>1. /\ y \in Seq(Letters) /\ Len(y) = Len(x) + 1 /\ Len(x) \in Nat
      /\ z \in Seq(Letters) /\ Len(z) = Len(x) + 1
      /\ \A i \in 1..Len(x) : y[i] = x[i] /\ z[i] = x[i]
      /\ y[Len(x) + 1] = a /\ z[Len(x) + 1] = b
  BY WithLetter
<1> HIDE DEF y, z
<1>2. {i \in DOMAIN y : y[i] # z[i]} = {Len(x) + 1}
  <2>1. DOMAIN y = 1..(Len(x) + 1)
    BY <1>1
  <2>2. QED
    BY <1>1, <2>1
<1>3. Cardinality({Len(x) + 1}) = 1
  BY FS_Singleton
<1>4. QED
  BY <1>1, <1>2, <1>3 DEF OneEdit, y, z

LEMMA RemoveBefore ==
  ASSUME NEW x \in Seq(Letters), NEW a \in Letters, NEW k \in DOMAIN x
  PROVE  RemoveAt(x \o <<a>>, k) = RemoveAt(x, k) \o <<a>> /\ k \in DOMAIN (x \o <<a>>)
<1> DEFINE y == x \o <<a>>
           u == RemoveAt(x, k)
           v == RemoveAt(y, k)
           w == u \o <<a>>
<1>1. /\ y \in Seq(Letters) /\ Len(y) = Len(x) + 1 /\ Len(x) \in Nat
      /\ \A i \in 1..Len(x) : y[i] = x[i]
      /\ y[Len(x) + 1] = a
  BY WithLetter
<1>2. k \in 1..Len(x)
  OBVIOUS
<1> HIDE DEF y
<1>3. k \in DOMAIN y
  BY <1>1, <1>2
<1>4. /\ u \in Seq(Letters) /\ Len(u) = Len(x) - 1
      /\ \A j \in 1..(k - 1) : u[j] = x[j]
      /\ \A j \in k..(Len(x) - 1) : u[j] = x[j + 1]
  BY Removed
<1>5. /\ v \in Seq(Letters) /\ Len(v) = Len(y) - 1
      /\ \A j \in 1..(k - 1) : v[j] = y[j]
      /\ \A j \in k..(Len(y) - 1) : v[j] = y[j + 1]
  BY <1>1, <1>3, Removed
<1> HIDE DEF u, v
<1>6. /\ w \in Seq(Letters) /\ Len(w) = Len(u) + 1
      /\ \A i \in 1..Len(u) : w[i] = u[i]
      /\ w[Len(u) + 1] = a
  BY <1>4, WithLetter
<1> HIDE DEF w
<1>7. ASSUME NEW j \in 1..Len(v) PROVE v[j] = w[j]
  <2>1. CASE j \in 1..(k - 1)
    BY <1>1, <1>2, <1>4, <1>5, <1>6, <2>1
  <2>2. CASE j \in k..(Len(x) - 1)
    <3>1. v[j] = y[j + 1] /\ y[j + 1] = x[j + 1]
      BY <1>1, <1>2, <1>5, <2>2
    <3>2. w[j] = u[j] /\ u[j] = x[j + 1]
      BY <1>1, <1>2, <1>4, <1>6, <2>2
    <3>3. QED
      BY <3>1, <3>2
  <2>3. CASE j = Len(x)
    <3>1. v[j] = a
      BY <1>1, <1>2, <1>5, <2>3
    <3>2. w[j] = a
      BY <1>1, <1>4, <1>6, <2>3
    <3>3. QED
      BY <3>1, <3>2
  <2>4. QED
    BY <1>1, <1>2, <1>5, <2>1, <2>2, <2>3
<1>8. Len(v) = Len(w)
  BY <1>1, <1>4, <1>5, <1>6
<1>9. v = w
  BY <1>5, <1>6, <1>7, <1>8, SeqEqual
<1>10. QED
  BY <1>3, <1>9 DEF u, v, w, y

LEMMA EditBeforeLetter ==
  ASSUME NEW x \in Seq(Letters), NEW y \in Seq(Letters), NEW a \in Letters, OneEdit(x, y)
  PROVE  OneEdit(x \o <<a>>, y \o <<a>>)
<1> DEFINE u == x \o <<a>>
           v == y \o <<a>>
<1>1. CASE Len(x) = Len(y) /\ Cardinality({i \in DOMAIN x : x[i] # y[i]}) = 1
  <2>1. /\ u \in Seq(Letters) /\ Len(u) = Len(x) + 1 /\ Len(x) \in Nat
        /\ v \in Seq(Letters) /\ Len(v) = Len(x) + 1
        /\ \A i \in 1..Len(x) : u[i] = x[i] /\ v[i] = y[i]
        /\ u[Len(x) + 1] = a /\ v[Len(x) + 1] = a
    BY <1>1, WithLetter
  <2> HIDE DEF u, v
  <2>2. {i \in DOMAIN u : u[i] # v[i]} = {i \in DOMAIN x : x[i] # y[i]}
    <3>1. DOMAIN u = 1..(Len(x) + 1) /\ DOMAIN x = 1..Len(x)
      BY <2>1
    <3>2. \A i \in 1..(Len(x) + 1) : i \in 1..Len(x) \/ i = Len(x) + 1
      BY <2>1
    <3>3. \A i \in 1..Len(x) : i \in 1..(Len(x) + 1)
      BY <2>1
    <3>4. QED
      BY <2>1, <3>1, <3>2, <3>3
  <2>3. QED
    BY <1>1, <2>1, <2>2 DEF OneEdit, u, v
<1>2. CASE \E k \in DOMAIN x : RemoveAt(x, k) = y
  BY <1>2, RemoveBefore DEF OneEdit
<1>3. CASE \E k \in DOMAIN y : RemoveAt(y, k) = x
  BY <1>3, RemoveBefore DEF OneEdit
<1>4. QED
  BY <1>1, <1>2, <1>3 DEF OneEdit

(***************************************************************************)
(* The distance is reached: n edits lead from x to y and no text on the    *)
(* way is longer than m.                                                   *)
(***************************************************************************)
Leads(w, x, y, n, m) ==
  /\ w[0] = x /\ w[n] = y
  /\ \A k \in 0..n : Len(w[k]) <= m
  /\ \A k \in 1..n : OneEdit(w[k - 1], w[k])
Reaches(x, y, n, m) == \E w \in [0..n -> Seq(Letters)] : Leads(w, x, y, n, m)

LEMMA StayThere ==
  ASSUME NEW x \in Seq(Letters), NEW m \in Nat, Len(x) <= m
  PROVE  Reaches(x, x, 0, m)
<1> DEFINE w == [k \in 0..0 |-> x]
<1>1. w \in [0..0 -> Seq(Letters)]
  OBVIOUS
<1>2. w[0] = x /\ \A k \in 0..0 : w[k] = x
  OBVIOUS
<1> HIDE DEF w
<1>3. Leads(w, x, x, 0, m)
  BY <1>2 DEF Leads
<1>4. QED
  BY <1>1, <1>3 DEF Reaches

LEMMA LongerAllowed ==
  ASSUME NEW x, NEW y, NEW n \in Nat, NEW m \in Nat, NEW l \in Nat, m <= l,
         Reaches(x, y, n, m)
  PROVE  Reaches(x, y, n, l)
<1>1. PICK w \in [0..n -> Seq(Letters)] : Leads(w, x, y, n, m)
  BY DEF Reaches
<1>2. \A k \in 0..n : Len(w[k]) \in Nat /\ Len(w[k]) <= m
  BY <1>1 DEF Leads
<1>3. \A k \in 0..n : Len(w[k]) <= l
  BY <1>2
<1>4. Leads(w, x, y, n, l)
  BY <1>1, <1>3 DEF Leads
<1>5. QED
  BY <1>4 DEF Reaches

LEMMA EditAtEnd ==
  ASSUME NEW x \in Seq(Letters), NEW y \in Seq(Letters), NEW z \in Seq(Letters),
         NEW n \in Nat, NEW m \in Nat, Reaches(x, y, n, m), OneEdit(y, z), Len(z) <= m
  PROVE  Reaches(x, z, n + 1, m)
<1>1. PICK w \in [0..n -> Seq(Letters)] : Leads(w, x, y, n, m)
  BY DEF Reaches
<1> DEFINE v == [k \in 0..(n + 1) |-> IF k = n + 1 THEN z ELSE w[k]]
<1>2. \A k \in 0..(n + 1) : k # n + 1 => k \in 0..n
  OBVIOUS
<1>3. v \in [0..(n + 1) -> Seq(Letters)]
  BY <1>2
<1>4. /\ \A k \in 0..n : v[k] = w[k]
      /\ v[n + 1] = z
  OBVIOUS
<1> HIDE DEF v
<1>5. v[0] = x /\ v[n] = y
  BY <1>1, <1>4 DEF Leads
<1>6. \A k \in 0..(n + 1) : Len(v[k]) <= m
  BY <1>1, <1>2, <1>4 DEF Leads
<1>7. ASSUME NEW k \in 1..(n + 1) PROVE OneEdit(v[k - 1], v[k])
  <2>1. CASE k = n + 1
    <3>1. k - 1 = n
      BY <2>1
    <3>2. QED
      BY <1>4, <1>5, <2>1, <3>1
  <2>2. CASE k # n + 1
    <3>1. k \in 1..n /\ k \in 0..n /\ k - 1 \in 0..n
      BY <2>2
    <3>2. OneEdit(w[k - 1], w[k])
      BY <1>1, <3>1 DEF Leads
    <3>3. QED
      BY <1>4, <3>1, <3>2
  <2>3. QED
    BY <2>1, <2>2
<1>8. Leads(v, x, z, n + 1, m)
  BY <1>4, <1>5, <1>6, <1>7 DEF Leads
<1>9. QED
  BY <1>3, <1>8 DEF Reaches

LEMMA EditAtBeginning ==
  ASSUME NEW x \in Seq(Letters), NEW y \in Seq(Letters), NEW z \in Seq(Letters),
         NEW n \in Nat, NEW m \in Nat, Reaches(x, y, n, m), OneEdit(z, x), Len(z) <= m
  PROVE  Reaches(z, y, n + 1, m)
<1>1. PICK w \in [0..n -> Seq(Letters)] : Leads(w, x, y, n, m)
  BY DEF Reaches
<1> DEFINE v == [k \in 0..(n + 1) |-> IF k = 0 THEN z ELSE w[k - 1]]
<1>2. \A k \in 0..(n + 1) : k # 0 => k - 1 \in 0..n
  OBVIOUS
<1>3. v \in [0..(n + 1) -> Seq(Letters)]
  BY <1>2
<1>4. /\ \A k \in 1..(n + 1) : v[k] = w[k - 1]
      /\ v[0] = z
  OBVIOUS
<1> HIDE DEF v
<1>5. v[1] = x /\ v[n + 1] = y
  <2>1. 1 \in 1..(n + 1) /\ n + 1 \in 1..(n + 1) /\ 1 - 1 = 0 /\ (n + 1) - 1 = n
    OBVIOUS
  <2>2. v[1] = w[1 - 1] /\ v[n + 1] = w[(n + 1) - 1]
    BY <1>4, <2>1
  <2>3. QED
    BY <1>1, <2>1, <2>2 DEF Leads
<1>6. ASSUME NEW k \in 0..(n + 1) PROVE Len(v[k]) <= m
  <2>1. CASE k = 0
    BY <1>4, <2>1
  <2>2. CASE k # 0
    <3>1. k \in 1..(n + 1) /\ k - 1 \in 0..n
      BY <2>2
    <3>2. QED
      BY <1>1, <1>4, <3>1 DEF Leads
  <2>3. QED
    BY <2>1, <2>2
<1>7. ASSUME NEW k \in 1..(n + 1) PROVE OneEdit(v[k - 1], v[k])
  <2>1. CASE k = 1
    BY <1>4, <1>5, <2>1
  <2>2. CASE k # 1
    <3>1. k - 1 \in 1..n /\ k - 1 \in 1..(n + 1)
      BY <2>2
    <3>2. OneEdit(w[(k - 1) - 1], w[k - 1])
      BY <1>1, <3>1 DEF Leads
    <3>3. v[k - 1] = w[(k - 1) - 1] /\ v[k] = w[k - 1]
      BY <1>4, <3>1
    <3>4. QED
      BY <3>2, <3>3
  <2>3. QED
    BY <2>1, <2>2
<1>8. Leads(v, z, y, n + 1, m)
  BY <1>4, <1>5, <1>6, <1>7 DEF Leads
<1>9. QED
  BY <1>3, <1>8 DEF Reaches

LEMMA BothWithLetter ==
  ASSUME NEW x \in Seq(Letters), NEW y \in Seq(Letters), NEW a \in Letters,
         NEW n \in Nat, NEW m \in Nat, Reaches(x, y, n, m)
  PROVE  Reaches(x \o <<a>>, y \o <<a>>, n, m + 1)
<1>1. PICK w \in [0..n -> Seq(Letters)] : Leads(w, x, y, n, m)
  BY DEF Reaches
<1> DEFINE v == [k \in 0..n |-> w[k] \o <<a>>]
<1>2. \A k \in 0..n : /\ w[k] \in Seq(Letters) /\ w[k] \o <<a>> \in Seq(Letters)
                      /\ Len(w[k] \o <<a>>) = Len(w[k]) + 1 /\ Len(w[k]) \in Nat
  BY WithLetter
<1>3. v \in [0..n -> Seq(Letters)] /\ \A k \in 0..n : v[k] = w[k] \o <<a>>
  BY <1>2
<1> HIDE DEF v
<1>4. v[0] = x \o <<a>> /\ v[n] = y \o <<a>>
  BY <1>1, <1>3 DEF Leads
<1>5. ASSUME NEW k \in 0..n PROVE Len(v[k]) <= m + 1
  <2>1. Len(w[k]) <= m
    BY <1>1 DEF Leads
  <2>2. QED
    BY <1>2, <1>3, <2>1
<1>6. ASSUME NEW k \in 1..n PROVE OneEdit(v[k - 1], v[k])
  <2>1. k \in 0..n /\ k - 1 \in 0..n
    OBVIOUS
  <2>2. OneEdit(w[k - 1], w[k])
    BY <1>1 DEF Leads
  <2>3. OneEdit(w[k - 1] \o <<a>>, w[k] \o <<a>>)
    BY <1>2, <2>1, <2>2, EditBeforeLetter
  <2>4. QED
    BY <1>3, <2>1, <2>3
<1>7. Leads(v, x \o <<a>>, y \o <<a>>, n, m + 1)
  BY <1>4, <1>5, <1>6 DEF Leads
<1>8. QED
  BY <1>3, <1>7 DEF Reaches

(* What the texts of the bound reach in as many edits, Joined has joined.  *)
LEMMA ReachedIsJoined ==
  ASSUME NEW x \in Seq(Letters), NEW y \in Seq(Letters), NEW n \in 0..MaxLength,
         Reaches(x, y, n, MaxLength)
  PROVE  <<x, y>> \in Joined[n]
<1>1. PICK w \in [0..n -> Seq(Letters)] : Leads(w, x, y, n, MaxLength)
  BY DEF Reaches
<1>2. MaxLength \in Nat /\ n \in Nat
  BY ReportAssumption
<1>3. \A k \in 0..n : w[k] \in Texts
  BY <1>1, TextsAreSeqs DEF Leads
<1> DEFINE T == {k \in 0..n : ~(<<x, w[k]>> \in Joined[k])}
<1>4. T = {}
  <2> SUFFICES ASSUME T # {} PROVE FALSE
    OBVIOUS
  <2>1. PICK k \in T : \A l \in T : k <= l
    <3>1. T \in SUBSET Nat
      OBVIOUS
    <3> HIDE DEF T
    <3>2. QED
      BY <3>1, LeastNumber
  <2>2. k \in 0..n /\ ~(<<x, w[k]>> \in Joined[k])
    OBVIOUS
  <2>3. x \in Texts /\ w[0] = x
    BY <1>1, <1>2, <1>3 DEF Leads
  <2>4. k # 0
    BY <2>2, <2>3, JoinedSteps
  <2>5. k \in 1..n /\ k - 1 \in 0..n /\ k \in 1..MaxLength
    BY <1>2, <2>2, <2>4
  <2>6. <<x, w[k - 1]>> \in Joined[k - 1]
    <3>1. k - 1 \notin T
      <4>1. ~(k <= k - 1)
        BY <2>5
      <4> HIDE DEF T
      <4>2. QED
        BY <2>1, <4>1
    <3>2. QED
      BY <2>5, <3>1
  <2>7. OneEdit(w[k - 1], w[k])
    BY <1>1, <2>5 DEF Leads
  <2>8. <<x, w[k]>> \in EditMore(Joined[k - 1])
    <3>1. w[k - 1] \in Texts /\ w[k] \in Texts
      BY <1>3, <2>2, <2>5
    <3>2. QED
      BY <2>3, <2>6, <2>7, <3>1 DEF EditMore
  <2>9. QED
    BY <2>2, <2>5, <2>8, JoinedSteps
<1>5. n \in 0..n /\ w[n] = y
  BY <1>1, <1>2 DEF Leads
<1>6. QED
  BY <1>4, <1>5

(***************************************************************************)
(* Every cell counts edits that lead from the beginning of the one text to *)
(* that of the other, over texts not longer than the longer of them.       *)
(***************************************************************************)
Beginning(t, i) == SubSeq(t, 1, i)
Higher(i, j) == IF i > j THEN i ELSE j
CellReached(r, h, i, j) ==
  /\ Reaches(Beginning(r, i), Beginning(h, j), Entry(r, h, i, j), Higher(i, j))
  /\ Entry(r, h, i, j) <= Higher(i, j)

LEMMA Beginnings ==
  ASSUME NEW t \in Seq(Letters), NEW i \in 0..Len(t)
  PROVE  /\ Beginning(t, i) \in Seq(Letters) /\ Len(Beginning(t, i)) = i
         /\ i # 0 => Beginning(t, i) = Beginning(t, i - 1) \o <<t[i]>> /\ t[i] \in Letters
<1>1. /\ SubSeq(t, 1, i) \in Seq(Letters) /\ Len(SubSeq(t, 1, i)) = i
  BY SubSeqProperties, ElementOfSeq
<1>2. ASSUME i # 0 PROVE SubSeq(t, 1, i) = SubSeq(t, 1, i - 1) \o <<t[i]>> /\ t[i] \in Letters
  <2>1. 1 \in 1..Len(t) /\ i \in 1..Len(t)
    BY <1>2
  <2>2. QED
    BY <2>1, SubSeqRecursiveSecond, ElementOfSeq
<1>3. QED
  BY <1>1, <1>2 DEF Beginning

LEMMA ReachedByInsertion ==
  ASSUME NEW r \in Seq(Letters), NEW h \in Seq(Letters),
         NEW i \in 0..Len(r), NEW j \in 1..Len(h), CellReached(r, h, i, j - 1),
         Entry(r, h, i, j) = Entry(r, h, i, j - 1) + 1
  PROVE  Reaches(Beginning(r, i), Beginning(h, j), Entry(r, h, i, j), Higher(i, j))
<1> DEFINE x == Beginning(r, i)
           y == Beginning(h, j - 1)
           z == Beginning(h, j)
           n == Entry(r, h, i, j - 1)
           m == Higher(i, j)
<1>1. j \in 0..Len(h) /\ j - 1 \in 0..Len(h) /\ j # 0 /\ i \in Nat /\ j \in Nat
  OBVIOUS
<1>2. /\ x \in Seq(Letters) /\ y \in Seq(Letters) /\ z \in Seq(Letters) /\ Len(z) = j
      /\ z = y \o <<h[j]>> /\ h[j] \in Letters
  BY <1>1, Beginnings
<1>3. n \in Nat
  BY <1>1, EntryIsCell
<1>4. /\ Higher(i, j - 1) \in Nat /\ m \in Nat /\ Higher(i, j - 1) <= m /\ j <= m
  BY <1>1 DEF Higher
<1>5. Reaches(x, y, n, m)
  <2>1. Reaches(x, y, n, Higher(i, j - 1))
    BY DEF CellReached
  <2> HIDE DEF x, y, n, m
  <2>2. QED
    BY <1>3, <1>4, <2>1, LongerAllowed
<1>6. OneEdit(y, z)
  <2> HIDE DEF y, z
  <2>1. QED
    BY <1>2, LastLetterEdit
<1>7. Reaches(x, z, n + 1, m)
  <2> HIDE DEF x, y, z, n, m
  <2>1. QED
    BY <1>2, <1>3, <1>4, <1>5, <1>6, EditAtEnd
<1>8. QED
  BY <1>7

LEMMA ReachedByDeletion ==
  ASSUME NEW r \in Seq(Letters), NEW h \in Seq(Letters),
         NEW i \in 1..Len(r), NEW j \in 0..Len(h), CellReached(r, h, i - 1, j),
         Entry(r, h, i, j) = Entry(r, h, i - 1, j) + 1
  PROVE  Reaches(Beginning(r, i), Beginning(h, j), Entry(r, h, i, j), Higher(i, j))
<1> DEFINE x == Beginning(r, i - 1)
           y == Beginning(h, j)
           z == Beginning(r, i)
           n == Entry(r, h, i - 1, j)
           m == Higher(i, j)
<1>1. i \in 0..Len(r) /\ i - 1 \in 0..Len(r) /\ i # 0 /\ i \in Nat /\ j \in Nat
  OBVIOUS
<1>2. /\ x \in Seq(Letters) /\ y \in Seq(Letters) /\ z \in Seq(Letters) /\ Len(z) = i
      /\ z = x \o <<r[i]>> /\ r[i] \in Letters
  BY <1>1, Beginnings
<1>3. n \in Nat
  BY <1>1, EntryIsCell
<1>4. /\ Higher(i - 1, j) \in Nat /\ m \in Nat /\ Higher(i - 1, j) <= m /\ i <= m
  BY <1>1 DEF Higher
<1>5. Reaches(x, y, n, m)
  <2>1. Reaches(x, y, n, Higher(i - 1, j))
    BY DEF CellReached
  <2> HIDE DEF x, y, n, m
  <2>2. QED
    BY <1>3, <1>4, <2>1, LongerAllowed
<1>6. OneEdit(z, x)
  <2> HIDE DEF x, z
  <2>1. QED
    BY <1>2, LastLetterEdit
<1>7. Reaches(z, y, n + 1, m)
  <2> HIDE DEF x, y, z, n, m
  <2>1. QED
    BY <1>2, <1>3, <1>4, <1>5, <1>6, EditAtBeginning
<1>8. QED
  BY <1>7

LEMMA ReachedByLetter ==
  ASSUME NEW r \in Seq(Letters), NEW h \in Seq(Letters),
         NEW i \in 1..Len(r), NEW j \in 1..Len(h), CellReached(r, h, i - 1, j - 1),
         Entry(r, h, i, j) = Entry(r, h, i - 1, j - 1) + Cost(r, h, i, j)
  PROVE  Reaches(Beginning(r, i), Beginning(h, j), Entry(r, h, i, j), Higher(i, j))
<1> DEFINE x == Beginning(r, i - 1)
           y == Beginning(h, j - 1)
           n == Entry(r, h, i - 1, j - 1)
           m == Higher(i - 1, j - 1)
           a == r[i]
           b == h[j]
<1>1. /\ i \in 0..Len(r) /\ i - 1 \in 0..Len(r) /\ i # 0 /\ i \in Nat
      /\ j \in 0..Len(h) /\ j - 1 \in 0..Len(h) /\ j # 0 /\ j \in Nat
  OBVIOUS
<1>2. /\ x \in Seq(Letters) /\ y \in Seq(Letters) /\ Len(y) = j - 1
      /\ a \in Letters /\ b \in Letters
      /\ Beginning(r, i) = x \o <<a>> /\ Beginning(h, j) = y \o <<b>>
  BY <1>1, Beginnings
<1>3. n \in Nat
  BY <1>1, EntryIsCell
<1>4. m \in Nat /\ m + 1 = Higher(i, j) /\ j <= m + 1
  BY <1>1 DEF Higher
<1>5. Reaches(x, y, n, m)
  BY DEF CellReached
<1>6. Entry(r, h, i, j) = n + (IF a = b THEN 0 ELSE 1)
  BY DEF Cost
<1> HIDE DEF x, y, n, m, a, b
<1>7. Reaches(x \o <<a>>, y \o <<a>>, n, m + 1)
  BY <1>2, <1>3, <1>4, <1>5, BothWithLetter
<1>8. CASE a = b
  <2>1. Entry(r, h, i, j) = n
    BY <1>3, <1>6, <1>8
  <2>2. QED
    BY <1>2, <1>4, <1>7, <1>8, <2>1
<1>9. CASE a # b
  <2>1. OneEdit(y \o <<a>>, y \o <<b>>)
    BY <1>2, <1>9, LastLetterReplaced
  <2>2. /\ x \o <<a>> \in Seq(Letters) /\ y \o <<a>> \in Seq(Letters)
        /\ y \o <<b>> \in Seq(Letters) /\ Len(y \o <<b>>) <= m + 1 /\ m + 1 \in Nat
    BY <1>1, <1>2, <1>4, WithLetter
  <2>3. Reaches(x \o <<a>>, y \o <<b>>, n + 1, m + 1)
    BY <1>3, <1>7, <2>1, <2>2, EditAtEnd
  <2>4. Entry(r, h, i, j) = n + 1
    BY <1>6, <1>9
  <2>5. QED
    BY <1>2, <1>4, <2>3, <2>4
<1>10. QED
  BY <1>8, <1>9

LEMMA EveryCellReached ==
  ASSUME NEW r \in Seq(Letters), NEW h \in Seq(Letters)
  PROVE  \A i \in 0..Len(r), j \in 0..Len(h) : CellReached(r, h, i, j)
<1> DEFINE B == {c \in Cells(r, h) : ~CellReached(r, h, c[1], c[2])}
<1>1. SUFFICES ASSUME B # {} PROVE FALSE
  <2> SUFFICES ASSUME NEW i \in 0..Len(r), NEW j \in 0..Len(h), B = {}
               PROVE  CellReached(r, h, i, j)
    OBVIOUS
  <2>1. <<i, j>> \in Cells(r, h)
    BY DEF Cells
  <2>2. <<i, j>> \notin B
    OBVIOUS
  <2>3. QED
    BY <2>1, <2>2
<1>2. B \in SUBSET Cells(r, h)
  OBVIOUS
<1>3. PICK c \in B : \A b \in B : c[1] + c[2] <= b[1] + b[2]
  <2> HIDE DEF B
  <2>1. QED
    BY <1>1, <1>2, NearestCell
<1>4. PICK i \in 0..Len(r), j \in 0..Len(h) : c = <<i, j>>
  BY DEF Cells
<1>5. ~CellReached(r, h, i, j)
  BY <1>4
<1>6. ASSUME NEW x \in 0..Len(r), NEW y \in 0..Len(h), x + y < i + j
      PROVE  CellReached(r, h, x, y)
  <2>1. <<x, y>> \in Cells(r, h)
    BY DEF Cells
  <2>2. <<x, y>> \notin B
    <3>1. c[1] = i /\ c[2] = j /\ <<x, y>>[1] = x /\ <<x, y>>[2] = y
      BY <1>4
    <3>2. ~(c[1] + c[2] <= <<x, y>>[1] + <<x, y>>[2])
      BY <1>6, <3>1
    <3> HIDE DEF B
    <3>3. QED
      BY <1>3, <3>2
  <2>3. QED
    BY <2>1, <2>2
<1> HIDE DEF B
<1>7. /\ Entry(r, h, i, j) \in Nat /\ i \in Nat /\ j \in Nat
      /\ 0 \in 0..Len(r) /\ 0 \in 0..Len(h)
  BY EntryIsCell
<1>8. Entry(r, h, i, j) <= Higher(i, j)
  <2>1. CASE i = 0 \/ j = 0
    BY <1>7, <2>1, Edges DEF Higher
  <2>2. CASE i # 0 /\ j # 0
    <3>1. /\ i \in 1..Len(r) /\ j \in 1..Len(h)
          /\ i - 1 \in 0..Len(r) /\ j - 1 \in 0..Len(h) /\ (i - 1) + (j - 1) < i + j
      BY <2>2
    <3>2. CellReached(r, h, i - 1, j - 1)
      BY <1>6, <3>1
    <3>3. Entry(r, h, i - 1, j - 1) <= Higher(i - 1, j - 1)
      BY <3>2 DEF CellReached
    <3>4. Entry(r, h, i, j) <= Entry(r, h, i - 1, j - 1) + Cost(r, h, i, j)
      BY <3>1, Inside
    <3>5. Cost(r, h, i, j) \in {0, 1} /\ Entry(r, h, i - 1, j - 1) \in Nat
      BY <3>1, EntryIsCell DEF Cost
    <3>6. Higher(i, j) = Higher(i - 1, j - 1) + 1 /\ Higher(i - 1, j - 1) \in Nat
      BY <3>1 DEF Higher
    <3>7. QED
      BY <1>7, <3>3, <3>4, <3>5, <3>6
  <2>3. QED
    BY <2>1, <2>2
<1>9. Reaches(Beginning(r, i), Beginning(h, j), Entry(r, h, i, j), Higher(i, j))
  <2>1. CASE i = 0 /\ j = 0
    <3>1. Entry(r, h, 0, 0) = 0 /\ Higher(0, 0) = 0
      BY <1>7, Edges DEF Higher
    <3>2. Beginning(r, 0) = <<>> /\ Beginning(h, 0) = <<>>
      BY SubSeqEmpty DEF Beginning
    <3>3. <<>> \in Seq(Letters) /\ Len(<<>>) <= 0 /\ 0 \in Nat
      OBVIOUS
    <3>4. Reaches(<<>>, <<>>, 0, 0)
      BY <3>3, StayThere
    <3>5. QED
      BY <2>1, <3>1, <3>2, <3>4
  <2>2. ASSUME j # 0, Entry(r, h, i, j) = Entry(r, h, i, j - 1) + 1
        PROVE  Reaches(Beginning(r, i), Beginning(h, j), Entry(r, h, i, j), Higher(i, j))
    <3>1. j \in 1..Len(h) /\ j - 1 \in 0..Len(h) /\ i + (j - 1) < i + j
      BY <2>2
    <3>2. CellReached(r, h, i, j - 1)
      BY <1>6, <3>1
    <3>3. QED
      BY <2>2, <3>1, <3>2, ReachedByInsertion
  <2>3. ASSUME i # 0, Entry(r, h, i, j) = Entry(r, h, i - 1, j) + 1
        PROVE  Reaches(Beginning(r, i), Beginning(h, j), Entry(r, h, i, j), Higher(i, j))
    <3>1. i \in 1..Len(r) /\ i - 1 \in 0..Len(r) /\ (i - 1) + j < i + j
      BY <2>3
    <3>2. CellReached(r, h, i - 1, j)
      BY <1>6, <3>1
    <3>3. QED
      BY <2>3, <3>1, <3>2, ReachedByDeletion
  <2>4. ASSUME i # 0, j # 0,
               Entry(r, h, i, j) = Entry(r, h, i - 1, j - 1) + Cost(r, h, i, j)
        PROVE  Reaches(Beginning(r, i), Beginning(h, j), Entry(r, h, i, j), Higher(i, j))
    <3>1. /\ i \in 1..Len(r) /\ j \in 1..Len(h)
          /\ i - 1 \in 0..Len(r) /\ j - 1 \in 0..Len(h) /\ (i - 1) + (j - 1) < i + j
      BY <2>4
    <3>2. CellReached(r, h, i - 1, j - 1)
      BY <1>6, <3>1
    <3>3. QED
      BY <2>4, <3>1, <3>2, ReachedByLetter
  <2>5. CASE i = 0 /\ j # 0
    <3>1. j - 1 \in 0..Len(h)
      BY <2>5
    <3>2. Entry(r, h, i, j) = j /\ Entry(r, h, i, j - 1) = j - 1
      BY <2>5, <3>1, Edges
    <3>3. QED
      BY <1>7, <2>2, <2>5, <3>2
  <2>6. CASE i # 0 /\ j = 0
    <3>1. i - 1 \in 0..Len(r)
      BY <2>6
    <3>2. Entry(r, h, i, j) = i /\ Entry(r, h, i - 1, j) = i - 1
      BY <2>6, <3>1, Edges
    <3>3. QED
      BY <1>7, <2>3, <2>6, <3>2
  <2>7. CASE i # 0 /\ j # 0
    <3>1. i \in 1..Len(r) /\ j \in 1..Len(h)
      BY <2>7
    <3>2. \/ Entry(r, h, i, j) = Entry(r, h, i - 1, j) + 1
          \/ Entry(r, h, i, j) = Entry(r, h, i, j - 1) + 1
          \/ Entry(r, h, i, j) = Entry(r, h, i - 1, j - 1) + Cost(r, h, i, j)
      BY <3>1, Inside
    <3>3. QED
      BY <2>2, <2>3, <2>4, <2>7, <3>2
  <2>8. QED
    BY <2>1, <2>5, <2>6, <2>7
<1>10. QED
  BY <1>5, <1>8, <1>9 DEF CellReached

LEMMA DistanceIsEditDistance ==
  ASSUME NEW t \in Texts, NEW u \in Texts
  PROVE  EditDistance(t, u) = Distance(t, u) /\ Distance(t, u) \in Nat
<1> DEFINE n == Distance(t, u)
           S == {k \in 0..MaxLength : <<t, u>> \in Joined[k]}
<1>1. /\ t \in Seq(Letters) /\ u \in Seq(Letters) /\ MaxLength \in Nat
      /\ Len(t) \in 0..MaxLength /\ Len(u) \in 0..MaxLength
  BY TextsAreSeqs, ReportAssumption
<1>2. Len(t) \in 0..Len(t) /\ Len(u) \in 0..Len(u)
  BY <1>1
<1>3. n = Entry(t, u, Len(t), Len(u)) /\ n \in Nat
  BY <1>1, <1>2, EntryIsCell DEF Distance, Entry
<1>4. CellReached(t, u, Len(t), Len(u))
  BY <1>1, <1>2, EveryCellReached
<1>5. Beginning(t, Len(t)) = t /\ Beginning(u, Len(u)) = u
  BY <1>1, SubSeqFull DEF Beginning
<1>6. /\ Higher(Len(t), Len(u)) \in Nat /\ Higher(Len(t), Len(u)) <= MaxLength
  BY <1>1 DEF Higher
<1> HIDE DEF n
<1>7. n \in 0..MaxLength /\ Reaches(t, u, n, Higher(Len(t), Len(u)))
  BY <1>1, <1>3, <1>4, <1>5, <1>6 DEF CellReached
<1>8. <<t, u>> \in Joined[n]
  BY <1>1, <1>3, <1>6, <1>7, LongerAllowed, ReachedIsJoined
<1>9. n \in S /\ \A k \in S : n <= k
  BY <1>7, <1>8, NoFewerEdits DEF n
<1>10. \A k \in S : k \in Nat
  OBVIOUS
<1> HIDE DEF S
<1>11. Min(S) = n
  <2>1. \A k \in S : (\A l \in S : k <= l) => k = n
    BY <1>3, <1>9, <1>10
  <2>2. QED
    BY <1>9, <2>1 DEF Min
<1>12. QED
  BY <1>3, <1>11 DEF EditDistance, S, n

(***************************************************************************)
(* Finitely many things can be put in the order of their values.           *)
(***************************************************************************)
Ascending(o, value) ==
  \A k, l \in DOMAIN o : k < l => value[o[k]] <= value[o[l]]

Sortable(I, n, value) == \E o \in Bijection(1..n, I) : Ascending(o, value)

LEMMA AppendToBijection ==
  ASSUME NEW n \in Nat \ {0}, NEW I, NEW m \in I, NEW o \in Bijection(1..(n - 1), I \ {m})
  PROVE  [k \in 1..n |-> IF k = n THEN m ELSE o[k]] \in Bijection(1..n, I)
<1> DEFINE p == [k \in 1..n |-> IF k = n THEN m ELSE o[k]]
<1>1. /\ o \in [1..(n - 1) -> I \ {m}]
      /\ \A a, b \in 1..(n - 1) : o[a] = o[b] => a = b
      /\ \A t \in I \ {m} : \E s \in 1..(n - 1) : o[s] = t
  BY DEF Bijection, Injection, Surjection, IsInjective
<1>2. p \in [1..n -> I]
  BY <1>1
<1>3. \A a, b \in 1..n : p[a] = p[b] => a = b
  BY <1>1
<1>4. \A t \in I : \E s \in 1..n : p[s] = t
  <2> SUFFICES ASSUME NEW t \in I PROVE \E s \in 1..n : p[s] = t
    OBVIOUS
  <2>1. CASE t = m
    BY <2>1
  <2>2. CASE t # m
    <3>1. PICK s \in 1..(n - 1) : o[s] = t
      BY <1>1, <2>2
    <3>2. s \in 1..n /\ p[s] = t
      BY <3>1
    <3>3. QED
      BY <3>2
  <2>3. QED
    BY <2>1, <2>2
<1>5. QED
  BY <1>2, <1>3, <1>4 DEF Bijection, Injection, Surjection, IsInjective

LEMMA SortedExists ==
  ASSUME NEW D, NEW value \in [D -> Int]
  PROVE  \A n \in Nat : \A I \in SUBSET D :
            IsFiniteSet(I) /\ Cardinality(I) = n => Sortable(I, n, value)
<1> DEFINE Fine(n) == \A I \in SUBSET D :
                        IsFiniteSet(I) /\ Cardinality(I) = n => Sortable(I, n, value)
           Bad == {n \in Nat : ~Fine(n)}
<1>1. SUFFICES ASSUME Bad # {} PROVE FALSE
  OBVIOUS
<1>2. PICK n \in Nat : ~Fine(n) /\ \A k \in Bad : n <= k
  <2> HIDE DEF Fine
  <2>1. PICK n \in Bad : \A k \in Bad : n <= k
    BY <1>1, LeastNumber
  <2>2. QED
    BY <2>1
<1>3. \A k \in Nat : k < n => Fine(k)
  <2> HIDE DEF Fine
  <2>1. QED
    BY <1>2
<1>4. PICK I \in SUBSET D : IsFiniteSet(I) /\ Cardinality(I) = n /\ ~Sortable(I, n, value)
  BY <1>2
<1>5. n # 0
  <2> SUFFICES ASSUME n = 0 PROVE FALSE
    OBVIOUS
  <2>1. I = {}
    BY <1>4, FS_EmptySet
  <2>2. <<>> \in Bijection(1..0, {}) /\ DOMAIN <<>> = {}
    BY DEF Bijection, Injection, Surjection, IsInjective
  <2>3. QED
    BY <1>4, <2>1, <2>2 DEF Sortable, Ascending
<1>6. \A x \in I : Sortable(I \ {x}, n - 1, value)
  <2> SUFFICES ASSUME NEW x \in I PROVE Sortable(I \ {x}, n - 1, value)
    OBVIOUS
  <2>1. IsFiniteSet(I \ {x}) /\ Cardinality(I \ {x}) = n - 1
    BY <1>4, FS_RemoveElement
  <2>2. Fine(n - 1)
    <3> HIDE DEF Fine
    <3>1. QED
      BY <1>3, <1>5
  <2>3. QED
    BY <2>1, <2>2
<1>7. PICK m \in I : \A x \in I : value[x] <= value[m]
  <2>1. PICK x \in I : TRUE
    BY <1>4, <1>5, FS_EmptySet
  <2>2. PICK o \in Bijection(1..(n - 1), I \ {x}) : Ascending(o, value)
    BY <1>6 DEF Sortable
  <2>3. /\ o \in [1..(n - 1) -> I \ {x}]
        /\ \A t \in I \ {x} : \E s \in 1..(n - 1) : o[s] = t
    BY DEF Bijection, Injection, Surjection
  <2>4. \A y \in I : value[y] \in Int
    OBVIOUS
  <2>5. CASE n = 1
    <3>1. I = {x}
      BY <2>3, <2>5
    <3>2. QED
      BY <2>4, <3>1
  <2>6. CASE n # 1
    <3>1. n - 1 \in 1..(n - 1) /\ o[n - 1] \in I
      BY <1>5, <2>3, <2>6
    <3>2. \A t \in I \ {x} : value[t] <= value[o[n - 1]]
      <4> SUFFICES ASSUME NEW t \in I \ {x} PROVE value[t] <= value[o[n - 1]]
        OBVIOUS
      <4>1. PICK s \in 1..(n - 1) : o[s] = t
        BY <2>3
      <4>2. CASE s = n - 1
        BY <2>4, <4>1, <4>2
      <4>3. CASE s < n - 1
        BY <2>2, <2>3, <3>1, <4>1, <4>3 DEF Ascending
      <4>4. QED
        BY <4>1, <4>2, <4>3
    <3>3. CASE value[x] <= value[o[n - 1]]
      BY <3>1, <3>2, <3>3
    <3>4. CASE value[o[n - 1]] <= value[x]
      BY <2>4, <3>1, <3>2, <3>4
    <3>5. QED
      BY <2>4, <3>1, <3>3, <3>4
  <2>7. QED
    BY <2>5, <2>6
<1>8. PICK o \in Bijection(1..(n - 1), I \ {m}) : Ascending(o, value)
  BY <1>6 DEF Sortable
<1> DEFINE p == [k \in 1..n |-> IF k = n THEN m ELSE o[k]]
<1>9. p \in Bijection(1..n, I)
  BY <1>5, AppendToBijection
<1>10. Ascending(p, value)
  <2>1. o \in [1..(n - 1) -> I \ {m}] /\ DOMAIN p = 1..n
    BY DEF Bijection, Injection
  <2> SUFFICES ASSUME NEW k \in 1..n, NEW l \in 1..n, k < l
               PROVE  value[p[k]] <= value[p[l]]
    BY <2>1 DEF Ascending
  <2>2. k \in 1..(n - 1) /\ p[k] = o[k] /\ o[k] \in I
    BY <2>1
  <2>3. CASE l = n
    BY <1>7, <2>2, <2>3
  <2>4. CASE l # n
    BY <1>8, <2>1, <2>2, <2>4 DEF Ascending
  <2>5. QED
    BY <2>3, <2>4
<1>11. QED
  BY <1>4, <1>9, <1>10 DEF Sortable

(***************************************************************************)
(* The percentiles                                                         *)
(***************************************************************************)
Percentiles == {500, 990, 999}

LEMMA RankBounds ==
  ASSUME NEW n \in Nat \ {0}, NEW p \in Percentiles
  PROVE  /\ Rank(n, p) \in 1..n
         /\ p * n <= 1000 * Rank(n, p) /\ 1000 * (Rank(n, p) - 1) < p * n
BY DEF Rank, Percentiles

Measurement == [sentence : Sentences, accuracy : Int, passed : BOOLEAN]
StatsOK == stats \in Seq(Measurement)

LEMMA StatsFacts ==
  ASSUME StatsOK
  PROVE  /\ DOMAIN stats = 1..Len(stats) /\ Len(stats) \in Nat
         /\ \A i \in DOMAIN stats : stats[i].accuracy \in Int /\ stats[i].sentence \in Sentences
<1>1. DOMAIN stats = 1..Len(stats) /\ Len(stats) \in Nat
  BY DEF StatsOK
<1>2. \A i \in DOMAIN stats : stats[i] \in Measurement
  BY DEF StatsOK
<1>3. \A m \in Measurement : m.accuracy \in Int /\ m.sentence \in Sentences
  BY DEF Measurement
<1>4. QED
  BY <1>1, <1>2, <1>3

LEMMA AccuraciesSorted ==
  ASSUME StatsOK, NEW S
  PROVE  \E o \in Bijection(1..Cardinality(Measured(S)), Measured(S)) :
           /\ \A k, l \in DOMAIN o : k < l => stats[o[k]].accuracy <= stats[o[l]].accuracy
           /\ Accuracies(S) = [k \in DOMAIN o |-> stats[o[k]].accuracy]
<1> DEFINE n == Cardinality(Measured(S))
           value == [i \in DOMAIN stats |-> stats[i].accuracy]
<1>1. IsFiniteSet(Measured(S)) /\ n \in Nat /\ Measured(S) \in SUBSET DOMAIN stats
  <2>1. DOMAIN stats = 1..Len(stats) /\ Len(stats) \in Nat
    BY StatsFacts
  <2>2. Measured(S) \in SUBSET (1..Len(stats))
    BY <2>1 DEF Measured
  <2>3. IsFiniteSet(1..Len(stats))
    BY <2>1, FS_Interval
  <2>4. QED
    BY <2>1, <2>2, <2>3, FS_Subset, FS_CardinalityType
<1>2. value \in [DOMAIN stats -> Int]
  BY StatsFacts
<1>3. PICK o \in Bijection(1..n, Measured(S)) : Ascending(o, value)
  <2> HIDE DEF value, n
  <2>1. Sortable(Measured(S), n, value)
    BY <1>1, <1>2, SortedExists DEF n
  <2>2. QED
    BY <2>1 DEF Sortable
<1>4. o \in [1..n -> Measured(S)]
  BY DEF Bijection, Injection
<1>5. \A k, l \in DOMAIN o : k < l => stats[o[k]].accuracy <= stats[o[l]].accuracy
  BY <1>1, <1>3, <1>4 DEF Ascending
<1>6. QED
  BY <1>5 DEF Accuracies

LEMMA PercentileIsNearestRank ==
  ASSUME StatsOK, NEW S, Measured(S) # {}, NEW p \in Percentiles
  PROVE  NearestRank(S, p, Percentile(Accuracies(S), p))
<1> DEFINE n == Cardinality(Measured(S))
           r == Rank(n, p)
<1>1. PICK o \in Bijection(1..n, Measured(S)) :
           /\ \A k, l \in DOMAIN o : k < l => stats[o[k]].accuracy <= stats[o[l]].accuracy
           /\ Accuracies(S) = [k \in DOMAIN o |-> stats[o[k]].accuracy]
  BY AccuraciesSorted
<1>2. /\ o \in [1..n -> Measured(S)] /\ DOMAIN o = 1..n
      /\ \A a, b \in 1..n : o[a] = o[b] => a = b
      /\ \A t \in Measured(S) : \E s \in 1..n : o[s] = t
  BY DEF Bijection, Injection, Surjection, IsInjective
<1>3. /\ IsFiniteSet(Measured(S)) /\ n \in Nat \ {0}
      /\ \A i \in Measured(S) : stats[i].accuracy \in Int
  <2>1. DOMAIN stats = 1..Len(stats) /\ Len(stats) \in Nat
    BY StatsFacts
  <2>2. Measured(S) \in SUBSET (1..Len(stats)) /\ IsFiniteSet(1..Len(stats))
    BY <2>1, FS_Interval DEF Measured
  <2>3. \A i \in DOMAIN stats : stats[i].accuracy \in Int
    BY StatsFacts
  <2>4. IsFiniteSet(Measured(S)) /\ n \in Nat
    BY <2>2, FS_Subset, FS_CardinalityType
  <2>5. QED
    BY <2>3, <2>4, FS_EmptySet DEF Measured
<1> HIDE DEF n
<1>4. r \in 1..n /\ p * n <= 1000 * r /\ 1000 * (r - 1) < p * n
  BY <1>3, RankBounds
<1> HIDE DEF r
<1> DEFINE v == stats[o[r]].accuracy
<1>5. Percentile(Accuracies(S), p) = v
  <2>1. Accuracies(S) = [k \in 1..n |-> stats[o[k]].accuracy]
    BY <1>1, <1>2
  <2>2. Accuracies(S) \in Seq(Int) /\ Len(Accuracies(S)) = n
    BY <1>2, <1>3, <2>1
  <2>3. Accuracies(S) # <<>>
    BY <1>3, <2>2
  <2>4. QED
    <3>1. Percentile(Accuracies(S), p) = Accuracies(S)[r]
      BY <2>2, <2>3 DEF Percentile, r
    <3>2. QED
      BY <1>4, <2>1, <3>1
<1>6. o[r] \in Measured(S) /\ stats[o[r]].accuracy = v /\ v \in Int
  BY <1>2, <1>3, <1>4
<1> HIDE DEF v
<1>7. r <= Cardinality({i \in Measured(S) : stats[i].accuracy <= v})
  <2> DEFINE A == {i \in Measured(S) : stats[i].accuracy <= v}
             q == [k \in 1..r |-> o[k]]
  <2>1. \A k \in 1..r : o[k] \in A
    <3> SUFFICES ASSUME NEW k \in 1..r PROVE o[k] \in A
      OBVIOUS
    <3>1. k \in 1..n /\ o[k] \in Measured(S)
      BY <1>2, <1>3, <1>4
    <3>2. CASE k = r
      BY <1>6, <3>1, <3>2
    <3>3. CASE k # r
      BY <1>1, <1>2, <1>4, <1>6, <3>1, <3>3
    <3>4. QED
      BY <3>2, <3>3
  <2>2. q \in Injection(1..r, A)
    BY <1>2, <1>3, <1>4, <2>1 DEF Injection, IsInjective
  <2>3. IsFiniteSet(A)
    BY <1>3, FS_Subset
  <2>4. Cardinality(1..r) = r
    BY <1>4, FS_Interval
  <2>5. QED
    BY <2>2, <2>3, <2>4, FS_Injection
<1>8. Cardinality({i \in Measured(S) : stats[i].accuracy < v}) <= r - 1
  <2> DEFINE B == {i \in Measured(S) : stats[i].accuracy < v}
             C == {o[k] : k \in 1..(r - 1)}
             q == [k \in 1..(r - 1) |-> o[k]]
  <2>1. q \in Surjection(1..(r - 1), C)
    BY DEF Surjection
  <2>2. IsFiniteSet(1..(r - 1)) /\ Cardinality(1..(r - 1)) = r - 1
    <3>1. r - 1 \in Int /\ r \in Int /\ 1 <= r
      BY <1>3, <1>4
    <3>2. QED
      BY <3>1, FS_Interval
  <2>3. IsFiniteSet(C) /\ Cardinality(C) <= r - 1
    BY <2>1, <2>2, FS_Surjection
  <2>4. B \in SUBSET C
    <3> SUFFICES ASSUME NEW i \in Measured(S), stats[i].accuracy < v PROVE i \in C
      OBVIOUS
    <3>1. PICK k \in 1..n : o[k] = i
      BY <1>2
    <3>2. k < r
      <4>1. CASE k = r
        BY <1>3, <1>6, <3>1, <4>1
      <4>2. CASE k > r
        <5>1. v <= stats[o[k]].accuracy
          BY <1>1, <1>2, <1>4, <1>6, <3>1, <4>2
        <5>2. QED
          BY <1>3, <1>6, <3>1, <5>1
      <4>3. QED
        BY <1>4, <3>1, <4>1, <4>2
    <3>3. QED
      BY <1>4, <3>1, <3>2
  <2>5. Cardinality(B) <= Cardinality(C) /\ Cardinality(B) \in Nat /\ Cardinality(C) \in Nat
    BY <2>3, <2>4, FS_Subset, FS_CardinalityType
  <2>6. QED
    BY <1>4, <2>3, <2>5
<1>9. /\ Cardinality({i \in Measured(S) : stats[i].accuracy <= v}) \in Nat
      /\ Cardinality({i \in Measured(S) : stats[i].accuracy < v}) \in Nat
  BY <1>3, FS_Subset, FS_CardinalityType
<1>10. /\ 1000 * Cardinality({i \in Measured(S) : stats[i].accuracy <= v}) >= p * n
       /\ 1000 * Cardinality({i \in Measured(S) : stats[i].accuracy < v}) < p * n
  BY <1>3, <1>4, <1>7, <1>8, <1>9 DEF Percentiles
<1>11. QED
  BY <1>5, <1>6, <1>10 DEF NearestRank, n

(***************************************************************************)
(* The report                                                              *)
(***************************************************************************)

ReportInv ==
  /\ StatsOK
  /\ phase = "transcribed" => ref \in Texts /\ hyp \in Texts
  /\ report # <<>> => phase = "reported"

LEMMA ReportInvNext == ReportInv /\ [ReportNext]_reportVars => ReportInv'
<1> SUFFICES ASSUME ReportInv, [ReportNext]_reportVars PROVE ReportInv'
  OBVIOUS
<1> USE DEF ReportInv, StatsOK, Measurement
<1>1. ASSUME NEW r \in Texts, NEW h \in Texts, TakeText(r, h) PROVE ReportInv'
  BY <1>1 DEF TakeText
<1>2. ASSUME NEW s \in Sentences, NEW t \in {95, 85, 75}, Verify(s, t) PROVE ReportInv'
  <2>1. Accuracy(ref, hyp) \in Int
    BY <1>2, AccuracyType DEF Verify
  <2>2. [sentence |-> s, accuracy |-> Accuracy(ref, hyp),
         passed |-> 100 * Accuracy(ref, hyp) >= t * Full]
           \in [sentence : Sentences, accuracy : Int, passed : BOOLEAN]
    BY <2>1
  <2>3. QED
    BY <1>2, <2>2 DEF Verify
<1>3. CASE Report
  BY <1>3 DEF Report
<1>4. CASE UNCHANGED reportVars
  BY <1>4 DEF reportVars
<1>5. QED
  BY <1>1, <1>2, <1>3, <1>4 DEF ReportNext

LEMMA SameMeasurements ==
  ASSUME stats' = stats
  PROVE  /\ \A S : Measured(S)' = Measured(S)
         /\ \A S, p, v : NearestRank(S, p, v)' <=> NearestRank(S, p, v)
<1>1. \A S : Measured(S)' = Measured(S)
  BY DEF Measured
<1>2. ASSUME NEW S, NEW p, NEW v PROVE NearestRank(S, p, v)' <=> NearestRank(S, p, v)
  <2> DEFINE atMost == {i \in Measured(S) : stats[i].accuracy <= v}
             below  == {i \in Measured(S) : stats[i].accuracy < v}
  <2>1. atMost' = atMost /\ below' = below /\ Measured(S)' = Measured(S)
    BY <1>1
  <2>2. (\E i \in Measured(S) : stats[i].accuracy = v)'
            <=> \E i \in Measured(S) : stats[i].accuracy = v
    BY <1>1
  <2>3. NearestRank(S, p, v) <=>
          /\ \E i \in Measured(S) : stats[i].accuracy = v
          /\ 1000 * Cardinality(atMost) >= p * Cardinality(Measured(S))
          /\ 1000 * Cardinality(below) < p * Cardinality(Measured(S))
    BY DEF NearestRank
  <2>4. NearestRank(S, p, v)' <=>
          /\ (\E i \in Measured(S) : stats[i].accuracy = v)'
          /\ 1000 * Cardinality(atMost') >= p * Cardinality(Measured(S)')
          /\ 1000 * Cardinality(below') < p * Cardinality(Measured(S)')
    BY DEF NearestRank
  <2> HIDE DEF atMost, below
  <2>5. QED
    BY <2>1, <2>2, <2>3, <2>4
<1>3. QED
  BY <1>1, <1>2

LEMMA ReportsNearestRank ==
  ASSUME ReportInv, Report
  PROVE  PercentilesAreNearestRank'
<1>1. /\ stats' = stats
      /\ report' = IF stats = <<>> THEN <<>>
                   ELSE [all |-> Summary(Accuracies(Sentences)),
                         each |-> [s \in Sentences |->
                           [p500 |-> Percentile(Accuracies({s}), 500),
                            least |-> First(Accuracies({s}))]],
                         passed |-> Cardinality({i \in DOMAIN stats : stats[i].passed})]
  BY DEF Report
<1>2. CASE stats = <<>>
  BY <1>1, <1>2 DEF PercentilesAreNearestRank
<1>3. CASE stats # <<>>
  <2>1. Measured(Sentences) # {}
    <3>1. 1 \in DOMAIN stats /\ stats[1].sentence \in Sentences
      <4>1. stats \in Seq(Measurement)
        BY DEF ReportInv, StatsOK
      <4>2. 1 \in DOMAIN stats
        BY <1>3, <4>1
      <4>3. QED
        BY <4>2, StatsFacts DEF ReportInv
    <3>2. QED
      BY <3>1 DEF Measured
  <2>2. /\ NearestRank(Sentences, 500, report'.all.p500)
        /\ NearestRank(Sentences, 990, report'.all.p990)
        /\ NearestRank(Sentences, 999, report'.all.p999)
    BY <1>1, <1>3, <2>1, PercentileIsNearestRank DEF Summary, Percentiles, ReportInv
  <2>3. \A s \in Sentences : Measured({s}) # {} => NearestRank({s}, 500, report'.each[s].p500)
    <3>1. \A s \in Sentences : report'.each[s].p500 = Percentile(Accuracies({s}), 500)
      BY <1>1, <1>3
    <3>2. SUFFICES ASSUME NEW s \in Sentences, Measured({s}) # {}
                   PROVE  NearestRank({s}, 500, report'.each[s].p500)
      OBVIOUS
    <3>3. NearestRank({s}, 500, Percentile(Accuracies({s}), 500))
      <4>1. 500 \in Percentiles /\ StatsOK
        BY DEF Percentiles, ReportInv
      <4>2. QED
        BY <3>2, <4>1, PercentileIsNearestRank
    <3>4. QED
      BY <3>1, <3>3
  <2>4. \A S, p, w : NearestRank(S, p, w)' <=> NearestRank(S, p, w)
    BY <1>1, SameMeasurements
  <2>5. \A s : Measured({s})' = Measured({s})
    BY <1>1, SameMeasurements
  <2>6. /\ NearestRank(Sentences, 500, report.all.p500)'
        /\ NearestRank(Sentences, 990, report.all.p990)'
        /\ NearestRank(Sentences, 999, report.all.p999)'
    BY <1>1, <2>2, <2>4
  <2>7. \A s \in Sentences :
          Measured({s})' # {} => NearestRank({s}, 500, report.each[s].p500)'
    <3>1. SUFFICES ASSUME NEW s \in Sentences, Measured({s})' # {}
                   PROVE  NearestRank({s}, 500, report.each[s].p500)'
      OBVIOUS
    <3>2. NearestRank({s}, 500, report'.each[s].p500)
      BY <2>3, <2>5, <3>1
    <3>3. QED
      BY <2>4, <3>2
  <2>8. QED
    BY <2>6, <2>7 DEF PercentilesAreNearestRank
<1>4. QED
  BY <1>2, <1>3

LEMMA NearestRankNext ==
  ASSUME ReportInv, PercentilesAreNearestRank, [ReportNext]_reportVars
  PROVE  PercentilesAreNearestRank'
<1>1. CASE Report
  BY <1>1, ReportsNearestRank
<1>2. ASSUME ~Report PROVE PercentilesAreNearestRank'
  <2>1. CASE UNCHANGED reportVars
    <3>1. stats' = stats /\ report' = report
      BY <2>1 DEF reportVars
    <3>2. \A S : Measured(S)' = Measured(S)
      BY <3>1, SameMeasurements
    <3>3. \A S, p, w : NearestRank(S, p, w)' <=> NearestRank(S, p, w)
      BY <3>1, SameMeasurements
    <3>4. SUFFICES ASSUME report # <<>>, PercentilesAreNearestRank
                   PROVE  PercentilesAreNearestRank'
      BY <3>1 DEF PercentilesAreNearestRank
    <3>5. /\ NearestRank(Sentences, 500, report.all.p500)'
          /\ NearestRank(Sentences, 990, report.all.p990)'
          /\ NearestRank(Sentences, 999, report.all.p999)'
      BY <3>1, <3>3, <3>4 DEF PercentilesAreNearestRank
    <3>6. \A s \in Sentences : Measured({s})' # {} => NearestRank({s}, 500, report.each[s].p500)'
      BY <3>1, <3>2, <3>3, <3>4 DEF PercentilesAreNearestRank
    <3>7. QED
      BY <3>5, <3>6 DEF PercentilesAreNearestRank
  <2>2. CASE report' = report /\ report = <<>>
    BY <2>2 DEF PercentilesAreNearestRank
  <2>3. QED
    BY <1>2, <2>1, <2>2 DEF ReportNext, ReportInv, TakeText, Verify
<1>3. QED
  BY <1>1, <1>2

(* However many measurements were made, of whichever sentences, each       *)
(* percentile of the report is the least measurement that as many of them  *)
(* as it says do not exceed.                                               *)
THEOREM ReportIsNearestRank == ReportSpec => []PercentilesAreNearestRank
<1>1. ReportInit => ReportInv /\ PercentilesAreNearestRank
  BY DEF ReportInit, ReportInv, StatsOK, PercentilesAreNearestRank
<1>2. QED
  BY <1>1, ReportInvNext, NearestRankNext, PTL DEF ReportSpec

LEMMA LeastComesFirst ==
  ASSUME StatsOK, NEW S, Measured(S) # {}
  PROVE  \E i \in Measured(S) :
           /\ stats[i].accuracy = First(Accuracies(S))
           /\ \A j \in Measured(S) : stats[i].accuracy <= stats[j].accuracy
<1> DEFINE n == Cardinality(Measured(S))
<1>1. PICK o \in Bijection(1..n, Measured(S)) :
           /\ \A k, l \in DOMAIN o : k < l => stats[o[k]].accuracy <= stats[o[l]].accuracy
           /\ Accuracies(S) = [k \in DOMAIN o |-> stats[o[k]].accuracy]
  BY AccuraciesSorted
<1>2. /\ o \in [1..n -> Measured(S)] /\ DOMAIN o = 1..n
      /\ \A t \in Measured(S) : \E s \in 1..n : o[s] = t
  BY DEF Bijection, Injection, Surjection
<1>3. n \in Nat \ {0} /\ \A i \in Measured(S) : stats[i].accuracy \in Int
  <2>1. DOMAIN stats = 1..Len(stats) /\ Len(stats) \in Nat
    BY StatsFacts
  <2>2. Measured(S) \in SUBSET (1..Len(stats)) /\ IsFiniteSet(1..Len(stats))
    BY <2>1, FS_Interval DEF Measured
  <2>3. IsFiniteSet(Measured(S)) /\ n \in Nat
    BY <2>2, FS_Subset, FS_CardinalityType
  <2>4. QED
    BY <2>3, StatsFacts, FS_EmptySet DEF Measured
<1> HIDE DEF n
<1>4. 1 \in 1..n /\ o[1] \in Measured(S)
  BY <1>2, <1>3
<1>5. stats[o[1]].accuracy = First(Accuracies(S))
  <2>1. Accuracies(S) = [k \in 1..n |-> stats[o[k]].accuracy]
    BY <1>1, <1>2
  <2>2. Accuracies(S) \in Seq(Int) /\ Len(Accuracies(S)) = n
    BY <1>2, <1>3, <2>1
  <2>3. Accuracies(S) # <<>>
    BY <1>3, <2>2
  <2>4. QED
    BY <1>4, <2>1, <2>3 DEF First
<1>6. ASSUME NEW j \in Measured(S) PROVE stats[o[1]].accuracy <= stats[j].accuracy
  <2>1. PICK k \in 1..n : o[k] = j
    BY <1>2
  <2>2. CASE k = 1
    BY <1>3, <1>4, <2>1, <2>2
  <2>3. CASE 1 < k
    BY <1>1, <1>2, <1>4, <2>1, <2>3
  <2>4. QED
    BY <1>3, <2>2, <2>3
<1>7. QED
  BY <1>4, <1>5, <1>6

LEMMA MinimumNext ==
  ASSUME ReportInv, MinimumIsAtTheStart, [ReportNext]_reportVars
  PROVE  MinimumIsAtTheStart'
<1>1. CASE Report
  <2>1. /\ stats' = stats
        /\ stats # <<>> => \A s \in Sentences :
             report'.each[s].least = First(Accuracies({s}))
        /\ stats = <<>> => report' = <<>>
    BY <1>1 DEF Report
  <2>2. \A s \in Sentences : Measured({s}) # {} => \E i \in Measured({s}) :
          /\ stats[i].accuracy = First(Accuracies({s}))
          /\ \A j \in Measured({s}) : stats[i].accuracy <= stats[j].accuracy
    BY LeastComesFirst DEF ReportInv
  <2>3. \A S : Measured(S)' = Measured(S)
    BY <2>1, SameMeasurements
  <2>4. QED
    BY <2>1, <2>2, <2>3 DEF MinimumIsAtTheStart
<1>2. CASE UNCHANGED reportVars
  <2>1. stats' = stats /\ report' = report /\ \A S : Measured(S)' = Measured(S)
    BY <1>2, SameMeasurements DEF reportVars
  <2>2. QED
    BY <2>1 DEF MinimumIsAtTheStart
<1>3. CASE report' = report /\ report = <<>>
  BY <1>3 DEF MinimumIsAtTheStart
<1>4. QED
  BY <1>1, <1>2, <1>3 DEF ReportNext, ReportInv, TakeText, Verify

(* Of every sentence that was measured the report prints, as its minimum,  *)
(* a measurement that no other is below: that the first of the sorted      *)
(* accuracies is read unchecked is wrong only for a sentence without any.  *)
THEOREM MinimumIsReported == ReportSpec => []MinimumIsAtTheStart
<1>1. ReportInit => ReportInv /\ MinimumIsAtTheStart
  BY DEF ReportInit, ReportInv, StatsOK, MinimumIsAtTheStart
<1>2. QED
  BY <1>1, ReportInvNext, MinimumNext, PTL DEF ReportSpec

LEMMA WholeOfItself ==
  ASSUME NEW f \in Nat, NEW n \in Nat \ {0}
  PROVE  (f * n) \div n = f
OBVIOUS

LEMMA AccuracyMeasures ==
  ASSUME NEW t \in Texts, NEW u \in Texts
  PROVE  Accuracy(t, u) = IF t = u THEN Full
                          ELSE Full - (Full * EditDistance(t, u)) \div Longer(t, u)
<1>1. /\ t \in Seq(Letters) /\ u \in Seq(Letters) /\ Full \in Nat
      /\ Len(t) \in Nat /\ Len(u) \in Nat
  BY TextsAreSeqs, ReportAssumption
<1>2. EditDistance(t, u) = Distance(t, u) /\ Distance(t, u) \in Nat
  BY DistanceIsEditDistance
<1>3. CASE t = <<>> /\ u = <<>>
  BY <1>3 DEF Accuracy
<1>4. CASE t = <<>> /\ u # <<>>
  <2>1. Len(t) = 0 /\ Len(u) \in Nat \ {0} /\ Len(u) \in 0..Len(u)
    BY <1>1, <1>4, EmptySeq
  <2>2. Distance(t, u) = Len(u)
    <3>1. Entry(t, u, 0, Len(u)) = Len(u)
      BY <1>1, <2>1, Edges
    <3>2. QED
      BY <2>1, <3>1 DEF Distance, Entry
  <2>3. Longer(t, u) = Len(u)
    BY <2>1 DEF Longer
  <2>4. (Full * Len(u)) \div Len(u) = Full
    BY <1>1, <2>1, WholeOfItself
  <2>5. Accuracy(t, u) = 0
    BY <1>4 DEF Accuracy
  <2>6. QED
    BY <1>1, <1>2, <1>4, <2>2, <2>3, <2>4, <2>5
<1>5. CASE t # <<>>
  <2>1. Accuracy(t, u) = Full - (Full * Distance(t, u)) \div Longer(t, u)
    BY <1>5 DEF Accuracy
  <2>2. CASE t = u
    <3>1. Distance(t, u) = 0
      BY <1>1, <2>2, ToItself
    <3>2. Longer(t, u) \in Nat \ {0}
      BY <1>1, <1>5, EmptySeq DEF Longer
    <3>3. (Full * 0) \div Longer(t, u) = 0
      BY <1>1, <3>2
    <3>4. QED
      BY <1>1, <2>1, <2>2, <3>1, <3>3
  <2>3. CASE t # u
    BY <1>2, <2>1, <2>3
  <2>4. QED
    BY <2>2, <2>3
<1>6. QED
  BY <1>3, <1>4, <1>5

(* However long the texts and whatever their letters, the table of the     *)
(* test finds the fewest edits that make the transcription of the expected *)
(* text: the accuracy a test reports is the share they leave alone.        *)
THEOREM AccuracyMeasuresEdits == ReportSpec => []AccuracyIsEditDistance
<1>1. ReportInv => AccuracyIsEditDistance
  BY AccuracyMeasures DEF ReportInv, AccuracyIsEditDistance
<1>2. ReportInit => ReportInv
  BY DEF ReportInit, ReportInv, StatsOK
<1>3. QED
  BY <1>1, <1>2, ReportInvNext, PTL DEF ReportSpec
=============================================================================
