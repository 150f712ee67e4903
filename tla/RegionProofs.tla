---------------------------- MODULE RegionProofs ----------------------------
(***************************************************************************)
(* Proofs about regions: first the operations on rows of RegionLines,      *)
(* then the regions that Region makes of their rows, whatever the size     *)
(* of the regions, the ranges in a row and the columns.                    *)
(* Sets of columns are compared column by column.                          *)
(***************************************************************************)
EXTENDS Region, WellFoundedInduction, TLAPS

Covers(range, x) == range.start <= x /\ x < range.end
Has(row, x) == \E i \in DOMAIN row : Covers(row[i], x)
(* column x is in one of the ranges before the n-th                         *)
Before(row, n, x) == \E i \in 1..(n - 1) : Covers(row[i], x)

LEMMA PointsAreColumns ==
  ASSUME NEW row \in Seq(ColumnRange)
  PROVE  PointsOf(row) = {x \in Int : Has(row, x)}
<1>1. ASSUME NEW i \in DOMAIN row, NEW x
      PROVE  x \in Points(row[i]) <=> x \in Int /\ Covers(row[i], x)
  <2>1. row[i] \in ColumnRange
    OBVIOUS
  <2> QED
    BY <2>1 DEF Points, Covers, ColumnRange
<1> QED
  BY <1>1 DEF PointsOf, Has

LEMMA AppendedRange ==
  ASSUME NEW row \in Seq(ColumnRange), NEW r \in ColumnRange
  PROVE  /\ Append(row, r) \in Seq(ColumnRange)
         /\ \A x \in Int : Has(Append(row, r), x) <=> Has(row, x) \/ Covers(r, x)
         /\ \A i \in DOMAIN Append(row, r) :
              \/ Append(row, r)[i] = r
              \/ i \in DOMAIN row /\ Append(row, r)[i] = row[i]
<1>1. /\ Len(row) \in Nat /\ DOMAIN row = 1..Len(row)
      /\ DOMAIN Append(row, r) = 1..(Len(row) + 1)
      /\ Append(row, r)[Len(row) + 1] = r
      /\ \A i \in 1..Len(row) : Append(row, r)[i] = row[i]
      /\ Append(row, r) \in Seq(ColumnRange)
  OBVIOUS
<1>2. ASSUME NEW i \in DOMAIN Append(row, r)
      PROVE  \/ Append(row, r)[i] = r
             \/ i \in DOMAIN row /\ Append(row, r)[i] = row[i]
  BY <1>1
<1>3. ASSUME NEW x \in Int
      PROVE  Has(Append(row, r), x) <=> Has(row, x) \/ Covers(r, x)
  <2>1. ASSUME Has(Append(row, r), x)
        PROVE  Has(row, x) \/ Covers(r, x)
    BY <1>2, <2>1 DEF Has
  <2>2. ASSUME Has(row, x)
        PROVE  Has(Append(row, r), x)
    <3>1. PICK i \in DOMAIN row : Covers(row[i], x)
      BY <2>2 DEF Has
    <3>2. i \in DOMAIN Append(row, r) /\ Append(row, r)[i] = row[i]
      BY <1>1
    <3> QED
      BY <3>1, <3>2 DEF Has
  <2>3. ASSUME Covers(r, x)
        PROVE  Has(Append(row, r), x)
    <3>1. Len(row) + 1 \in DOMAIN Append(row, r)
      BY <1>1
    <3> QED
      BY <1>1, <2>3, <3>1 DEF Has
  <2> QED
    BY <2>1, <2>2, <2>3
<1> QED
  BY <1>1, <1>2, <1>3

LEMMA AppendedCanonical ==
  ASSUME NEW row \in Seq(ColumnRange), NEW r \in ColumnRange,
         Canonical(row), r.start < r.end,
         \A i \in DOMAIN row : row[i].end < r.start
  PROVE  Canonical(Append(row, r))
<1>1. /\ Len(row) \in Nat /\ DOMAIN row = 1..Len(row)
      /\ DOMAIN Append(row, r) = 1..(Len(row) + 1)
      /\ Append(row, r)[Len(row) + 1] = r
      /\ \A i \in 1..Len(row) : Append(row, r)[i] = row[i]
  OBVIOUS
<1> DEFINE new == Append(row, r)
<1>2. ASSUME NEW i \in DOMAIN new
      PROVE  new[i].start < new[i].end
  <2>1. CASE i = Len(row) + 1
    BY <1>1, <2>1
  <2>2. CASE i \in DOMAIN row
    BY <1>1, <2>2 DEF Canonical
  <2> QED
    BY <1>1, <2>1, <2>2
<1>3. ASSUME NEW i \in DOMAIN new, NEW j \in DOMAIN new, i < j
      PROVE  new[i].end < new[j].start
  <2>1. i \in DOMAIN row /\ new[i] = row[i]
    BY <1>1, <1>3
  <2>2. CASE j = Len(row) + 1
    BY <1>1, <2>1, <2>2
  <2>3. CASE j \in DOMAIN row
    <3>1. row[i].end < row[j].start
      BY <1>3, <2>1, <2>3 DEF Canonical
    <3> QED
      BY <1>1, <2>1, <2>3, <3>1
  <2> QED
    BY <1>1, <2>2, <2>3
<1> QED
  BY <1>2, <1>3 DEF Canonical

(* What a row gives the operations, a range at a time.                      *)
LEMMA OrderedRow ==
  ASSUME NEW row, Ordered(row)
  PROVE  /\ Len(row) \in Nat /\ DOMAIN row = 1..Len(row)
         /\ \A i \in 1..Len(row) :
              /\ row[i] \in ColumnRange
              /\ row[i].start \in Int /\ row[i].end \in Int /\ row[i].start <= row[i].end
         /\ \A i, j \in 1..Len(row) : i < j => row[i].end < row[j].start
<1>1. Len(row) \in Nat /\ DOMAIN row = 1..Len(row)
  BY DEF Ordered
<1>2. ASSUME NEW i \in 1..Len(row)
      PROVE  row[i] \in ColumnRange
  BY <1>1 DEF Ordered
<1> QED
  BY <1>1, <1>2 DEF Ordered, ColumnRange

LEMMA LaterRanges ==
  ASSUME NEW row, Ordered(row), NEW n \in 1..Len(row)
  PROVE  /\ \A j \in n..Len(row) : row[n].start <= row[j].start
         /\ \A j \in (n + 1)..Len(row) : row[n].start <= row[j].start /\ row[n].end < row[j].start
<1>1. /\ Len(row) \in Nat
      /\ row[n].start \in Int /\ row[n].end \in Int /\ row[n].start <= row[n].end
  BY OrderedRow
<1>2. ASSUME NEW j \in (n + 1)..Len(row)
      PROVE  row[n].start <= row[j].start /\ row[n].end < row[j].start
  <2>1. j \in 1..Len(row) /\ n < j
    BY <1>1
  <2>2. row[j].start \in Int /\ row[n].end < row[j].start
    BY <2>1, OrderedRow
  <2> QED
    BY <1>1, <2>2
<1>3. ASSUME NEW j \in n..Len(row)
      PROVE  row[n].start <= row[j].start
  <2>1. j = n \/ j \in (n + 1)..Len(row)
    BY <1>1
  <2> QED
    BY <1>1, <1>2, <2>1
<1> QED
  BY <1>2, <1>3

(* Reading one more range.                                                  *)
LEMMA ReadOn ==
  ASSUME NEW row, Ordered(row), NEW n \in 1..Len(row), NEW x \in Int
  PROVE  Before(row, n + 1, x) <=> Before(row, n, x) \/ Covers(row[n], x)
BY OrderedRow DEF Before

LEMMA ReadOrLeft ==
  ASSUME NEW row, Ordered(row), NEW n \in 1..Len(row), NEW x \in Int
  PROVE  Has(row, x) <=> \/ Before(row, n, x) \/ Covers(row[n], x)
                         \/ \E j \in (n + 1)..Len(row) : Covers(row[j], x)
<1>1. Len(row) \in Nat /\ DOMAIN row = 1..Len(row)
  BY OrderedRow
<1>2. \A i \in 1..Len(row) : i \in 1..(n - 1) \/ i = n \/ i \in (n + 1)..Len(row)
  BY <1>1
<1>3. /\ \A i \in 1..(n - 1) : i \in 1..Len(row)
      /\ \A i \in (n + 1)..Len(row) : i \in 1..Len(row)
  BY <1>1
<1> QED
  BY <1>1, <1>2, <1>3 DEF Has, Before

LEMMA AllRead ==
  ASSUME NEW row, Ordered(row), NEW n \in Nat, n > Len(row), n <= Len(row) + 1, NEW x \in Int
  PROVE  Before(row, n, x) <=> Has(row, x)
<1>1. 1..(n - 1) = DOMAIN row
  BY OrderedRow
<1> QED
  BY <1>1 DEF Before, Has
-----------------------------------------------------------------------------
BothCanonical == Canonical(d1) /\ Canonical(d2)
EndsBefore(limit) == \A i \in DOMAIN result : result[i].end < limit

LineTypes ==
  /\ Ordered(d1) /\ Ordered(d2)
  /\ n1 \in 1..(Len(d1) + 1) /\ n2 \in 1..(Len(d2) + 1)
  /\ result \in Seq(ColumnRange) /\ held \subseteq ColumnRange

(* What was written and the range held are what was read; nothing left to   *)
(* read starts before the range held.                                       *)
UnionHolds(u) ==
  /\ u.start <= u.end
  /\ \A j \in n1..Len(d1) : u.start <= d1[j].start
  /\ \A j \in n2..Len(d2) : u.start <= d2[j].start
  /\ \A x \in Int : Has(result, x) \/ Covers(u, x) <=> Before(d1, n1, x) \/ Before(d2, n2, x)
  /\ EndsBefore(u.start)
  /\ BothCanonical => Canonical(result) /\ u.start < u.end
UnionInv ==
  \/ held = {} /\ n1 = 1 /\ n2 = 1 /\ result = <<>>
  \/ \E u \in ColumnRange : held = {u} /\ UnionHolds(u)

(* What was written is what the ranges read have in common with the other   *)
(* row, read or not; it ends before what one of the rows has left.          *)
IntersectInv ==
  /\ \A x \in Int : Has(result, x) <=>
       \/ Before(d1, n1, x) /\ Has(d2, x)
       \/ Has(d1, x) /\ Before(d2, n2, x)
  /\ \A i \in DOMAIN result :
       \/ \A j \in n1..Len(d1) : result[i].end < d1[j].start
       \/ \A j \in n2..Len(d2) : result[i].end < d2[j].start
  /\ Canonical(result)

RowDone ==
  /\ \A x \in Int :
       Has(result, x) <=> CASE op = "Union" -> Has(d1, x) \/ Has(d2, x)
                            [] op = "Intersect" -> Has(d1, x) /\ Has(d2, x)
                            [] op = "Subtract" -> Has(d1, x) /\ ~Has(d2, x)
  /\ BothCanonical => Canonical(result)

(* Union reads the range that starts first of all that are left.            *)
LEMMA UnionReads ==
  ASSUME LineTypes, UnionRange
  PROVE  /\ \/ /\ n1 \in 1..Len(d1) /\ n1' = n1 + 1 /\ n2' = n2 /\ NextRange = d1[n1]
               /\ \A j \in n2..Len(d2) : d1[n1].start <= d2[j].start
            \/ /\ n2 \in 1..Len(d2) /\ n2' = n2 + 1 /\ n1' = n1 /\ NextRange = d2[n2]
               /\ \A j \in n1..Len(d1) : d2[n2].start <= d1[j].start
<1>1. CASE FromFirst
  <2>1. n1 \in 1..Len(d1)
    BY <1>1, OrderedRow DEF UnionRange, FromFirst, HasNext1, HasNext2, LineTypes
  <2>2. ASSUME NEW j \in n2..Len(d2)
        PROVE  d1[n1].start <= d2[j].start
    <3>1. n2 \in 1..Len(d2) /\ j \in 1..Len(d2)
      BY OrderedRow DEF LineTypes
    <3>2. d1[n1].start < d2[n2].start
      BY <1>1, <3>1, OrderedRow DEF FromFirst, HasNext1, HasNext2, LineTypes
    <3>3. d2[n2].start <= d2[j].start
      BY <3>1, LaterRanges DEF LineTypes
    <3>4. d1[n1].start \in Int /\ d2[n2].start \in Int /\ d2[j].start \in Int
      BY <2>1, <3>1, OrderedRow DEF LineTypes
    <3> QED
      BY <3>2, <3>3, <3>4
  <2> QED
    BY <1>1, <2>1, <2>2 DEF UnionRange, NextRange
<1>2. CASE ~FromFirst
  <2>1. n2 \in 1..Len(d2)
    BY <1>2, OrderedRow DEF UnionRange, FromFirst, HasNext1, HasNext2, LineTypes
  <2>2. ASSUME NEW j \in n1..Len(d1)
        PROVE  d2[n2].start <= d1[j].start
    <3>1. n1 \in 1..Len(d1) /\ j \in 1..Len(d1)
      BY OrderedRow DEF LineTypes
    <3>2. d1[n1].start \in Int /\ d2[n2].start \in Int /\ d1[j].start \in Int
      BY <2>1, <3>1, OrderedRow DEF LineTypes
    <3>3. d2[n2].start <= d1[n1].start
      BY <1>2, <2>1, <3>1, <3>2, OrderedRow DEF FromFirst, HasNext1, HasNext2, LineTypes
    <3>4. d1[n1].start <= d1[j].start
      BY <3>1, LaterRanges DEF LineTypes
    <3> QED
      BY <3>2, <3>3, <3>4
  <2> QED
    BY <1>2, <2>1, <2>2 DEF UnionRange, NextRange
<1> QED
  BY <1>1, <1>2

(* One of the rows goes on by the range `next'.                             *)
Read(next) ==
  /\ UNCHANGED <<d1, d2>>
  /\ n1' \in 1..(Len(d1) + 1) /\ n2' \in 1..(Len(d2) + 1) /\ n1' >= n1 /\ n2' >= n2
  /\ next.start \in Int /\ next.end \in Int /\ next.start <= next.end
  /\ BothCanonical => next.start < next.end
  /\ \A j \in n1'..Len(d1) : next.start <= d1[j].start
  /\ \A j \in n2'..Len(d2) : next.start <= d2[j].start
  /\ \A x \in Int : Before(d1, n1', x) \/ Before(d2, n2', x) <=>
                      Before(d1, n1, x) \/ Before(d2, n2, x) \/ Covers(next, x)

LEMMA UnionReadsARange ==
  ASSUME LineTypes, UnionRange
  PROVE  /\ NextRange \in ColumnRange /\ Read(NextRange)
         /\ \A u \in ColumnRange : UnionHolds(u) => u.start <= NextRange.start
<1>1. CASE /\ n1 \in 1..Len(d1) /\ n1' = n1 + 1 /\ n2' = n2 /\ NextRange = d1[n1]
           /\ \A j \in n2..Len(d2) : d1[n1].start <= d2[j].start
  <2>1. \A j \in n1'..Len(d1) : d1[n1].start <= d1[j].start
    BY <1>1, LaterRanges DEF LineTypes
  <2>2. BothCanonical => d1[n1].start < d1[n1].end
    BY <1>1, OrderedRow DEF BothCanonical, Canonical, LineTypes
  <2>3. \A x \in Int : Before(d1, n1', x) <=> Before(d1, n1, x) \/ Covers(d1[n1], x)
    BY <1>1, ReadOn DEF LineTypes
  <2>4. /\ d1[n1] \in ColumnRange
        /\ d1[n1].start \in Int /\ d1[n1].end \in Int /\ d1[n1].start <= d1[n1].end
        /\ n1' \in 1..(Len(d1) + 1) /\ n1' >= n1
    BY <1>1, OrderedRow DEF LineTypes
  <2>5. \A u \in ColumnRange : UnionHolds(u) => u.start <= d1[n1].start
    BY <1>1, OrderedRow DEF UnionHolds, LineTypes
  <2>6. UNCHANGED <<d1, d2>> /\ n2' \in 1..(Len(d2) + 1) /\ n2' >= n2
    BY <1>1, OrderedRow DEF UnionRange, LineTypes
  <2> QED
    BY <1>1, <2>1, <2>2, <2>3, <2>4, <2>5, <2>6 DEF Read
<1>2. CASE /\ n2 \in 1..Len(d2) /\ n2' = n2 + 1 /\ n1' = n1 /\ NextRange = d2[n2]
           /\ \A j \in n1..Len(d1) : d2[n2].start <= d1[j].start
  <2>1. \A j \in n2'..Len(d2) : d2[n2].start <= d2[j].start
    BY <1>2, LaterRanges DEF LineTypes
  <2>2. BothCanonical => d2[n2].start < d2[n2].end
    BY <1>2, OrderedRow DEF BothCanonical, Canonical, LineTypes
  <2>3. \A x \in Int : Before(d2, n2', x) <=> Before(d2, n2, x) \/ Covers(d2[n2], x)
    BY <1>2, ReadOn DEF LineTypes
  <2>4. /\ d2[n2] \in ColumnRange
        /\ d2[n2].start \in Int /\ d2[n2].end \in Int /\ d2[n2].start <= d2[n2].end
        /\ n2' \in 1..(Len(d2) + 1) /\ n2' >= n2
    BY <1>2, OrderedRow DEF LineTypes
  <2>5. \A u \in ColumnRange : UnionHolds(u) => u.start <= d2[n2].start
    BY <1>2, OrderedRow DEF UnionHolds, LineTypes
  <2>6. UNCHANGED <<d1, d2>> /\ n1' \in 1..(Len(d1) + 1) /\ n1' >= n1
    BY <1>2, OrderedRow DEF UnionRange, LineTypes
  <2> QED
    BY <1>2, <2>1, <2>2, <2>3, <2>4, <2>5, <2>6 DEF Read
<1> QED
  BY <1>1, <1>2, UnionReads

LEMMA UnionStep ==
  ASSUME LineTypes, UnionInv, UnionRange
  PROVE  LineTypes' /\ UnionInv'
<1>1. PICK next \in ColumnRange :
        /\ next = NextRange /\ Read(next)
        /\ \A u \in ColumnRange : UnionHolds(u) => u.start <= next.start
  BY UnionReadsARange
<1>2. BothCanonical' = BothCanonical
  BY <1>1 DEF BothCanonical, Read
<1>3. CASE held = {}
  <2>1. n1 = 1 /\ n2 = 1 /\ result = <<>> /\ held' = {next} /\ result' = result
    BY <1>1, <1>3 DEF UnionInv, UnionRange
  <2>2. /\ \A x \in Int : ~Has(result, x) /\ ~Before(d1, n1, x) /\ ~Before(d2, n2, x)
        /\ Canonical(result) /\ DOMAIN result = {}
    BY <2>1 DEF Has, Before, Canonical
  <2>3. UnionHolds(next)'
    BY <1>1, <1>2, <2>1, <2>2 DEF UnionHolds, EndsBefore, Read
  <2> QED
    BY <1>1, <2>1, <2>3 DEF LineTypes, UnionInv, Read
<1>4. CASE held # {}
  <2>1. PICK u \in ColumnRange : held = {u} /\ UnionHolds(u)
    BY <1>4 DEF UnionInv
  <2>2. /\ u.start \in Int /\ u.end \in Int /\ u.start <= u.end /\ u.start <= next.start
        /\ next.start \in Int /\ next.end \in Int
    BY <1>1, <2>1 DEF UnionHolds, Read, ColumnRange
  <2>3. CASE next.start <= u.end
    <3> DEFINE v == Extended(u, next)
    <3>1. held' = {v} /\ result' = result
      BY <1>1, <2>1, <2>3 DEF UnionRange, Touches
    <3>2. /\ v \in ColumnRange /\ v.start = u.start /\ v.end \in Int /\ u.end <= v.end
          /\ \A x \in Int : Covers(v, x) <=> Covers(u, x) \/ Covers(next, x)
      BY <2>1, <2>2, <2>3 DEF Extended, MAX, Covers, ColumnRange
    <3> HIDE DEF v
    <3>3. UnionHolds(v)'
      <4>1. \A j \in n1'..Len(d1) : v.start <= d1[j].start
        BY <1>1, <2>1, <3>2 DEF UnionHolds, LineTypes, Read
      <4>2. \A j \in n2'..Len(d2) : v.start <= d2[j].start
        BY <1>1, <2>1, <3>2 DEF UnionHolds, LineTypes, Read
      <4>3. \A x \in Int : Has(result, x) \/ Covers(v, x) <=>
                            Before(d1, n1', x) \/ Before(d2, n2', x)
        BY <1>1, <2>1, <3>2 DEF UnionHolds, Read
      <4>4. EndsBefore(v.start) /\ (BothCanonical => Canonical(result) /\ v.start < v.end)
        BY <2>1, <2>2, <3>2 DEF UnionHolds, EndsBefore
      <4>5. v.start <= v.end
        BY <2>2, <3>2
      <4> QED
        BY <1>1, <1>2, <3>1, <4>1, <4>2, <4>3, <4>4, <4>5 DEF UnionHolds, EndsBefore, Read
    <3> QED
      BY <1>1, <3>1, <3>2, <3>3 DEF LineTypes, UnionInv, Read
  <2>4. CASE ~(next.start <= u.end)
    <3>1. held' = {next} /\ result' = Append(result, u)
      BY <1>1, <2>1, <2>4 DEF UnionRange, Touches
    <3>2. /\ result' \in Seq(ColumnRange)
          /\ \A x \in Int : Has(result', x) <=> Has(result, x) \/ Covers(u, x)
          /\ \A i \in DOMAIN result' :
               result'[i] = u \/ (i \in DOMAIN result /\ result'[i] = result[i])
      BY <2>1, <3>1, AppendedRange DEF LineTypes
    <3>3. \A i \in DOMAIN result' : result'[i].end < next.start
      <4>1. ASSUME NEW i \in DOMAIN result
            PROVE  result[i].end < u.start /\ result[i].end \in Int
        <5>1. result[i] \in ColumnRange
          BY DEF LineTypes
        <5> QED
          BY <2>1, <5>1 DEF UnionHolds, EndsBefore, ColumnRange
      <4> QED
        BY <2>2, <2>4, <3>2, <4>1
    <3>4. BothCanonical => Canonical(result')
      BY <2>1, <3>1, AppendedCanonical DEF LineTypes, UnionHolds, EndsBefore
    <3>5. UnionHolds(next)'
      BY <1>1, <1>2, <2>1, <3>2, <3>3, <3>4 DEF UnionHolds, EndsBefore, Read
    <3> QED
      BY <1>1, <3>1, <3>2, <3>5 DEF LineTypes, UnionInv, Read
  <2> QED
    BY <2>3, <2>4
<1> QED
  BY <1>3, <1>4
LEMMA UnionFinish ==
  ASSUME LineTypes, UnionInv, UnionEnd, op = "Union"
  PROVE  LineTypes' /\ RowDone'
<1>1. /\ UNCHANGED <<op, d1, d2, n1, n2>> /\ BothCanonical' = BothCanonical
      /\ n1 > Len(d1) /\ n2 > Len(d2)
  BY OrderedRow DEF UnionEnd, HasNext1, HasNext2, LineTypes, BothCanonical
<1>2. \A x \in Int : Before(d1, n1, x) \/ Before(d2, n2, x) <=> Has(d1, x) \/ Has(d2, x)
  BY <1>1, AllRead, OrderedRow DEF LineTypes
<1>3. CASE held = {} /\ n1 = 1 /\ n2 = 1 /\ result = <<>>
  <2>1. result' = <<>> /\ \A x \in Int : ~Before(d1, n1, x) /\ ~Before(d2, n2, x)
    BY <1>3 DEF UnionEnd, Before
  <2>2. Canonical(result') /\ \A x \in Int : ~Has(result', x)
    BY <2>1 DEF Canonical, Has
  <2> QED
    BY <1>1, <1>2, <2>1, <2>2 DEF LineTypes, RowDone, UnionEnd
<1>4. ASSUME NEW u \in ColumnRange, held = {u}, UnionHolds(u)
      PROVE  LineTypes' /\ RowDone'
  <2>1. result' = Append(result, u) /\ held' = {}
    BY <1>4 DEF UnionEnd
  <2>2. /\ result' \in Seq(ColumnRange)
        /\ \A x \in Int : Has(result', x) <=> Has(result, x) \/ Covers(u, x)
    BY <2>1, AppendedRange DEF LineTypes
  <2>3. BothCanonical => Canonical(result')
    BY <1>4, <2>1, AppendedCanonical DEF LineTypes, UnionHolds, EndsBefore
  <2> QED
    BY <1>1, <1>2, <1>4, <2>1, <2>2, <2>3 DEF LineTypes, RowDone, UnionHolds
<1> QED
  BY <1>3, <1>4 DEF UnionInv
-----------------------------------------------------------------------------
LEMMA IntersectStep ==
  ASSUME LineTypes, IntersectInv, IntersectRange
  PROVE  LineTypes' /\ IntersectInv'
<1> DEFINE v1 == d1[n1]
           v2 == d2[n2]
<1>1. /\ n1 \in 1..Len(d1) /\ n2 \in 1..Len(d2) /\ UNCHANGED <<d1, d2, held>>
      /\ Len(d1) \in Nat /\ Len(d2) \in Nat
      /\ v1 \in ColumnRange /\ v2 \in ColumnRange
      /\ v1.start \in Int /\ v1.end \in Int /\ v2.start \in Int /\ v2.end \in Int
  BY OrderedRow DEF IntersectRange, HasNext1, HasNext2, LineTypes
<1>2. /\ \A j \in (n1 + 1)..Len(d1) : v1.end < d1[j].start
      /\ \A j \in (n2 + 1)..Len(d2) : v2.end < d2[j].start
  BY <1>1, LaterRanges DEF LineTypes
<1>3. /\ \A j \in (n1 + 1)..Len(d1) : d1[j].start \in Int
      /\ \A j \in (n2 + 1)..Len(d2) : d2[j].start \in Int
  BY <1>1, OrderedRow DEF LineTypes
<1>4. /\ \A x \in Int : Before(d1, n1 + 1, x) <=> Before(d1, n1, x) \/ Covers(v1, x)
      /\ \A x \in Int : Before(d2, n2 + 1, x) <=> Before(d2, n2, x) \/ Covers(v2, x)
  BY <1>1, ReadOn DEF LineTypes
(* what the range that ends first shares with what the other row has left   *)
<1>5. ASSUME NEW x \in Int
      PROVE  /\ Has(d1, x) => \/ Before(d1, n1, x) \/ Covers(v1, x)
                              \/ \E j \in (n1 + 1)..Len(d1) : Covers(d1[j], x)
             /\ Has(d2, x) => \/ Before(d2, n2, x) \/ Covers(v2, x)
                              \/ \E j \in (n2 + 1)..Len(d2) : Covers(d2[j], x)
             /\ Covers(v1, x) \/ Before(d1, n1, x) => Has(d1, x)
             /\ Covers(v2, x) \/ Before(d2, n2, x) => Has(d2, x)
  BY <1>1, ReadOrLeft DEF LineTypes
<1>6. ASSUME NEW x \in Int
      PROVE  /\ v1.end < v2.end /\ Covers(v1, x) /\ Has(d2, x) =>
                  Covers(v2, x) \/ Before(d2, n2, x)
             /\ v2.end <= v1.end /\ Covers(v2, x) /\ Has(d1, x) =>
                  Covers(v1, x) \/ Before(d1, n1, x)
  <2> HIDE DEF v1, v2
  <2>2. ASSUME v1.end < v2.end, Covers(v1, x), NEW j \in (n2 + 1)..Len(d2)
        PROVE  ~Covers(d2[j], x)
    <3>1. v2.end < d2[j].start /\ d2[j].start \in Int
      BY <1>2, <1>3
    <3> QED
      BY <1>1, <2>2, <3>1 DEF Covers
  <2>3. ASSUME v2.end <= v1.end, Covers(v2, x), NEW j \in (n1 + 1)..Len(d1)
        PROVE  ~Covers(d1[j], x)
    <3>1. v1.end < d1[j].start /\ d1[j].start \in Int
      BY <1>2, <1>3
    <3> QED
      BY <1>1, <2>3, <3>1 DEF Covers
  <2> QED
    BY <1>5, <2>2, <2>3
<1> DEFINE common == Common(v1, v2)
<1>7. /\ common \in ColumnRange /\ common.start \in Int /\ common.end \in Int
      /\ common.start >= v1.start /\ common.start >= v2.start
      /\ common.start = v1.start \/ common.start = v2.start
      /\ common.end <= v1.end /\ common.end <= v2.end
      /\ \A x \in Int : Covers(common, x) <=> Covers(v1, x) /\ Covers(v2, x)
  BY <1>1 DEF Common, MAX, MIN, Covers, ColumnRange
<1>8. /\ result' = IF common.start < common.end THEN Append(result, common) ELSE result
      /\ \/ v1.end < v2.end /\ n1' = n1 + 1 /\ n2' = n2
         \/ v2.end <= v1.end /\ n1' = n1 /\ n2' = n2 + 1
  BY <1>1 DEF IntersectRange
<1>9. /\ result' \in Seq(ColumnRange)
      /\ \A x \in Int : Has(result', x) <=> Has(result, x) \/ Covers(common, x)
      /\ \A i \in DOMAIN result' :
           result'[i] = common \/ (i \in DOMAIN result /\ result'[i] = result[i])
  <2> HIDE DEF common
  <2>1. CASE common.start < common.end
    BY <1>7, <1>8, <2>1, AppendedRange DEF LineTypes
  <2>2. CASE ~(common.start < common.end)
    <3>1. \A x \in Int : ~Covers(common, x)
      BY <1>7, <2>2 DEF Covers
    <3> QED
      BY <1>8, <2>2, <3>1 DEF LineTypes
  <2> QED
    BY <2>1, <2>2
<1> HIDE DEF v1, v2, common
<1>10. ASSUME NEW x \in Int
      PROVE  Has(result', x) <=> \/ Before(d1, n1', x) /\ Has(d2, x)
                                 \/ Has(d1, x) /\ Before(d2, n2', x)
  <2>1. Has(result', x) <=> \/ Before(d1, n1, x) /\ Has(d2, x)
                            \/ Has(d1, x) /\ Before(d2, n2, x)
                            \/ Covers(v1, x) /\ Covers(v2, x)
    BY <1>7, <1>9 DEF IntersectInv
  <2>2. CASE v1.end < v2.end /\ n1' = n1 + 1 /\ n2' = n2
    BY <1>4, <1>5, <1>6, <2>1, <2>2
  <2>3. CASE v2.end <= v1.end /\ n1' = n1 /\ n2' = n2 + 1
    BY <1>4, <1>5, <1>6, <2>1, <2>3
  <2> QED
    BY <1>8, <2>2, <2>3
<1>11. ASSUME NEW i \in DOMAIN result
       PROVE  result[i].end \in Int /\ result[i].end < common.start
  <2>1. result[i].end \in Int
    <3>1. result[i] \in ColumnRange
      BY DEF LineTypes
    <3> QED
      BY <3>1 DEF ColumnRange
  <2>2. result[i].end < v1.start \/ result[i].end < v2.start
    <3>1. n1 \in n1..Len(d1) /\ n2 \in n2..Len(d2)
      BY <1>1
    <3> QED
      BY <3>1 DEF IntersectInv, v1, v2
  <2> QED
    BY <1>1, <1>7, <2>1, <2>2
<1>12. ASSUME NEW i \in DOMAIN result'
       PROVE  \/ \A j \in n1'..Len(d1) : result'[i].end < d1[j].start
              \/ \A j \in n2'..Len(d2) : result'[i].end < d2[j].start
  <2>1. CASE result'[i] = common
    <3>1. ASSUME NEW j \in (n1 + 1)..Len(d1)
          PROVE  common.end < d1[j].start
      <4>1. v1.end < d1[j].start /\ d1[j].start \in Int
        BY <1>2, <1>3
      <4> QED
        BY <1>1, <1>7, <4>1
    <3>2. ASSUME NEW j \in (n2 + 1)..Len(d2)
          PROVE  common.end < d2[j].start
      <4>1. v2.end < d2[j].start /\ d2[j].start \in Int
        BY <1>2, <1>3
      <4> QED
        BY <1>1, <1>7, <4>1
    <3> QED
      BY <1>8, <2>1, <3>1, <3>2
  <2>2. CASE i \in DOMAIN result /\ result'[i] = result[i]
    <3>1. n1' >= n1 /\ n2' >= n2 /\ n1' \in Nat /\ n2' \in Nat
      BY <1>1, <1>8
    <3>2. (n1'..Len(d1)) \subseteq (n1..Len(d1)) /\ (n2'..Len(d2)) \subseteq (n2..Len(d2))
      BY <1>1, <3>1
    <3> QED
      BY <2>2, <3>2 DEF IntersectInv
  <2> QED
    BY <1>9, <2>1, <2>2
<1>13. Canonical(result')
  <2>1. CASE common.start < common.end
    BY <1>7, <1>8, <1>11, <2>1, AppendedCanonical DEF IntersectInv, LineTypes
  <2> QED
    BY <1>8, <2>1 DEF IntersectInv
<1>14. n1' \in 1..(Len(d1) + 1) /\ n2' \in 1..(Len(d2) + 1)
  BY <1>1, <1>8, OrderedRow DEF LineTypes
<1> QED
  BY <1>1, <1>9, <1>10, <1>12, <1>13, <1>14 DEF LineTypes, IntersectInv

LEMMA IntersectFinish ==
  ASSUME LineTypes, IntersectInv, IntersectEnd, op = "Intersect"
  PROVE  LineTypes' /\ RowDone'
<1>1. /\ UNCHANGED <<op, d1, d2, n1, n2, held, result>>
      /\ n1 > Len(d1) \/ n2 > Len(d2)
  BY OrderedRow DEF IntersectEnd, HasNext1, HasNext2, LineTypes
<1>2. ASSUME NEW x \in Int
      PROVE  /\ Before(d1, n1, x) => Has(d1, x)
             /\ Before(d2, n2, x) => Has(d2, x)
             /\ n1 > Len(d1) => (Has(d1, x) => Before(d1, n1, x))
             /\ n2 > Len(d2) => (Has(d2, x) => Before(d2, n2, x))
  BY OrderedRow, AllRead DEF Before, Has, LineTypes
<1>3. \A x \in Int : Has(result, x) <=> Has(d1, x) /\ Has(d2, x)
  BY <1>1, <1>2 DEF IntersectInv
<1> QED
  BY <1>1, <1>3 DEF LineTypes, RowDone, IntersectInv, BothCanonical
-----------------------------------------------------------------------------
(* The overlap held is the last range read of the second row; a range is    *)
(* passed when it was read and is no longer held.                           *)
HeldInv ==
  \/ held = {} /\ n2 = Len(d2) + 1
  \/ n2 >= 2 /\ held = {d2[n2 - 1]}
PassedBy(limit) ==
  \A j \in 1..Len(d2) : held = {} \/ j < n2 - 1 => d2[j].end <= limit
EndsBy(limit) == \A i \in DOMAIN result : result[i].end <= limit
Current == n1 >= 2 /\ a = d1[n1 - 1]

SubtractInv ==
  /\ HeldInv
  /\ \A x \in Int : Has(result, x) <=> Before(d1, n1, x) /\ ~Has(d2, x)
  /\ n1 <= Len(d1) => PassedBy(d1[n1].start) /\ EndsBefore(d1[n1].start)
  /\ BothCanonical => Canonical(result)
SkipInv ==
  /\ HeldInv /\ Current /\ current_start = a.start
  /\ \A x \in Int : Has(result, x) <=> Before(d1, n1 - 1, x) /\ ~Has(d2, x)
  /\ PassedBy(a.start) /\ EndsBefore(a.start)
  /\ BothCanonical => Canonical(result)
CutSoFar ==
  /\ HeldInv /\ Current /\ current_start \in Int /\ a.start <= current_start
  /\ \A x \in Int : Has(result, x) <=>
       (Before(d1, n1 - 1, x) \/ (Covers(a, x) /\ x < current_start)) /\ ~Has(d2, x)
  /\ BothCanonical => Canonical(result) /\ EndsBefore(current_start)
CutInv ==
  /\ CutSoFar /\ current_start <= a.end
  /\ PassedBy(current_start) /\ EndsBy(current_start)
RestInv ==
  /\ CutSoFar
  /\ \A x \in Int : Covers(a, x) /\ current_start <= x => ~Has(d2, x)
  /\ PassedBy(a.end) /\ EndsBy(a.end)

LEMMA CurrentRange ==
  ASSUME LineTypes, Current
  PROVE  /\ n1 - 1 \in 1..Len(d1) /\ a \in ColumnRange
         /\ a.start \in Int /\ a.end \in Int /\ a.start <= a.end
<1>1. n1 - 1 \in 1..Len(d1)
  BY OrderedRow DEF LineTypes, Current
<1> QED
  BY <1>1, OrderedRow DEF LineTypes, Current

LEMMA HeldRange ==
  ASSUME LineTypes, HeldInv, NEW b \in held
  PROVE  /\ n2 - 1 \in 1..Len(d2) /\ b = d2[n2 - 1] /\ held = {b}
         /\ b \in ColumnRange /\ b.start \in Int /\ b.end \in Int /\ b.start <= b.end
<1>1. n2 - 1 \in 1..Len(d2) /\ b = d2[n2 - 1] /\ held = {b}
  BY OrderedRow DEF LineTypes, HeldInv
<1> QED
  BY <1>1, OrderedRow DEF LineTypes

(* Beyond what was passed a column is in the second row only if it is in    *)
(* the overlap held or behind it.                                           *)
LEMMA BeyondPassed ==
  ASSUME LineTypes, HeldInv, NEW limit \in Int, PassedBy(limit),
         NEW x \in Int, limit <= x
  PROVE  /\ held = {} => ~Has(d2, x)
         /\ \A b \in held : /\ x < b.start => ~Has(d2, x)
                            /\ Covers(b, x) => Has(d2, x)
<1>1. CASE held = {}
  BY <1>1, OrderedRow DEF LineTypes, PassedBy, Has, Covers
<1>2. ASSUME NEW b \in held
      PROVE  /\ x < b.start => ~Has(d2, x)
             /\ Covers(b, x) => Has(d2, x)
  <2>1. /\ n2 - 1 \in 1..Len(d2) /\ b = d2[n2 - 1]
        /\ b.start \in Int /\ b.end \in Int /\ b.start <= b.end
    BY <1>2, HeldRange
  <2>2. Has(d2, x) <=> \/ Before(d2, n2 - 1, x) \/ Covers(b, x)
                       \/ \E j \in ((n2 - 1) + 1)..Len(d2) : Covers(d2[j], x)
    BY <2>1, ReadOrLeft DEF LineTypes
  <2>3. ~Before(d2, n2 - 1, x)
    <3>1. ASSUME NEW j \in 1..((n2 - 1) - 1)
          PROVE  ~Covers(d2[j], x)
      <4>1. j \in 1..Len(d2) /\ j < n2 - 1
        BY <2>1, OrderedRow DEF LineTypes
      <4>2. d2[j].end <= limit /\ d2[j].end \in Int
        BY <4>1, OrderedRow DEF LineTypes, PassedBy
      <4> QED
        BY <4>2 DEF Covers
    <3> QED
      BY <3>1 DEF Before
  <2>4. ASSUME x < b.start, NEW j \in ((n2 - 1) + 1)..Len(d2)
        PROVE  ~Covers(d2[j], x)
    <3>1. d2[n2 - 1].start <= d2[j].start
      BY <2>1, LaterRanges DEF LineTypes
    <3>2. d2[j].start \in Int
      BY <2>1, OrderedRow DEF LineTypes
    <3> QED
      BY <2>1, <2>4, <3>1, <3>2 DEF Covers
  <2> QED
    BY <2>1, <2>2, <2>3, <2>4 DEF Covers
<1> QED
  BY <1>1, <1>2

LEMMA LoadNext ==
  ASSUME LineTypes, HeldInv, held # {}, TryLoadNextOverlap, UNCHANGED d2
  PROVE  /\ HeldInv' /\ n2' \in 1..(Len(d2) + 1) /\ held' \subseteq ColumnRange
         /\ \A limit \in Int :
              PassedBy(limit) /\ (\A b \in held : b.end <= limit) =>
                \A j \in 1..Len(d2) : held' = {} \/ j < n2' - 1 => d2[j].end <= limit
<1>1. PICK b \in held : TRUE
  OBVIOUS
<1>2. /\ n2 - 1 \in 1..Len(d2) /\ b = d2[n2 - 1] /\ held = {b} /\ Len(d2) \in Nat
      /\ n2 \in 1..(Len(d2) + 1)
  BY HeldRange, OrderedRow DEF LineTypes
<1>3. CASE n2 <= Len(d2)
  <2>1. held' = {d2[n2]} /\ n2' = n2 + 1
    BY <1>3 DEF TryLoadNextOverlap, HasNext2
  <2>2. n2 \in 1..Len(d2) /\ d2[n2] \in ColumnRange
    BY <1>2, <1>3, OrderedRow DEF LineTypes
  <2>3. HeldInv'
    BY <2>1, <2>2 DEF HeldInv
  <2>4. ASSUME NEW limit \in Int, PassedBy(limit), d2[n2 - 1].end <= limit,
               NEW j \in 1..Len(d2), held' = {} \/ j < n2' - 1
        PROVE  d2[j].end <= limit
    <3>1. j < n2 - 1 \/ j = n2 - 1
      BY <2>1, <2>2, <2>4
    <3> QED
      BY <2>4, <3>1 DEF PassedBy
  <2> QED
    BY <1>2, <2>1, <2>2, <2>3, <2>4
<1>4. CASE ~(n2 <= Len(d2))
  <2>1. held' = {} /\ n2' = n2 /\ n2 = Len(d2) + 1
    BY <1>2, <1>4 DEF TryLoadNextOverlap, HasNext2
  <2>2. ASSUME NEW limit \in Int, PassedBy(limit), d2[n2 - 1].end <= limit,
               NEW j \in 1..Len(d2)
        PROVE  d2[j].end <= limit
    <3>1. j < n2 - 1 \/ j = n2 - 1
      BY <1>2, <2>1
    <3> QED
      BY <2>2, <3>1 DEF PassedBy
  <2> QED
    BY <1>2, <2>1, <2>2 DEF HeldInv
<1> QED
  BY <1>3, <1>4
LEMMA SubtractStart ==
  ASSUME LineTypes, SubtractInv, SubtractNext
  PROVE  LineTypes' /\ SkipInv'
<1>1. /\ n1 \in 1..Len(d1) /\ n1' = n1 + 1 /\ n1' - 1 = n1 /\ a' = d1[n1]
      /\ current_start' = d1[n1].start /\ UNCHANGED <<d1, d2, n2, held, result>>
      /\ n1' \in 1..(Len(d1) + 1) /\ n1' >= 2 /\ n1 <= Len(d1)
  BY OrderedRow DEF SubtractNext, HasNext1, LineTypes
<1>2. HeldInv' /\ Current'
  BY <1>1 DEF SubtractInv, HeldInv, Current
<1>3. /\ \A x \in Int : Has(result', x) <=> Before(d1', n1' - 1, x) /\ ~Has(d2', x)
      /\ (BothCanonical => Canonical(result))'
  BY <1>1 DEF SubtractInv, BothCanonical
<1>4. PassedBy(a.start)' /\ EndsBefore(a.start)'
  BY <1>1 DEF SubtractInv, PassedBy, EndsBefore
<1> QED
  BY <1>1, <1>2, <1>3, <1>4 DEF SkipInv, LineTypes

LEMMA SubtractSkip ==
  ASSUME LineTypes, SkipInv, SkipOverlap
  PROVE  /\ LineTypes'
         /\ (at' = at /\ SkipInv') \/ (at' = "cut" /\ CutInv')
<1>1. /\ UNCHANGED <<op, d1, d2, n1, a, current_start, result>>
      /\ a.start \in Int /\ a.end \in Int /\ a.start <= a.end /\ current_start = a.start
  BY CurrentRange DEF SkipOverlap, SkipInv
<1>2. CASE (\E b \in held : b.end <= a.start) /\ TryLoadNextOverlap /\ UNCHANGED at
  <2>1. held # {} /\ \A b \in held : b.end <= a.start
    BY <1>2, HeldRange DEF SkipInv
  <2>2. /\ HeldInv' /\ n2' \in 1..(Len(d2) + 1) /\ held' \subseteq ColumnRange
        /\ \A j \in 1..Len(d2) : held' = {} \/ j < n2' - 1 => d2[j].end <= a.start
    BY <1>1, <1>2, <2>1, LoadNext DEF SkipInv
  <2>3. SkipInv'
    BY <1>1, <2>2 DEF SkipInv, Current, PassedBy, EndsBefore, BothCanonical
  <2> QED
    BY <1>1, <1>2, <2>2, <2>3 DEF LineTypes
<1>3. CASE at' = "cut" /\ UNCHANGED <<held, n2>>
  <2>1. \A x \in Int : ~(Covers(a, x) /\ x < current_start)
    BY <1>1 DEF Covers
  <2>2. CutSoFar
    BY <1>1, <2>1 DEF SkipInv, CutSoFar
  <2>3. EndsBy(current_start)
    <3>1. \A i \in DOMAIN result : result[i] \in ColumnRange
      BY DEF LineTypes
    <3> QED
      BY <1>1, <3>1 DEF SkipInv, EndsBefore, EndsBy, ColumnRange
  <2>4. CutInv
    BY <1>1, <2>2, <2>3 DEF SkipInv, CutInv
  <2>5. CutInv'
    BY <1>1, <1>3, <2>4 DEF CutInv, CutSoFar, HeldInv, Current, PassedBy, EndsBy,
       EndsBefore, BothCanonical
  <2> QED
    BY <1>1, <1>3, <2>5 DEF LineTypes
<1> QED
  BY <1>2, <1>3 DEF SkipOverlap

LEMMA SubtractCut ==
  ASSUME LineTypes, CutInv, CutOverlap
  PROVE  /\ LineTypes'
         /\ (at' = at /\ CutInv') \/ (at' = "rest" /\ RestInv')
<1>1. /\ UNCHANGED <<op, d1, d2, n1, a>> /\ BothCanonical' = BothCanonical
      /\ a.start \in Int /\ a.end \in Int /\ a.start <= a.end
      /\ current_start \in Int /\ a.start <= current_start /\ current_start <= a.end
  BY CurrentRange DEF CutOverlap, CutInv, CutSoFar, BothCanonical
<1>2. PICK b \in held :
        /\ b.start < a.end
        /\ result' = IF current_start < b.start
                     THEN Append(result, [start |-> current_start, end |-> MIN(b.start, a.end)])
                     ELSE result
        /\ current_start' = MAX(current_start, b.end)
        /\ IF current_start' >= a.end
           THEN at' = "rest" /\ UNCHANGED <<held, n2>>
           ELSE TryLoadNextOverlap /\ UNCHANGED at
  BY DEF CutOverlap
<1>3. /\ b.start \in Int /\ b.end \in Int /\ b.start <= b.end /\ held = {b}
      /\ b = d2[n2 - 1] /\ n2 - 1 \in 1..Len(d2)
  BY HeldRange DEF CutInv, CutSoFar
<1> DEFINE cut == [start |-> current_start, end |-> b.start]
<1>4. /\ result' = IF current_start < b.start THEN Append(result, cut) ELSE result
      /\ current_start' \in Int /\ current_start <= current_start' /\ b.end <= current_start'
      /\ current_start' = current_start \/ current_start' = b.end
      /\ cut \in ColumnRange /\ cut.start = current_start /\ cut.end = b.start
  BY <1>1, <1>2, <1>3 DEF MIN, MAX, ColumnRange
<1> HIDE DEF cut
<1>5. /\ result' \in Seq(ColumnRange)
      /\ \A x \in Int : Has(result', x) <=> Has(result, x) \/ Covers(cut, x)
      /\ \A i \in DOMAIN result' :
           \/ i \in DOMAIN result /\ result'[i] = result[i]
           \/ result'[i] = cut /\ current_start < b.start
  <2>1. CASE current_start < b.start
    BY <1>4, <2>1, AppendedRange DEF LineTypes
  <2>2. CASE ~(current_start < b.start)
    <3>1. \A x \in Int : ~Covers(cut, x)
      BY <1>1, <1>3, <1>4, <2>2 DEF Covers
    <3> QED
      BY <1>4, <2>2, <3>1 DEF LineTypes
  <2> QED
    BY <2>1, <2>2
<1>6. ASSUME NEW x \in Int
      PROVE  Has(result', x) <=>
               (Before(d1, n1 - 1, x) \/ (Covers(a, x) /\ x < current_start')) /\ ~Has(d2, x)
  <2>1. Before(d1, n1 - 1, x) => x < a.start
    <3>1. ASSUME NEW i \in 1..((n1 - 1) - 1), Covers(d1[i], x)
          PROVE  x < a.start
      <4>1. i \in 1..Len(d1) /\ n1 - 1 \in 1..Len(d1) /\ i < n1 - 1 /\ a = d1[n1 - 1]
        BY CurrentRange, OrderedRow DEF LineTypes, CutInv, CutSoFar, Current
      <4>2. d1[i].end < a.start /\ d1[i].end \in Int
        BY <4>1, OrderedRow DEF LineTypes
      <4> QED
        BY <1>1, <3>1, <4>2 DEF Covers
    <3> QED
      BY <3>1 DEF Before
  <2>2. Has(result, x) <=>
          (Before(d1, n1 - 1, x) \/ (Covers(a, x) /\ x < current_start)) /\ ~Has(d2, x)
    BY DEF CutInv, CutSoFar
  <2>3. CASE x < current_start
    BY <1>1, <1>4, <1>5, <2>2, <2>3 DEF Covers
  <2>4. CASE current_start <= x
    <3>1. (x < b.start => ~Has(d2, x)) /\ (Covers(b, x) => Has(d2, x))
      BY <1>1, <2>4, BeyondPassed DEF CutInv, CutSoFar
    <3>2. ~Has(result, x) /\ ~Before(d1, n1 - 1, x)
      BY <1>1, <2>1, <2>2, <2>4
    <3> QED
      BY <1>1, <1>2, <1>3, <1>4, <1>5, <2>4, <3>1, <3>2 DEF Covers
  <2> QED
    BY <1>1, <2>3, <2>4
<1>7. ASSUME NEW i \in DOMAIN result'
      PROVE  /\ result'[i].end \in Int /\ result'[i].end <= current_start'
             /\ result'[i].end <= a.end
             /\ BothCanonical => result'[i].end < current_start'
  <2>1. CASE i \in DOMAIN result /\ result'[i] = result[i]
    <3>1. result[i] \in ColumnRange /\ result[i].end <= current_start
      BY <2>1 DEF LineTypes, CutInv, EndsBy
    <3>2. BothCanonical => result[i].end < current_start
      BY <2>1 DEF CutInv, CutSoFar, EndsBefore
    <3> QED
      BY <1>1, <1>4, <2>1, <3>1, <3>2 DEF ColumnRange
  <2>2. CASE result'[i] = cut /\ current_start < b.start
    <3>1. BothCanonical => b.start < b.end
      BY <1>3, OrderedRow DEF BothCanonical, Canonical, LineTypes
    <3> QED
      BY <1>1, <1>2, <1>3, <1>4, <2>2, <3>1
  <2> QED
    BY <1>5, <2>1, <2>2
<1>8. BothCanonical => Canonical(result')
  <2>1. CASE current_start < b.start
    BY <1>3, <1>4, <2>1, AppendedCanonical DEF LineTypes, CutInv, CutSoFar, EndsBefore
  <2> QED
    BY <1>4, <2>1 DEF CutInv, CutSoFar
<1>9. ASSUME HeldInv'
      PROVE  CutSoFar'
  BY <1>1, <1>4, <1>6, <1>7, <1>8, <1>9 DEF CutSoFar, CutInv, Current, EndsBefore
<1>10. CASE current_start' >= a.end
  <2>1. at' = "rest" /\ UNCHANGED <<held, n2>> /\ HeldInv'
    BY <1>1, <1>2, <1>10 DEF HeldInv, CutInv, CutSoFar
  <2>2. \A x \in Int : ~(Covers(a, x) /\ current_start' <= x)
    BY <1>1, <1>4, <1>10 DEF Covers
  <2>3. PassedBy(a.end)'
    <3>1. ASSUME NEW j \in 1..Len(d2), held = {} \/ j < n2 - 1
          PROVE  d2[j].end <= a.end
      <4>1. d2[j].end <= current_start /\ d2[j].end \in Int
        BY <3>1, OrderedRow DEF CutInv, PassedBy, LineTypes
      <4> QED
        BY <1>1, <4>1
    <3> QED
      BY <1>1, <2>1, <3>1 DEF PassedBy
  <2>4. RestInv'
    BY <1>1, <1>7, <1>9, <2>1, <2>2, <2>3 DEF RestInv, EndsBy
  <2> QED
    BY <1>1, <1>5, <2>1, <2>4 DEF LineTypes
<1>11. CASE ~(current_start' >= a.end)
  <2>1. TryLoadNextOverlap /\ UNCHANGED at /\ held # {}
    BY <1>2, <1>11
  <2>2. PassedBy(current_start)
    BY DEF CutInv
  <2>3. PICK limit \in Int : limit = current_start'
    BY <1>4
  <2>4. PassedBy(limit)
    <3>1. ASSUME NEW j \in 1..Len(d2), held = {} \/ j < n2 - 1
          PROVE  d2[j].end <= limit
      <4>1. d2[j].end <= current_start /\ d2[j].end \in Int
        BY <2>2, <3>1, OrderedRow DEF PassedBy, LineTypes
      <4> QED
        BY <1>1, <1>4, <2>3, <4>1
    <3> QED
      BY <3>1 DEF PassedBy
  <2>5. /\ HeldInv' /\ n2' \in 1..(Len(d2) + 1) /\ held' \subseteq ColumnRange
        /\ \A j \in 1..Len(d2) : held' = {} \/ j < n2' - 1 => d2[j].end <= limit
    BY <1>1, <1>3, <1>4, <2>1, <2>3, <2>4, LoadNext DEF CutInv, CutSoFar
  <2>6. CutInv'
    <3>1. PassedBy(current_start)'
      BY <1>1, <2>3, <2>5 DEF PassedBy
    <3>2. EndsBy(current_start)'
      BY <1>7 DEF EndsBy
    <3> QED
      BY <1>1, <1>4, <1>9, <1>11, <2>5, <3>1, <3>2 DEF CutInv
  <2> QED
    BY <1>1, <1>5, <2>1, <2>5, <2>6 DEF LineTypes
<1> QED
  BY <1>10, <1>11
LEMMA SubtractCutEnd ==
  ASSUME LineTypes, CutInv, CutEnd
  PROVE  LineTypes' /\ RestInv'
<1>1. /\ UNCHANGED <<op, d1, d2, n1, n2, held, a, current_start, result>>
      /\ \A b \in held : b.start >= a.end
      /\ a.start \in Int /\ a.end \in Int /\ current_start \in Int /\ current_start <= a.end
  BY CurrentRange DEF CutEnd, CutInv, CutSoFar
<1>2. ASSUME NEW x \in Int, Covers(a, x), current_start <= x
      PROVE  ~Has(d2, x)
  <2>1. x < a.end
    BY <1>2 DEF Covers
  <2>2. CASE held = {}
    BY <1>1, <1>2, <2>2, BeyondPassed DEF CutInv, CutSoFar
  <2>3. ASSUME NEW b \in held
        PROVE  ~Has(d2, x)
    <3>1. x < b.start
      BY <1>1, <2>1, HeldRange DEF CutInv, CutSoFar
    <3> QED
      BY <1>1, <1>2, <3>1, BeyondPassed DEF CutInv, CutSoFar
  <2> QED
    BY <2>2, <2>3
<1>3. PassedBy(a.end)
  <2>1. ASSUME NEW j \in 1..Len(d2), held = {} \/ j < n2 - 1
        PROVE  d2[j].end <= a.end
    <3>1. d2[j].end <= current_start /\ d2[j].end \in Int
      BY <2>1, OrderedRow DEF CutInv, PassedBy, LineTypes
    <3> QED
      BY <1>1, <3>1
  <2> QED
    BY <2>1 DEF PassedBy
<1>4. EndsBy(a.end)
  <2>1. ASSUME NEW i \in DOMAIN result
        PROVE  result[i].end <= a.end
    <3>1. result[i] \in ColumnRange /\ result[i].end <= current_start
      BY DEF LineTypes, CutInv, EndsBy
    <3> QED
      BY <1>1, <3>1 DEF ColumnRange
  <2> QED
    BY <2>1 DEF EndsBy
<1>5. RestInv
  BY <1>2, <1>3, <1>4 DEF RestInv, CutInv
<1> QED
  BY <1>1, <1>5 DEF LineTypes, RestInv, CutSoFar, HeldInv, Current, PassedBy, EndsBy,
     EndsBefore, BothCanonical

LEMMA SubtractWriteRest ==
  ASSUME LineTypes, RestInv, WriteRest
  PROVE  LineTypes' /\ SubtractInv'
<1> DEFINE rest == [start |-> current_start, end |-> a.end]
<1>1. /\ UNCHANGED <<op, d1, d2, n1, n2, held, a, current_start>>
      /\ result' = IF current_start < a.end THEN Append(result, rest) ELSE result
      /\ a.start \in Int /\ a.end \in Int /\ current_start \in Int /\ a.start <= current_start
      /\ rest \in ColumnRange /\ rest.start = current_start /\ rest.end = a.end
  BY CurrentRange DEF WriteRest, RestInv, CutSoFar, ColumnRange
<1> HIDE DEF rest
<1>2. /\ result' \in Seq(ColumnRange)
      /\ \A x \in Int : Has(result', x) <=> Has(result, x) \/ Covers(rest, x)
      /\ \A i \in DOMAIN result' :
           \/ i \in DOMAIN result /\ result'[i] = result[i]
           \/ result'[i] = rest
  <2>1. CASE current_start < a.end
    BY <1>1, <2>1, AppendedRange DEF LineTypes
  <2>2. CASE ~(current_start < a.end)
    <3>1. \A x \in Int : ~Covers(rest, x)
      BY <1>1, <2>2 DEF Covers
    <3> QED
      BY <1>1, <2>2, <3>1 DEF LineTypes
  <2> QED
    BY <2>1, <2>2
<1>3. /\ n1 - 1 \in 1..Len(d1) /\ a = d1[n1 - 1] /\ n1 = (n1 - 1) + 1
      /\ n1 \in 1..(Len(d1) + 1) /\ Len(d1) \in Nat
  BY CurrentRange, OrderedRow DEF RestInv, CutSoFar, Current, LineTypes
<1>4. ASSUME NEW x \in Int
      PROVE  Has(result', x) <=> Before(d1, n1, x) /\ ~Has(d2, x)
  <2>1. Before(d1, n1, x) <=> Before(d1, n1 - 1, x) \/ Covers(a, x)
    BY <1>3, ReadOn DEF LineTypes
  <2>2. Has(result, x) <=>
          (Before(d1, n1 - 1, x) \/ (Covers(a, x) /\ x < current_start)) /\ ~Has(d2, x)
    BY DEF RestInv, CutSoFar
  <2>3. Covers(a, x) /\ current_start <= x => ~Has(d2, x)
    BY DEF RestInv
  <2>4. Covers(rest, x) <=> Covers(a, x) /\ current_start <= x
    BY <1>1 DEF Covers
  <2> QED
    BY <1>1, <1>2, <2>1, <2>2, <2>3, <2>4
<1>5. ASSUME NEW i \in DOMAIN result'
      PROVE  result'[i].end \in Int /\ result'[i].end <= a.end
  <2>1. CASE i \in DOMAIN result /\ result'[i] = result[i]
    <3>1. result[i] \in ColumnRange
      BY <2>1 DEF LineTypes
    <3> QED
      BY <2>1, <3>1 DEF ColumnRange, RestInv, EndsBy
  <2> QED
    BY <1>1, <1>2, <2>1
<1>6. n1 <= Len(d1) => PassedBy(d1[n1].start)' /\ EndsBefore(d1[n1].start)'
  <2> SUFFICES ASSUME n1 <= Len(d1)
               PROVE  PassedBy(d1[n1].start)' /\ EndsBefore(d1[n1].start)'
    OBVIOUS
  <2>1. a.end < d1[n1].start /\ d1[n1].start \in Int
    BY <1>3, OrderedRow DEF LineTypes
  <2>2. ASSUME NEW j \in 1..Len(d2), held = {} \/ j < n2 - 1
        PROVE  d2[j].end <= d1[n1].start
    <3>1. d2[j].end <= a.end /\ d2[j].end \in Int
      BY <2>2, OrderedRow DEF RestInv, PassedBy, LineTypes
    <3> QED
      BY <1>1, <2>1, <3>1
  <2>3. \A i \in DOMAIN result' : result'[i].end < d1[n1].start
    BY <1>1, <1>5, <2>1
  <2> QED
    BY <1>1, <2>2, <2>3 DEF PassedBy, EndsBefore
<1>7. BothCanonical => Canonical(result')
  <2>1. CASE current_start < a.end
    BY <1>1, <2>1, AppendedCanonical DEF LineTypes, RestInv, CutSoFar, EndsBefore
  <2> QED
    BY <1>1, <2>1 DEF RestInv, CutSoFar
<1>8. HeldInv' /\ BothCanonical' = BothCanonical
  BY <1>1 DEF RestInv, CutSoFar, HeldInv, BothCanonical
<1> QED
  BY <1>1, <1>2, <1>4, <1>6, <1>7, <1>8 DEF LineTypes, SubtractInv

LEMMA SubtractFinish ==
  ASSUME LineTypes, SubtractInv, SubtractEnd, op = "Subtract"
  PROVE  LineTypes' /\ RowDone'
<1>1. UNCHANGED <<op, d1, d2, n1, n2, held, result>> /\ n1 > Len(d1)
  BY OrderedRow DEF SubtractEnd, HasNext1, LineTypes
<1>2. \A x \in Int : Before(d1, n1, x) <=> Has(d1, x)
  BY <1>1, AllRead, OrderedRow DEF LineTypes
<1> QED
  BY <1>1, <1>2 DEF LineTypes, RowDone, SubtractInv, BothCanonical
-----------------------------------------------------------------------------
(* The invariant of the three loops, and of an operation that has ended.    *)
LineInv ==
  /\ LineTypes
  /\ \/ at = "Union" /\ op = "Union" /\ UnionInv
     \/ at = "Intersect" /\ op = "Intersect" /\ IntersectInv
     \/ op = "Subtract" /\ \/ at = "Subtract" /\ SubtractInv
                           \/ at = "skip" /\ SkipInv
                           \/ at = "cut" /\ CutInv
                           \/ at = "rest" /\ RestInv
     \/ at = "done" /\ op \in Operations /\ RowDone

LEMMA LineStep ==
  ASSUME LineInv, LineNext
  PROVE  LineInv' /\ op' = op
<1>1. CASE UnionRange
  BY <1>1, UnionStep DEF LineInv, UnionRange
<1>2. CASE UnionEnd
  BY <1>2, UnionFinish DEF LineInv, UnionEnd, Operations
<1>3. CASE IntersectRange
  BY <1>3, IntersectStep DEF LineInv, IntersectRange
<1>4. CASE IntersectEnd
  BY <1>4, IntersectFinish DEF LineInv, IntersectEnd, Operations
<1>5. CASE SubtractNext
  BY <1>5, SubtractStart DEF LineInv, SubtractNext
<1>6. CASE SkipOverlap
  BY <1>6, SubtractSkip DEF LineInv, SkipOverlap
<1>7. CASE CutOverlap
  BY <1>7, SubtractCut DEF LineInv, CutOverlap
<1>8. CASE CutEnd
  BY <1>8, SubtractCutEnd DEF LineInv, CutEnd
<1>9. CASE WriteRest
  BY <1>9, SubtractWriteRest DEF LineInv, WriteRest
<1>10. CASE SubtractEnd
  BY <1>10, SubtractFinish DEF LineInv, SubtractEnd, Operations
<1> QED
  BY <1>1, <1>2, <1>3, <1>4, <1>5, <1>6, <1>7, <1>8, <1>9, <1>10 DEF LineNext

(* An operation starts with what its loop expects.                          *)
LEMMA BeginsRight ==
  ASSUME NEW operation \in Operations, NEW row1, NEW row2,
         Ordered(row1), Ordered(row2), Begin(operation, row1, row2)
  PROVE  LineInv'
<1>1. /\ op' = operation /\ d1' = row1 /\ d2' = row2 /\ n1' = 1 /\ result' = <<>>
      /\ at' = operation /\ Len(row1) \in Nat /\ Len(row2) \in Nat
      /\ DOMAIN result' = {} /\ result' \in Seq(ColumnRange)
  BY OrderedRow DEF Begin
<1>2. Canonical(result') /\ \A x \in Int : ~Has(result', x) /\ ~Before(d1', n1', x)
  BY <1>1 DEF Canonical, Has, Before
<1>3. CASE operation = "Subtract" /\ row2 # <<>>
  <2>1. n2' = 2 /\ held' = {row2[1]} /\ Len(row2) >= 1
    BY <1>1, <1>3 DEF Begin, Ordered
  <2>2. row2[1] \in ColumnRange
    BY <1>1, <2>1, OrderedRow
  <2>3. LineTypes' /\ HeldInv'
    BY <1>1, <2>1, <2>2 DEF LineTypes, HeldInv
  <2>4. SubtractInv'
    <3>1. n1' <= Len(d1') => PassedBy(d1[n1].start)' /\ EndsBefore(d1[n1].start)'
      BY <1>1, <2>1 DEF PassedBy, EndsBefore
    <3> QED
      BY <1>1, <1>2, <2>3, <3>1 DEF SubtractInv
  <2> QED
    BY <1>1, <1>3, <2>3, <2>4 DEF LineInv
<1>4. CASE ~(operation = "Subtract" /\ row2 # <<>>)
  <2>1. n2' = 1 /\ held' = {}
    BY <1>4 DEF Begin
  <2>2. LineTypes' /\ \A x \in Int : ~Before(d2', n2', x)
    BY <1>1, <2>1 DEF LineTypes, Before
  <2>3. CASE operation = "Union"
    BY <1>1, <2>1, <2>2, <2>3 DEF LineInv, UnionInv
  <2>4. CASE operation = "Intersect"
    BY <1>1, <1>2, <2>2, <2>4 DEF LineInv, IntersectInv
  <2>5. CASE operation = "Subtract"
    <3>1. row2 = <<>> /\ Len(row2) = 0
      BY <1>4, <2>5
    <3>2. HeldInv'
      BY <1>1, <2>1, <3>1 DEF HeldInv
    <3>3. n1' <= Len(d1') => PassedBy(d1[n1].start)' /\ EndsBefore(d1[n1].start)'
      BY <1>1, <2>1, <3>1 DEF PassedBy, EndsBefore
    <3>4. SubtractInv'
      BY <1>1, <1>2, <3>2, <3>3 DEF SubtractInv
    <3> QED
      BY <1>1, <2>2, <2>5, <3>4 DEF LineInv
  <2> QED
    BY <2>3, <2>4, <2>5 DEF Operations
<1> QED
  BY <1>3, <1>4

LEMMA DoneIsRight ==
  ASSUME LineInv
  PROVE  RowsAreSets
<1>1. LineIsCanonical
  BY DEF LineInv, RowDone, LineIsCanonical, BothCanonical
<1>2. ASSUME at = "done"
      PROVE  PointsOf(result) = Apply(op, PointsOf(d1), PointsOf(d2))
  <2>1. /\ PointsOf(result) = {x \in Int : Has(result, x)}
        /\ PointsOf(d1) = {x \in Int : Has(d1, x)}
        /\ PointsOf(d2) = {x \in Int : Has(d2, x)}
    BY PointsAreColumns DEF LineInv, LineTypes, Ordered
  <2>2. RowDone /\ op \in Operations
    BY <1>2 DEF LineInv
  <2>3. CASE op = "Union"
    BY <2>1, <2>2, <2>3 DEF RowDone, Apply
  <2>4. CASE op = "Intersect"
    BY <2>1, <2>2, <2>4 DEF RowDone, Apply
  <2>5. CASE op = "Subtract"
    BY <2>1, <2>2, <2>5 DEF RowDone, Apply
  <2> QED
    BY <2>2, <2>3, <2>4, <2>5 DEF Operations
<1> QED
  BY <1>1, <1>2 DEF RowsAreSets, LineIsRight
-----------------------------------------------------------------------------
Scanlines(region) ==
  /\ region \in Seq([y : Coordinates, line : Seq(Int16Range)])
  /\ \A i \in DOMAIN region : Ordered(region[i].line)
  /\ \A i, j \in DOMAIN region : i < j => region[i].y <= region[j].y

(* Between two rows the operation's loop is not running; otherwise it is    *)
(* where its invariant says.                                                *)
RegionInv ==
  /\ op \in Operations
  /\ Scanlines(r1) /\ Scanlines(r2)
  /\ m1 \in Nat \ {0} /\ m2 \in Nat \ {0}
  /\ Ordered(line1) /\ Ordered(line2)
  /\ at \in {"scan", "end"} \/ LineInv

LEMMA LineInvStutters ==
  ASSUME LineInv, UNCHANGED lineVars
  PROVE  LineInv'
<1>1. /\ at' = at /\ op' = op /\ d1' = d1 /\ d2' = d2 /\ n1' = n1 /\ n2' = n2
      /\ held' = held /\ a' = a /\ current_start' = current_start /\ result' = result
  BY DEF lineVars
<1>2. LineTypes'
  BY <1>1 DEF LineInv, LineTypes
<1>3. UnionInv => UnionInv'
  BY <1>1 DEF UnionInv, UnionHolds, EndsBefore, BothCanonical
<1>4. IntersectInv => IntersectInv'
  BY <1>1 DEF IntersectInv
<1>5. RowDone => RowDone'
  BY <1>1 DEF RowDone, BothCanonical
<1>6. /\ HeldInv => HeldInv'
      /\ CutSoFar => CutSoFar'
  BY <1>1 DEF CutSoFar, HeldInv, Current, BothCanonical, EndsBefore
<1>7. SubtractInv => SubtractInv'
  BY <1>1, <1>6 DEF SubtractInv, PassedBy, EndsBefore, BothCanonical
<1>8. SkipInv => SkipInv'
  BY <1>1, <1>6 DEF SkipInv, Current, PassedBy, EndsBefore, BothCanonical
<1>9. CutInv => CutInv'
  BY <1>1, <1>6 DEF CutInv, PassedBy, EndsBy
<1>10. RestInv => RestInv'
  BY <1>1, <1>6 DEF RestInv, PassedBy, EndsBy
<1> QED
  BY <1>1, <1>2, <1>3, <1>4, <1>5, <1>7, <1>8, <1>9, <1>10 DEF LineInv

LEMMA RegionStart ==
  ASSUME RegionInit
  PROVE  RegionInv
<1>1. Ordered(<<>>)
  BY DEF Ordered
<1>2. Scanlines(r1) /\ Scanlines(r2)
  BY RegionsAssumption DEF RegionInit, Scanlines
<1> QED
  BY <1>1, <1>2 DEF RegionInit, RegionInv

LEMMA RegionStep ==
  ASSUME RegionInv, [RegionNext]_vars
  PROVE  RegionInv'
<1> DEFINE Kept == UNCHANGED <<r1, r2, m1, m2, line1, line2>>
<1>1. CASE ReadScanlines
  <2>1. /\ Len(r1) \in Nat /\ DOMAIN r1 = 1..Len(r1)
        /\ Len(r2) \in Nat /\ DOMAIN r2 = 1..Len(r2)
        /\ m1 \in Nat \ {0} /\ m2 \in Nat \ {0}
    BY DEF RegionInv, Scanlines
  <2>2. Ordered(line1')
    <3>1. CASE Takes1
      <4>1. m1 \in DOMAIN r1
        BY <2>1, <3>1 DEF Takes1, More1
      <4>2. line1' = r1[m1].line
        BY <1>1, <3>1 DEF ReadScanlines, AdvanceScanline
      <4> QED
        BY <4>1, <4>2 DEF RegionInv, Scanlines
    <3>2. CASE ~Takes1
      BY <1>1, <3>2 DEF ReadScanlines, RegionInv
    <3> QED
      BY <3>1, <3>2
  <2>3. Ordered(line2')
    <3>1. CASE Takes2
      <4>1. m2 \in DOMAIN r2
        BY <2>1, <3>1 DEF Takes2, More2
      <4>2. line2' = r2[m2].line
        BY <1>1, <3>1 DEF ReadScanlines, AdvanceScanline
      <4> QED
        BY <4>1, <4>2 DEF RegionInv, Scanlines
    <3>2. CASE ~Takes2
      BY <1>1, <3>2 DEF ReadScanlines, RegionInv
    <3> QED
      BY <3>1, <3>2
  <2>4. PICK row1, row2 : row1 = line1' /\ row2 = line2'
    OBVIOUS
  <2>5. Begin(op, row1, row2) /\ op \in Operations
    BY <1>1, <2>4 DEF ReadScanlines, RegionInv
  <2>6. LineInv'
    BY <2>2, <2>3, <2>4, <2>5, BeginsRight
  <2>7. op' = op
    BY <2>5 DEF Begin
  <2>8. m1' \in Nat \ {0} /\ m2' \in Nat \ {0} /\ UNCHANGED <<r1, r2>>
    BY <1>1, <2>1 DEF ReadScanlines
  <2>9. Scanlines(r1)' /\ Scanlines(r2)'
    BY <2>8 DEF RegionInv, Scanlines
  <2> QED
    BY <2>2, <2>3, <2>5, <2>6, <2>7, <2>8, <2>9 DEF RegionInv
<1>2. ASSUME Kept, op' = op, at' \in {"scan", "end"} \/ LineInv'
      PROVE  RegionInv'
  BY <1>2 DEF RegionInv, Scanlines, Ordered
<1>3. CASE WriteScanline
  BY <1>2, <1>3 DEF WriteScanline
<1>4. CASE RegionEnd
  BY <1>2, <1>4 DEF RegionEnd
<1>5. CASE LineNext /\ UNCHANGED regionVars
  <2>1. LineInv
    <3>1. at \notin {"scan", "end"}
      BY <1>5 DEF LineNext, UnionRange, UnionEnd, IntersectRange, IntersectEnd,
                  SubtractNext, SkipOverlap, CutOverlap, CutEnd, WriteRest, SubtractEnd
    <3> QED
      BY <3>1 DEF RegionInv
  <2>2. LineInv' /\ op' = op
    BY <1>5, <2>1, LineStep
  <2> QED
    BY <1>2, <1>5, <2>2 DEF regionVars
<1>6. ASSUME NEW o \in Offsets, Offset(o[1], o[2])
      PROVE  RegionInv'
  BY <1>2, <1>6 DEF Offset, lineVars
<1>7. CASE UNCHANGED vars
  <2>1. at' \in {"scan", "end"} \/ LineInv'
    <3>1. ASSUME LineInv
          PROVE  LineInv'
      BY <1>7, <3>1, LineInvStutters DEF vars, lineVars
    <3> QED
      BY <1>7, <3>1 DEF RegionInv, vars, lineVars
  <2> QED
    BY <1>2, <1>7, <2>1 DEF vars, lineVars, regionVars
<1> QED
  BY <1>1, <1>3, <1>4, <1>5, <1>6, <1>7 DEF RegionNext

(* RegionOp computes every row right: whatever the regions, the row that    *)
(* Union, Intersect and Subtract return has exactly the columns of the set  *)
(* operation, and is canonical when theirs are.                             *)
THEOREM EveryRowIsRight == RegionSpec => []RowsAreSets
<1>1. RegionInv => RowsAreSets
  <2>1. ASSUME at \in {"scan", "end"}
        PROVE  RowsAreSets
    BY <2>1 DEF RowsAreSets, LineIsRight, LineIsCanonical
  <2> QED
    BY <2>1, DoneIsRight DEF RegionInv
<1> QED
  BY <1>1, RegionStart, RegionStep, PTL DEF RegionSpec
-----------------------------------------------------------------------------
(* Of numbers there is a least and, up to a bound, a largest.               *)
LEMMA LeastElement ==
  ASSUME NEW S, S \subseteq Nat, S # {}
  PROVE  \E x \in S : \A y \in S : x <= y
<1> DEFINE R == {ss \in Nat \X Nat : ss[1] < ss[2]}
<1>1. R = OpToRel(<, Nat)
  BY Zenon DEF OpToRel
<1>2. IsWellFoundedOn(R, Nat)
  BY <1>1, NatLessThanWellFounded
<1>3. PICK x \in S : \A y \in S : ~(<<y, x>> \in R)
  BY <1>2, WFMin
<1>4. \A y, z \in Nat : y < z => <<y, z>> \in R
  OBVIOUS
<1> HIDE DEF R
<1>5. ASSUME NEW y \in S
      PROVE  x <= y
  <2>1. x \in Nat /\ y \in Nat
    OBVIOUS
  <2>2. ~(y < x)
    BY <1>3, <1>4, <2>1, Zenon
  <2> QED
    BY <2>1, <2>2
<1> QED
  BY <1>5

LEMMA LargestElement ==
  ASSUME NEW n \in Nat, NEW S, S \subseteq 0..n, S # {}
  PROVE  \E x \in S : \A y \in S : y <= x
<1> DEFINE T == {n - x : x \in S}
<1>1. T \subseteq Nat /\ T # {}
  <2>1. \A x \in S : n - x \in Nat
    OBVIOUS
  <2> QED
    BY <2>1
<1> HIDE DEF T
<1>2. PICK t \in T : \A u \in T : t <= u
  BY <1>1, LeastElement
<1>3. PICK x \in S : t = n - x
  BY DEF T
<1>4. ASSUME NEW y \in S
      PROVE  y <= x
  <2>1. n - y \in T
    BY DEF T
  <2>2. t <= n - y
    BY <1>2, <2>1
  <2> QED
    BY <1>3, <2>2
<1> QED
  BY <1>4

(* Regions.  The row of the first n - 1 scanlines that holds at y is that   *)
(* of the last one at y or above it.                                        *)
LastOf(S) == CHOOSE i \in S : \A j \in S : j <= i
Above(region, n, y) == {i \in 1..(n - 1) : region[i].y <= y}
RowBefore(region, n, y) ==
  IF Above(region, n, y) = {} THEN {} ELSE PointsOf(region[LastOf(Above(region, n, y))].line)
LineBefore(region, n) == IF n = 1 THEN <<>> ELSE region[n - 1].line

IsRegion(region) == region \in Seq([y : Coordinates, line : Seq(Int16Range)])

LEMMA CoordinatesAreInts == Half \in Nat \ {0} /\ Coordinates \subseteq Int /\ 0 \in Coordinates
  BY RegionsAssumption DEF Coordinates

LEMMA RegionFacts ==
  ASSUME NEW region, IsRegion(region)
  PROVE  /\ Len(region) \in Nat /\ DOMAIN region = 1..Len(region)
         /\ \A i \in 1..Len(region) :
              /\ region[i].y \in Coordinates /\ region[i].y \in Int
              /\ region[i].line \in Seq(Int16Range)
<1>1. Len(region) \in Nat /\ DOMAIN region = 1..Len(region)
  BY DEF IsRegion
<1>2. ASSUME NEW i \in 1..Len(region)
      PROVE  region[i] \in [y : Coordinates, line : Seq(Int16Range)]
  <2> DEFINE T == [y : Coordinates, line : Seq(Int16Range)]
  <2>1. region \in Seq(T)
    BY DEF IsRegion
  <2> HIDE DEF T
  <2>2. region[i] \in T
    BY <1>1, <2>1
  <2> QED
    BY <2>2 DEF T
<1>3. ASSUME NEW i \in 1..Len(region)
      PROVE  region[i].y \in Coordinates /\ region[i].line \in Seq(Int16Range)
  BY <1>2
<1> QED
  BY <1>1, <1>3, CoordinatesAreInts

LEMMA InOrder ==
  ASSUME NEW region, Scanlines(region)
  PROVE  /\ IsRegion(region)
         /\ \A i, j \in 1..Len(region) : i <= j => region[i].y <= region[j].y
         /\ \A i \in 1..Len(region) : Ordered(region[i].line)
<1>1. IsRegion(region)
  BY DEF Scanlines, IsRegion
<1>2. Len(region) \in Nat /\ DOMAIN region = 1..Len(region)
  BY <1>1, RegionFacts
<1>3. ASSUME NEW i \in 1..Len(region), NEW j \in 1..Len(region), i <= j
      PROVE  region[i].y <= region[j].y
  <2>1. region[i].y \in Int /\ region[j].y \in Int
    BY <1>1, RegionFacts
  <2>2. CASE i = j
    BY <2>1, <2>2
  <2>3. CASE i < j
    BY <1>2, <2>3 DEF Scanlines
  <2> QED
    BY <1>2, <1>3, <2>2, <2>3
<1> QED
  BY <1>1, <1>2, <1>3 DEF Scanlines

LEMMA LastIs ==
  ASSUME NEW S, S \subseteq Int, NEW i \in S, \A j \in S : j <= i
  PROVE  LastOf(S) = i
<1>1. LastOf(S) \in S /\ \A j \in S : j <= LastOf(S)
  BY DEF LastOf
<1>2. LastOf(S) <= i /\ i <= LastOf(S)
  BY <1>1
<1>3. LastOf(S) \in Int /\ i \in Int
  BY <1>1
<1> QED
  BY <1>2, <1>3

LEMMA NoPoints == PointsOf(<<>>) = {}
  BY DEF PointsOf

(* where all scanlines are above y the last of them holds                   *)
LEMMA RowAfterAll ==
  ASSUME NEW region, NEW n \in Nat \ {0}, NEW y \in Int,
         \A i \in 1..(n - 1) : region[i].y <= y
  PROVE  RowBefore(region, n, y) = PointsOf(LineBefore(region, n))
<1>1. Above(region, n, y) = 1..(n - 1)
  BY DEF Above
<1>2. CASE n = 1
  BY <1>1, <1>2, NoPoints DEF RowBefore, LineBefore
<1>3. CASE n # 1
  <2>1. /\ n - 1 \in 1..(n - 1) /\ 1..(n - 1) \subseteq Int /\ 1..(n - 1) # {}
        /\ \A j \in 1..(n - 1) : j <= n - 1
    BY <1>3
  <2>2. LastOf(1..(n - 1)) = n - 1
    BY <2>1, LastIs
  <2> QED
    BY <1>1, <1>3, <2>1, <2>2 DEF RowBefore, LineBefore
<1> QED
  BY <1>2, <1>3

(* the next scanline changes no row above it                                *)
LEMMA RowsAboveStay ==
  ASSUME NEW r, NEW s, NEW n \in Nat \ {0}, NEW y \in Int,
         \A i \in 1..(n - 1) : s[i] = r[i],
         s[n].y \in Int, y < s[n].y
  PROVE  RowBefore(s, n + 1, y) = RowBefore(r, n, y)
<1>1. Above(s, n + 1, y) = Above(r, n, y)
  <2>1. ASSUME NEW i
        PROVE  i \in Above(s, n + 1, y) <=> i \in Above(r, n, y)
    <3>1. i \in 1..n <=> i = n \/ i \in 1..(n - 1)
      OBVIOUS
    <3>2. (n + 1) - 1 = n /\ ~(s[n].y <= y) /\ n \notin 1..(n - 1)
      OBVIOUS
    <3>3. i \in 1..(n - 1) => s[i] = r[i]
      OBVIOUS
    <3> QED
      BY <3>1, <3>2, <3>3 DEF Above
  <2> QED
    BY <2>1
<1>2. CASE Above(r, n, y) = {}
  BY <1>1, <1>2 DEF RowBefore
<1>3. CASE Above(r, n, y) # {}
  <2>1. LastOf(Above(r, n, y)) \in Above(r, n, y)
    <3>1. \E i \in Above(r, n, y) : \A j \in Above(r, n, y) : j <= i
      <4>1. n - 1 \in Nat /\ Above(r, n, y) \subseteq 0..(n - 1)
        BY DEF Above
      <4> QED
        BY <1>3, <4>1, LargestElement
    <3> QED
      BY <3>1 DEF LastOf
  <2>2. s[LastOf(Above(r, n, y))] = r[LastOf(Above(r, n, y))]
    BY <2>1 DEF Above
  <2> QED
    BY <1>1, <1>3, <2>2 DEF RowBefore
<1> QED
  BY <1>2, <1>3

(* Every column at which a range of a row computed begins or ends is one of *)
(* those of the rows given.                                                 *)
Within(row, S) == \A i \in DOMAIN row : row[i].start \in S /\ row[i].end \in S
RangeWithin(range, S) == range.start \in S /\ range.end \in S
LineWithin(S) ==
  /\ result \in Seq(ColumnRange) /\ held \subseteq ColumnRange
  /\ Within(d1, S) /\ Within(d2, S) /\ Within(result, S)
  /\ \A h \in held : RangeWithin(h, S)
  /\ at \in {"skip", "cut", "rest"} => RangeWithin(a, S) /\ current_start \in S

LEMMA AppendedWithin ==
  ASSUME NEW S, NEW row \in Seq(ColumnRange), NEW range \in ColumnRange,
         Within(row, S), RangeWithin(range, S)
  PROVE  Within(Append(row, range), S)
<1>1. \A i \in DOMAIN Append(row, range) :
        \/ Append(row, range)[i] = range
        \/ i \in DOMAIN row /\ Append(row, range)[i] = row[i]
  BY AppendedRange
<1> QED
  BY <1>1 DEF Within, RangeWithin

LEMMA ReadWithin ==
  ASSUME NEW S, LineTypes, LineWithin(S)
  PROVE  /\ \A i \in 1..Len(d1) : RangeWithin(d1[i], S) /\ d1[i] \in ColumnRange
         /\ \A i \in 1..Len(d2) : RangeWithin(d2[i], S) /\ d2[i] \in ColumnRange
         /\ Len(d1) \in Nat /\ Len(d2) \in Nat
  BY OrderedRow DEF LineTypes, LineWithin, Within, RangeWithin

LEMMA UnionWithin ==
  ASSUME NEW S, S \subseteq Int, LineTypes, LineTypes', LineWithin(S), UnionRange \/ UnionEnd
  PROVE  LineWithin(S)'
<1>1. /\ UNCHANGED <<d1, d2>> /\ at' \notin {"skip", "cut", "rest"}
      /\ result' \in Seq(ColumnRange) /\ held' \subseteq ColumnRange
  BY DEF UnionRange, UnionEnd, LineTypes
<1>2. CASE UnionRange
  <2>1. RangeWithin(NextRange, S) /\ NextRange \in ColumnRange
    <3>1. n1 \in 1..(Len(d1) + 1) /\ n2 \in 1..(Len(d2) + 1)
      BY DEF LineTypes
    <3>2. FromFirst => n1 \in 1..Len(d1)
      BY <1>2, <3>1, ReadWithin DEF UnionRange, FromFirst, HasNext1, HasNext2
    <3>3. ~FromFirst => n2 \in 1..Len(d2)
      BY <1>2, <3>1, ReadWithin DEF UnionRange, FromFirst, HasNext1, HasNext2
    <3> QED
      BY <3>2, <3>3, ReadWithin DEF NextRange
  <2>2. \A u \in held : u \in ColumnRange /\ RangeWithin(u, S)
    BY DEF LineWithin
  <2>3. \A h \in held' : RangeWithin(h, S)
    <3>1. ASSUME NEW u \in held
          PROVE  RangeWithin(Extended(u, NextRange), S)
      <4>1. /\ Extended(u, NextRange).start = u.start
            /\ Extended(u, NextRange).end \in {u.end, NextRange.end}
        BY <2>2 DEF Extended, ColumnRange, MAX
      <4> QED
        BY <2>1, <2>2, <4>1 DEF RangeWithin
    <3> QED
      BY <1>2, <2>1, <3>1 DEF UnionRange
  <2>4. Within(result', S)
    <3>1. result' = result \/ \E u \in held : result' = Append(result, u)
      BY <1>2 DEF UnionRange
    <3> QED
      BY <2>2, <3>1, AppendedWithin DEF LineWithin
  <2> QED
    BY <1>1, <2>3, <2>4 DEF LineWithin
<1>3. CASE UnionEnd
  <2>1. \A u \in held : u \in ColumnRange /\ RangeWithin(u, S)
    BY DEF LineWithin
  <2>2. held' = {} /\ (result' = result \/ \E u \in held : result' = Append(result, u))
    BY <1>3 DEF UnionEnd
  <2>3. Within(result', S)
    BY <2>1, <2>2, AppendedWithin DEF LineWithin
  <2> QED
    BY <1>1, <2>2, <2>3 DEF LineWithin
<1> QED
  BY <1>2, <1>3

LEMMA IntersectWithin ==
  ASSUME NEW S, S \subseteq Int, LineTypes, LineTypes', LineWithin(S),
         IntersectRange \/ IntersectEnd
  PROVE  LineWithin(S)'
<1>1. /\ UNCHANGED <<d1, d2, held>> /\ at' \notin {"skip", "cut", "rest"}
      /\ result' \in Seq(ColumnRange) /\ held' \subseteq ColumnRange
  BY DEF IntersectRange, IntersectEnd, LineTypes
<1>2. Within(result', S)
  <2>1. CASE IntersectRange
    <3>1. n1 \in 1..Len(d1) /\ n2 \in 1..Len(d2)
      BY <2>1, ReadWithin DEF LineTypes, IntersectRange, HasNext1, HasNext2
    <3>2. PICK v1, v2 : v1 = d1[n1] /\ v2 = d2[n2]
      OBVIOUS
    <3>3. /\ v1 \in ColumnRange /\ v2 \in ColumnRange
          /\ RangeWithin(v1, S) /\ RangeWithin(v2, S)
      BY <3>1, <3>2, ReadWithin
    <3>4. Common(v1, v2) \in ColumnRange /\ RangeWithin(Common(v1, v2), S)
      BY <3>3 DEF Common, MAX, MIN, ColumnRange, RangeWithin
    <3>5. result' = result \/ result' = Append(result, Common(v1, v2))
      BY <2>1, <3>2 DEF IntersectRange
    <3> QED
      BY <3>4, <3>5, AppendedWithin DEF LineWithin
  <2>2. CASE IntersectEnd
    BY <2>2 DEF IntersectEnd, LineWithin
  <2> QED
    BY <2>1, <2>2
<1> QED
  BY <1>1, <1>2 DEF LineWithin

LEMMA SubtractWithin ==
  ASSUME NEW S, S \subseteq Int, LineTypes, LineTypes', LineWithin(S),
         \/ SubtractNext \/ SkipOverlap \/ CutOverlap
         \/ CutEnd \/ WriteRest \/ SubtractEnd
  PROVE  LineWithin(S)'
<1>1. /\ UNCHANGED <<d1, d2>> /\ result' \in Seq(ColumnRange) /\ held' \subseteq ColumnRange
  BY DEF SubtractNext, SkipOverlap, CutOverlap, CutEnd, WriteRest, SubtractEnd, LineTypes
<1>2. \A h \in held : RangeWithin(h, S) /\ h \in ColumnRange
  BY DEF LineWithin
<1>3. ASSUME TryLoadNextOverlap
      PROVE  \A h \in held' : RangeWithin(h, S)
  <2>1. HasNext2 => n2 \in 1..Len(d2)
    BY ReadWithin DEF LineTypes, HasNext2
  <2> QED
    BY <1>3, <2>1, ReadWithin DEF TryLoadNextOverlap
<1>4. CASE SubtractNext
  <2>1. n1 \in 1..Len(d1)
    BY <1>4, ReadWithin DEF LineTypes, SubtractNext, HasNext1
  <2>2. RangeWithin(d1[n1], S)
    BY <2>1, ReadWithin
  <2>3. a' = d1[n1] /\ current_start' = d1[n1].start /\ UNCHANGED <<held, result>>
    BY <1>4 DEF SubtractNext
  <2> QED
    BY <1>1, <1>2, <2>2, <2>3 DEF LineWithin, RangeWithin
<1>5. CASE SkipOverlap
  <2>1. /\ at = "skip" /\ UNCHANGED <<a, current_start, result>>
        /\ TryLoadNextOverlap \/ held' = held
    BY <1>5 DEF SkipOverlap
  <2>2. \A h \in held' : RangeWithin(h, S)
    BY <1>2, <1>3, <2>1
  <2> QED
    BY <1>1, <2>1, <2>2 DEF LineWithin
<1>6. CASE CutOverlap
  <2>1. PICK b \in held :
          /\ b.start < a.end
          /\ result' = IF current_start < b.start
                       THEN Append(result, [start |-> current_start, end |-> MIN(b.start, a.end)])
                       ELSE result
          /\ current_start' = MAX(current_start, b.end)
          /\ TryLoadNextOverlap \/ held' = held
    BY <1>6 DEF CutOverlap
  <2>2. at = "cut" /\ a' = a
    BY <1>6 DEF CutOverlap
  <2>3. RangeWithin(a, S) /\ current_start \in S /\ RangeWithin(b, S)
    BY <1>2, <2>2 DEF LineWithin
  <2>4. current_start' \in S
    BY <2>1, <2>3 DEF MAX, RangeWithin
  <2>5. Within(result', S)
    <3> DEFINE cut == [start |-> current_start, end |-> MIN(b.start, a.end)]
    <3>1. cut \in ColumnRange /\ RangeWithin(cut, S)
      BY <2>3 DEF RangeWithin, ColumnRange, MIN
    <3>2. result' = result \/ result' = Append(result, cut)
      BY <2>1
    <3> HIDE DEF cut
    <3> QED
      BY <3>1, <3>2, AppendedWithin DEF LineWithin
  <2>6. \A h \in held' : RangeWithin(h, S)
    BY <1>2, <1>3, <2>1
  <2> QED
    BY <1>1, <2>2, <2>3, <2>4, <2>5, <2>6 DEF LineWithin
<1>7. CASE CutEnd
  BY <1>1, <1>7 DEF CutEnd, LineWithin
<1>8. CASE WriteRest
  <2>1. at = "rest" /\ at' = "Subtract" /\ held' = held
    BY <1>8 DEF WriteRest
  <2>2. RangeWithin(a, S) /\ current_start \in S
    BY <2>1 DEF LineWithin
  <2>3. Within(result', S)
    <3> DEFINE rest == [start |-> current_start, end |-> a.end]
    <3>1. rest \in ColumnRange /\ RangeWithin(rest, S)
      BY <2>2 DEF RangeWithin, ColumnRange
    <3>2. result' = result \/ result' = Append(result, rest)
      BY <1>8 DEF WriteRest
    <3> HIDE DEF rest
    <3> QED
      BY <3>1, <3>2, AppendedWithin DEF LineWithin
  <2> QED
    BY <1>1, <1>2, <2>1, <2>3 DEF LineWithin
<1>9. CASE SubtractEnd
  BY <1>1, <1>9 DEF SubtractEnd, LineWithin
<1> QED
  BY <1>4, <1>5, <1>6, <1>7, <1>8, <1>9

LEMMA LineStepWithin ==
  ASSUME NEW S, S \subseteq Int, LineInv, LineNext, LineWithin(S)
  PROVE  LineWithin(S)'
<1>1. LineTypes /\ LineTypes'
  BY LineStep DEF LineInv
<1> QED
  BY <1>1, UnionWithin, IntersectWithin, SubtractWithin DEF LineNext
-----------------------------------------------------------------------------
(* Where the readers of RegionOp are: what was read is at currentY or above *)
(* it, what is left at currentY or below, and the rows are those read last. *)
Started == m1 # 1 \/ m2 # 1
Reading ==
  /\ m1 \in 1..(Len(r1) + 1) /\ m2 \in 1..(Len(r2) + 1)
  /\ line1 = LineBefore(r1, m1) /\ line2 = LineBefore(r2, m2)
  /\ currentY \in Coordinates
  /\ \A i \in 1..(m1 - 1) : r1[i].y <= currentY
  /\ \A i \in 1..(m2 - 1) : r2[i].y <= currentY
  /\ Started => /\ \A i \in m1..Len(r1) : currentY <= r1[i].y
                /\ \A i \in m2..Len(r2) : currentY <= r2[i].y
  /\ at \notin {"scan", "end"} => Started /\ d1 = line1 /\ d2 = line2

(* What was written of the rows above currentY is the operation on what was *)
(* read of them, and what holds from there on that on the rows read last.   *)
Output(y) == RowBefore(output, Len(output) + 1, y)
Written ==
  /\ IsRegion(output)
  /\ \A i \in 1..Len(output) : output[i].y <= currentY
  /\ lastWritten = LineBefore(output, Len(output) + 1)
  /\ ~Started => output = <<>>
  /\ \A y \in Int : y < currentY =>
       Output(y) = Apply(op, RowBefore(r1, m1, y), RowBefore(r2, m2, y))
  /\ at \in {"scan", "end"} =>
       PointsOf(lastWritten) = Apply(op, PointsOf(line1), PointsOf(line2))

LEMMA NothingRead ==
  ASSUME NEW region, NEW y
  PROVE  RowBefore(region, 1, y) = {}
<1>1. Above(region, 1, y) = {}
  BY DEF Above
<1> QED
  BY <1>1 DEF RowBefore

LEMMA ApplyNothing ==
  ASSUME NEW o \in Operations
  PROVE  Apply(o, {}, {}) = {}
  BY DEF Operations, Apply

(* what the step of a reader is, for either of them                         *)
Advances(region, m, line, y) ==
  \/ m' = m /\ line' = line /\ \A i \in m..Len(region) : y <= region[i].y
  \/ m \in 1..Len(region) /\ region[m].y = y /\ m' = m + 1 /\ line' = region[m].line

LEMMA ReadersAdvance ==
  ASSUME RegionInv, Reading, ReadScanlines
  PROVE  /\ currentY' \in Coordinates /\ (Started => currentY <= currentY') /\ Started'
         /\ Advances(r1, m1, line1, currentY') /\ Advances(r2, m2, line2, currentY')
<1>1. /\ Scanlines(r1) /\ Scanlines(r2) /\ Len(r1) \in Nat /\ Len(r2) \in Nat
      /\ m1 \in 1..(Len(r1) + 1) /\ m2 \in 1..(Len(r2) + 1)
      /\ IsRegion(r1) /\ IsRegion(r2)
  BY InOrder, RegionFacts DEF RegionInv, Reading
<1>2. /\ \A i, j \in 1..Len(r1) : i <= j => r1[i].y <= r1[j].y
      /\ \A i, j \in 1..Len(r2) : i <= j => r2[i].y <= r2[j].y
      /\ \A i \in 1..Len(r1) : r1[i].y \in Coordinates /\ r1[i].y \in Int
      /\ \A i \in 1..Len(r2) : r2[i].y \in Coordinates /\ r2[i].y \in Int
  BY <1>1, InOrder, RegionFacts
<1>3. /\ m1' = IF Takes1 THEN m1 + 1 ELSE m1
      /\ m2' = IF Takes2 THEN m2 + 1 ELSE m2
      /\ line1' = IF Takes1 THEN r1[m1].line ELSE line1
      /\ line2' = IF Takes2 THEN r2[m2].line ELSE line2
      /\ currentY' = IF Takes1 THEN r1[m1].y ELSE r2[m2].y
      /\ More1 \/ More2
  BY DEF ReadScanlines, AdvanceScanline
<1>4. /\ Takes1 => m1 \in 1..Len(r1) /\ (More2 => r1[m1].y <= r2[m2].y)
      /\ Takes2 => m2 \in 1..Len(r2) /\ (More1 => r2[m2].y <= r1[m1].y)
      /\ ~Takes1 /\ More1 => More2 /\ ~(r1[m1].y <= r2[m2].y)
      /\ ~Takes2 /\ More2 => More1 /\ ~(r2[m2].y <= r1[m1].y)
      /\ More1 => m1 \in 1..Len(r1) /\ r1[m1].y \in Int
      /\ More2 => m2 \in 1..Len(r2) /\ r2[m2].y \in Int
  BY <1>1, <1>2 DEF Takes1, Takes2, More1, More2
<1>5. Takes1 => currentY' = r1[m1].y
  BY <1>3
<1>6. Takes2 => currentY' = r2[m2].y
  <2>1. CASE Takes1 /\ Takes2
    <3>1. More1 /\ More2
      BY <2>1 DEF Takes1, Takes2
    <3> QED
      BY <1>3, <1>4, <2>1, <3>1
  <2> QED
    BY <1>3, <2>1
<1>7. Takes1 \/ Takes2
  BY <1>3, <1>4
<1>8. currentY' \in Coordinates /\ currentY' \in Int
  BY <1>2, <1>4, <1>5, <1>6, <1>7
<1>9. \A i \in m1..Len(r1) : currentY' <= r1[i].y
  <2>1. SUFFICES ASSUME NEW i \in m1..Len(r1) PROVE currentY' <= r1[i].y
    OBVIOUS
  <2>2. More1 /\ m1 \in 1..Len(r1) /\ i \in 1..Len(r1) /\ r1[m1].y <= r1[i].y
    BY <1>1, <1>2 DEF More1
  <2>3. currentY' <= r1[m1].y
    BY <1>2, <1>4, <1>5, <1>6, <1>7, <2>2
  <2> QED
    BY <1>2, <1>8, <2>2, <2>3
<1>10. \A i \in m2..Len(r2) : currentY' <= r2[i].y
  <2>1. SUFFICES ASSUME NEW i \in m2..Len(r2) PROVE currentY' <= r2[i].y
    OBVIOUS
  <2>2. More2 /\ m2 \in 1..Len(r2) /\ i \in 1..Len(r2) /\ r2[m2].y <= r2[i].y
    BY <1>1, <1>2 DEF More2
  <2>3. currentY' <= r2[m2].y
    BY <1>2, <1>4, <1>5, <1>6, <1>7, <2>2
  <2> QED
    BY <1>2, <1>8, <2>2, <2>3
<1>11. Started => currentY <= currentY'
  <2>1. Started /\ Takes1 => currentY <= r1[m1].y
    BY <1>1, <1>4 DEF Reading
  <2>2. Started /\ Takes2 => currentY <= r2[m2].y
    BY <1>1, <1>4 DEF Reading
  <2> QED
    BY <1>5, <1>6, <1>7, <2>1, <2>2
<1>12. Started'
  BY <1>1, <1>3, <1>7 DEF Started
<1>13. Advances(r1, m1, line1, currentY')
  <2>1. CASE Takes1
    BY <1>3, <1>4, <1>5, <2>1 DEF Advances
  <2>2. CASE ~Takes1
    BY <1>3, <1>9, <2>2 DEF Advances
  <2> QED
    BY <2>1, <2>2
<1>14. Advances(r2, m2, line2, currentY')
  <2>1. CASE Takes2
    BY <1>3, <1>4, <1>6, <2>1 DEF Advances
  <2>2. CASE ~Takes2
    BY <1>3, <1>10, <2>2 DEF Advances
  <2> QED
    BY <2>1, <2>2
<1> QED
  BY <1>8, <1>11, <1>12, <1>13, <1>14

(* what it means for the region that is read                                *)
LEMMA Advanced ==
  ASSUME NEW region, Scanlines(region), NEW m \in 1..(Len(region) + 1),
         NEW n \in Nat, NEW y \in Coordinates,
         \A i \in 1..(m - 1) : region[i].y <= y,
         \/ n = m /\ \A i \in m..Len(region) : y <= region[i].y
         \/ m \in 1..Len(region) /\ region[m].y = y /\ n = m + 1
  PROVE  /\ n \in 1..(Len(region) + 1)
         /\ \A i \in 1..(n - 1) : region[i].y <= y
         /\ \A i \in n..Len(region) : y <= region[i].y
         /\ \A z \in Int : z < y => RowBefore(region, n, z) = RowBefore(region, m, z)
<1>1. /\ Len(region) \in Nat /\ y \in Int
      /\ \A i \in 1..Len(region) : region[i].y \in Int
  BY InOrder, RegionFacts, CoordinatesAreInts
<1>2. CASE n = m /\ \A i \in m..Len(region) : y <= region[i].y
  BY <1>1, <1>2
<1>3. CASE m \in 1..Len(region) /\ region[m].y = y /\ n = m + 1
  <2>1. n \in 1..(Len(region) + 1)
    BY <1>1, <1>3
  <2>2. ASSUME NEW i \in 1..(n - 1)
        PROVE  region[i].y <= y
    <3>1. i = m \/ i \in 1..(m - 1)
      BY <1>3
    <3> QED
      BY <1>1, <1>3, <3>1
  <2>3. ASSUME NEW i \in n..Len(region)
        PROVE  y <= region[i].y
    <3>1. i \in 1..Len(region) /\ m <= i
      BY <1>1, <1>3
    <3> QED
      BY <1>3, <3>1, InOrder
  <2>4. ASSUME NEW z \in Int, z < y
        PROVE  RowBefore(region, n, z) = RowBefore(region, m, z)
    <3>1. m \in Nat \ {0} /\ region[m].y \in Int /\ z < region[m].y
      BY <1>1, <1>3, <2>4
    <3> QED
      BY <1>3, <3>1, RowsAboveStay
  <2> QED
    BY <2>1, <2>2, <2>3, <2>4
<1> QED
  BY <1>2, <1>3

LEMMA ReadScanlinesReads ==
  ASSUME RegionInv, Reading, Written, ReadScanlines
  PROVE  Reading' /\ Written'
<1>1. /\ currentY' \in Coordinates /\ (Started => currentY <= currentY') /\ Started'
      /\ Advances(r1, m1, line1, currentY') /\ Advances(r2, m2, line2, currentY')
  BY ReadersAdvance
<1>2. /\ UNCHANGED <<r1, r2, lastWritten, output>>
      /\ op' = op /\ d1' = line1' /\ d2' = line2' /\ at = "scan" /\ at' = op /\ op \in Operations
  BY DEF ReadScanlines, Begin, RegionInv
<1>3. /\ Scanlines(r1) /\ Scanlines(r2) /\ Len(r1) \in Nat /\ Len(r2) \in Nat
      /\ m1 \in 1..(Len(r1) + 1) /\ m2 \in 1..(Len(r2) + 1)
      /\ currentY \in Int /\ currentY' \in Int
      /\ \A i \in 1..Len(r1) : r1[i].y \in Int
      /\ \A i \in 1..Len(r2) : r2[i].y \in Int
  BY <1>1, CoordinatesAreInts, InOrder, RegionFacts DEF RegionInv, Reading
<1>4. /\ \A i \in 1..(m1 - 1) : r1[i].y <= currentY'
      /\ \A i \in 1..(m2 - 1) : r2[i].y <= currentY'
  <2>1. ASSUME Started
        PROVE  /\ \A i \in 1..(m1 - 1) : r1[i].y <= currentY'
               /\ \A i \in 1..(m2 - 1) : r2[i].y <= currentY'
    <3>1. currentY <= currentY'
      BY <1>1, <2>1
    <3>2. ASSUME NEW i \in 1..(m1 - 1)
          PROVE  r1[i].y <= currentY'
      <4>1. r1[i].y \in Int /\ r1[i].y <= currentY
        BY <1>3 DEF Reading
      <4> QED
        BY <1>3, <3>1, <4>1
    <3>3. ASSUME NEW i \in 1..(m2 - 1)
          PROVE  r2[i].y <= currentY'
      <4>1. r2[i].y \in Int /\ r2[i].y <= currentY
        BY <1>3 DEF Reading
      <4> QED
        BY <1>3, <3>1, <4>1
    <3> QED
      BY <3>2, <3>3
  <2>2. CASE ~Started
    BY <2>2 DEF Started
  <2> QED
    BY <2>1, <2>2
<1>5. /\ m1' \in 1..(Len(r1) + 1)
      /\ \A i \in 1..(m1' - 1) : r1[i].y <= currentY'
      /\ \A i \in m1'..Len(r1) : currentY' <= r1[i].y
      /\ \A z \in Int : z < currentY' => RowBefore(r1, m1', z) = RowBefore(r1, m1, z)
      /\ line1' = LineBefore(r1, m1')
  <2>1. m1' \in Nat
    BY <1>1, <1>3 DEF Advances
  <2>2. \/ m1' = m1 /\ \A i \in m1..Len(r1) : currentY' <= r1[i].y
        \/ m1 \in 1..Len(r1) /\ r1[m1].y = currentY' /\ m1' = m1 + 1
    BY <1>1 DEF Advances
  <2>3. line1' = LineBefore(r1, m1')
    BY <1>1, <1>3 DEF Advances, LineBefore, Reading
  <2> QED
    BY <1>1, <1>3, <1>4, <2>1, <2>2, <2>3, Advanced
<1>6. /\ m2' \in 1..(Len(r2) + 1)
      /\ \A i \in 1..(m2' - 1) : r2[i].y <= currentY'
      /\ \A i \in m2'..Len(r2) : currentY' <= r2[i].y
      /\ \A z \in Int : z < currentY' => RowBefore(r2, m2', z) = RowBefore(r2, m2, z)
      /\ line2' = LineBefore(r2, m2')
  <2>1. m2' \in Nat
    BY <1>1, <1>3 DEF Advances
  <2>2. \/ m2' = m2 /\ \A i \in m2..Len(r2) : currentY' <= r2[i].y
        \/ m2 \in 1..Len(r2) /\ r2[m2].y = currentY' /\ m2' = m2 + 1
    BY <1>1 DEF Advances
  <2>3. line2' = LineBefore(r2, m2')
    BY <1>1, <1>3 DEF Advances, LineBefore, Reading
  <2> QED
    BY <1>1, <1>3, <1>4, <2>1, <2>2, <2>3, Advanced
<1>7. Reading'
  BY <1>1, <1>2, <1>5, <1>6 DEF Reading, Operations
<1>8. /\ IsRegion(output) /\ Len(output) \in Nat
      /\ \A i \in 1..Len(output) : output[i].y \in Int
  BY RegionFacts DEF Written
<1>9. \A i \in 1..Len(output) : output[i].y <= currentY'
  <2>1. CASE Started
    BY <1>1, <1>3, <1>8, <2>1 DEF Written
  <2>2. CASE ~Started
    BY <2>2 DEF Written
  <2> QED
    BY <2>1, <2>2
<1>10. ASSUME NEW y \in Int, y < currentY'
       PROVE  Output(y) = Apply(op, RowBefore(r1, m1', y), RowBefore(r2, m2', y))
  <2>1. RowBefore(r1, m1', y) = RowBefore(r1, m1, y) /\ RowBefore(r2, m2', y) = RowBefore(r2, m2, y)
    BY <1>5, <1>6, <1>10
  <2>2. CASE ~Started
    <3>1. m1 = 1 /\ m2 = 1 /\ Len(output) + 1 = 1
      BY <2>2 DEF Written, Started
    <3> QED
      BY <1>2, <2>1, <3>1, NothingRead, ApplyNothing DEF Output
  <2>3. CASE Started /\ y < currentY
    BY <2>1, <2>3 DEF Written
  <2>4. CASE Started /\ ~(y < currentY)
    <3>1. RowBefore(r1, m1, y) = PointsOf(line1)
      <4>1. m1 \in Nat \ {0} /\ \A i \in 1..(m1 - 1) : i \in 1..Len(r1)
        BY <1>3
      <4>2. currentY <= y
        BY <1>3, <2>4
      <4>3. \A i \in 1..(m1 - 1) : r1[i].y <= y
        BY <1>3, <4>1, <4>2 DEF Reading
      <4> QED
        BY <4>1, <4>3, RowAfterAll DEF Reading
    <3>2. RowBefore(r2, m2, y) = PointsOf(line2)
      <4>1. m2 \in Nat \ {0} /\ \A i \in 1..(m2 - 1) : i \in 1..Len(r2)
        BY <1>3
      <4>2. currentY <= y
        BY <1>3, <2>4
      <4>3. \A i \in 1..(m2 - 1) : r2[i].y <= y
        BY <1>3, <4>1, <4>2 DEF Reading
      <4> QED
        BY <4>1, <4>3, RowAfterAll DEF Reading
    <3>3. Output(y) = PointsOf(lastWritten)
      <4>1. /\ Len(output) + 1 \in Nat \ {0}
            /\ \A i \in 1..((Len(output) + 1) - 1) : output[i].y <= y
        BY <1>3, <1>8, <2>4 DEF Written
      <4> QED
        BY <4>1, RowAfterAll DEF Written, Output
    <3> QED
      BY <1>2, <2>1, <3>1, <3>2, <3>3 DEF Written
  <2> QED
    BY <2>2, <2>3, <2>4
<1> QED
  BY <1>1, <1>2, <1>7, <1>8, <1>9, <1>10 DEF Written, Output, Operations

(* the row that was computed, written if it is another                      *)
LEMMA WriteScanlineWrites ==
  ASSUME RegionInv, Reading, Written, WriteScanline, Within(result, Coordinates)
  PROVE  /\ Reading' /\ Written'
         /\ lastWritten' = result
         /\ \/ output' = output
            \/ output' = Append(output, [y |-> currentY, line |-> result])
<1>1. /\ at = "done" /\ at' = "scan" /\ op \in Operations /\ LineInv
      /\ UNCHANGED <<op, d1, d2, r1, r2, m1, m2, line1, line2, currentY>>
  BY DEF WriteScanline, RegionInv
<1>2. Reading'
  BY <1>1 DEF Reading, Started
<1>3. result \in Seq(Int16Range)
  <2>1. result \in Seq(ColumnRange)
    BY <1>1 DEF LineInv, LineTypes
  <2>2. Len(result) \in Nat /\ DOMAIN result = 1..Len(result)
    BY <2>1
  <2>3. ASSUME NEW i \in 1..Len(result)
        PROVE  result[i] \in Int16Range
    <3>1. result[i] \in ColumnRange
      BY <2>1, <2>2
    <3> QED
      BY <2>2, <3>1 DEF Within, ColumnRange, Int16Range
  <2> QED
    BY <2>1, <2>2, <2>3
<1>4. PointsOf(result) = Apply(op, PointsOf(line1), PointsOf(line2))
  <2>1. RowsAreSets
    BY <1>1, DoneIsRight
  <2> QED
    BY <1>1, <2>1 DEF RowsAreSets, LineIsRight, Reading
<1>5. /\ IsRegion(output) /\ Len(output) \in Nat /\ Started
      /\ currentY \in Int /\ currentY \in Coordinates
  BY <1>1, RegionFacts, CoordinatesAreInts DEF Written, Reading
<1>6. CASE result = lastWritten
  <2>1. output' = output /\ lastWritten' = lastWritten
    BY <1>6 DEF WriteScanline
  <2> QED
    BY <1>1, <1>2, <1>4, <1>6, <2>1 DEF Written, Output, Started
<1>7. CASE result # lastWritten
  <2> DEFINE scanline == [y |-> currentY, line |-> result]
  <2>1. output' = Append(output, scanline) /\ lastWritten' = result
    BY <1>7 DEF WriteScanline
  <2>2. scanline \in [y : Coordinates, line : Seq(Int16Range)] /\ scanline.y = currentY /\ scanline.line = result
    BY <1>3, <1>5
  <2> HIDE DEF scanline
  <2>3. IsRegion(output') /\ Len(output') = Len(output) + 1
        /\ output'[Len(output) + 1] = scanline
        /\ \A i \in 1..Len(output) : output'[i] = output[i]
    BY <1>5, <2>1, <2>2 DEF IsRegion
  <2>4. \A i \in 1..Len(output') : output'[i].y <= currentY
    <3>1. ASSUME NEW i \in 1..Len(output')
          PROVE  output'[i].y <= currentY
      <4>1. i = Len(output) + 1 \/ i \in 1..Len(output)
        BY <1>5, <2>3
      <4>2. CASE i = Len(output) + 1
        BY <1>5, <2>2, <2>3, <4>2
      <4>3. CASE i \in 1..Len(output)
        BY <2>3, <4>3 DEF Written
      <4> QED
        BY <4>1, <4>2, <4>3
    <3> QED
      BY <3>1
  <2>5. lastWritten' = LineBefore(output', Len(output') + 1)
    BY <1>5, <2>1, <2>2, <2>3 DEF LineBefore
  <2>6. ASSUME NEW y \in Int, y < currentY
        PROVE  RowBefore(output', Len(output') + 1, y)
                 = Apply(op, RowBefore(r1, m1, y), RowBefore(r2, m2, y))
    <3>1. /\ Len(output) + 1 \in Nat \ {0}
          /\ \A i \in 1..((Len(output) + 1) - 1) : output'[i] = output[i]
          /\ output'[Len(output) + 1].y = currentY
      BY <1>5, <2>2, <2>3
    <3>2. RowBefore(output', (Len(output) + 1) + 1, y) = RowBefore(output, Len(output) + 1, y)
      BY <1>5, <2>6, <3>1, RowsAboveStay
    <3> QED
      BY <2>3, <2>6, <3>2 DEF Written, Output
  <2> QED
    BY <1>1, <1>2, <1>4, <1>5, <2>1, <2>3, <2>4, <2>5, <2>6 DEF Written, Output, Started, scanline
<1> QED
  BY <1>6, <1>7
-----------------------------------------------------------------------------
(* The coordinates of what is written are coordinates of what was given, so *)
(* that the result fits wherever both regions do.                           *)
EdgesOf(region) ==
  {x \in Coordinates : \E i \in 1..Len(region) : \E k \in DOMAIN region[i].line :
     x = region[i].line[k].start \/ x = region[i].line[k].end}
RowsOf(region) == {region[i].y : i \in 1..Len(region)}
Edges == EdgesOf(r1) \cup EdgesOf(r2)
Scans == RowsOf(r1) \cup RowsOf(r2)
Placed ==
  /\ Started => currentY \in Scans
  /\ \A i \in 1..Len(output) : output[i].y \in Scans /\ Within(output[i].line, Edges)

LEMMA EdgesAreCoordinates == Edges \subseteq Coordinates /\ Edges \subseteq Int
  BY CoordinatesAreInts DEF Edges, EdgesOf

LEMMA RowOfRanges ==
  ASSUME NEW row \in Seq(Int16Range)
  PROVE  /\ Len(row) \in Nat /\ DOMAIN row = 1..Len(row)
         /\ \A k \in DOMAIN row :
              /\ row[k].start \in Coordinates /\ row[k].end \in Coordinates
              /\ row[k].start \in Int /\ row[k].end \in Int
              /\ row[k] \in ColumnRange
         /\ row \in Seq(ColumnRange)
<1>1. Len(row) \in Nat /\ DOMAIN row = 1..Len(row)
  OBVIOUS
<1>2. ASSUME NEW k \in DOMAIN row
      PROVE  /\ row[k].start \in Coordinates /\ row[k].end \in Coordinates
             /\ row[k] \in ColumnRange
  <2>1. row[k] \in Int16Range
    BY <1>1
  <2> QED
    BY <2>1, CoordinatesAreInts DEF Int16Range, ColumnRange
<1>3. row \in Seq(ColumnRange)
  BY <1>1, <1>2
<1> QED
  BY <1>1, <1>2, <1>3, CoordinatesAreInts

LEMMA LinesAreWithin ==
  ASSUME NEW region, IsRegion(region), NEW n \in 1..(Len(region) + 1)
  PROVE  Within(LineBefore(region, n), EdgesOf(region))
<1>1. Len(region) \in Nat
  BY RegionFacts
<1>2. CASE n = 1
  BY <1>2 DEF LineBefore, Within
<1>3. CASE n # 1
  <2>1. n - 1 \in 1..Len(region) /\ LineBefore(region, n) = region[n - 1].line
    BY <1>1, <1>3 DEF LineBefore
  <2>2. \A k \in DOMAIN region[n - 1].line :
          region[n - 1].line[k].start \in Coordinates /\ region[n - 1].line[k].end \in Coordinates
    BY <2>1, RegionFacts, RowOfRanges
  <2> QED
    BY <2>1, <2>2 DEF Within, EdgesOf
<1> QED
  BY <1>2, <1>3

LEMMA BeginsWithin ==
  ASSUME NEW S, NEW o, NEW row1, NEW row2, Ordered(row1), Ordered(row2),
         o \in Operations, Within(row1, S), Within(row2, S), Begin(o, row1, row2)
  PROVE  LineWithin(S)'
<1>1. /\ result' = <<>> /\ d1' = row1 /\ d2' = row2 /\ at' = o
      /\ held' = {} \/ (row2 # <<>> /\ held' = {row2[1]})
  <2>1. result' = <<>> /\ d1' = row1 /\ d2' = row2 /\ at' = o
    BY DEF Begin
  <2>2. held' = {} \/ (row2 # <<>> /\ held' = {row2[1]})
    BY Zenon DEF Begin
  <2> QED
    BY <2>1, <2>2
<1>2. at' \notin {"skip", "cut", "rest"}
  BY <1>1 DEF Operations
<1>3. row2 # <<>> => row2[1] \in ColumnRange /\ RangeWithin(row2[1], S)
  <2>1. ASSUME row2 # <<>>
        PROVE  1 \in DOMAIN row2 /\ 1 \in 1..Len(row2)
    BY <2>1 DEF Ordered
  <2> QED
    BY <2>1, OrderedRow DEF Within, RangeWithin
<1> QED
  BY <1>1, <1>2, <1>3 DEF LineWithin, Within

LEMMA ReadScanlinesPlaces ==
  ASSUME RegionInv, Reading, Reading', RegionInv', Placed, ReadScanlines
  PROVE  Placed' /\ LineWithin(Edges)'
<1>1. UNCHANGED <<r1, r2, output>> /\ Edges' = Edges /\ Scans' = Scans /\ op \in Operations
  BY DEF ReadScanlines, Edges, Scans, RegionInv
<1>2. currentY' \in Scans
  <2>1. Len(r1) \in Nat /\ Len(r2) \in Nat /\ m1 \in 1..(Len(r1) + 1) /\ m2 \in 1..(Len(r2) + 1)
    BY InOrder, RegionFacts DEF RegionInv, Reading
  <2>2. CASE Takes1
    <3>1. m1 \in 1..Len(r1) /\ currentY' = r1[m1].y
      BY <2>1, <2>2 DEF Takes1, More1, ReadScanlines
    <3> QED
      BY <3>1 DEF Scans, RowsOf
  <2>3. CASE ~Takes1
    <3>1. m2 \in 1..Len(r2) /\ currentY' = r2[m2].y
      BY <2>1, <2>3 DEF Takes1, More1, More2, ReadScanlines
    <3> QED
      BY <3>1 DEF Scans, RowsOf
  <2> QED
    BY <2>2, <2>3
<1>3. Placed'
  BY <1>1, <1>2 DEF Placed
<1>4. PICK row1, row2 : row1 = line1' /\ row2 = line2'
  OBVIOUS
<1>5. Within(row1, Edges) /\ Within(row2, Edges) /\ Ordered(row1) /\ Ordered(row2)
  <2>1. /\ IsRegion(r1) /\ IsRegion(r2)
        /\ m1' \in 1..(Len(r1) + 1) /\ m2' \in 1..(Len(r2) + 1)
        /\ line1' = LineBefore(r1, m1') /\ line2' = LineBefore(r2, m2')
    BY <1>1, InOrder DEF RegionInv, Reading
  <2>2. Within(line1', EdgesOf(r1)) /\ Within(line2', EdgesOf(r2))
    BY <2>1, LinesAreWithin
  <2> QED
    BY <1>1, <1>4, <2>2 DEF RegionInv, Within, Edges
<1>6. Begin(op, row1, row2)
  BY <1>4 DEF ReadScanlines
<1>7. PICK S : S = Edges
  OBVIOUS
<1>8. LineWithin(S)'
  BY <1>1, <1>5, <1>6, <1>7, BeginsWithin
<1> QED
  BY <1>1, <1>3, <1>7, <1>8 DEF LineWithin

LEMMA WriteScanlinePlaces ==
  ASSUME RegionInv, Reading, Written, Placed, LineWithin(Edges), WriteScanline,
         \/ output' = output
         \/ output' = Append(output, [y |-> currentY, line |-> result])
  PROVE  Placed' /\ LineWithin(Edges)'
<1>1. /\ UNCHANGED <<r1, r2, m1, m2, currentY, d1, d2, held, a, result>>
      /\ Edges' = Edges /\ Scans' = Scans /\ at = "done" /\ at' = "scan"
  BY DEF WriteScanline, Edges, Scans
<1>2. LineWithin(Edges)'
  BY <1>1 DEF LineWithin
<1>3. Started /\ currentY \in Scans /\ Len(output) \in Nat
  BY <1>1, RegionFacts DEF Reading, Placed, Written
<1>4. ASSUME NEW i \in 1..Len(output')
      PROVE  output'[i].y \in Scans /\ Within(output'[i].line, Edges)
  <2>1. CASE output' = output
    BY <1>4, <2>1 DEF Placed
  <2>2. CASE output' = Append(output, [y |-> currentY, line |-> result])
    <3>1. \/ i \in 1..Len(output) /\ output'[i] = output[i]
          \/ output'[i] = [y |-> currentY, line |-> result]
      BY <1>3, <2>2 DEF Written, IsRegion
    <3>2. CASE i \in 1..Len(output) /\ output'[i] = output[i]
      BY <3>2 DEF Placed
    <3>3. CASE output'[i] = [y |-> currentY, line |-> result]
      BY <1>3, <3>3 DEF LineWithin
    <3> QED
      BY <3>1, <3>2, <3>3
  <2> QED
    BY <2>1, <2>2
<1>5. Placed'
  BY <1>1, <1>3, <1>4 DEF Placed
<1> QED
  BY <1>2, <1>5
-----------------------------------------------------------------------------
(* Of canonical regions no scanline that is left is on the row that was     *)
(* read, and none was written for it, so that what is written is canonical  *)
(* up to its last scanline.                                                 *)
BothRegions == CanonicalRegion(r1) /\ CanonicalRegion(r2)
Sharp ==
  /\ Started => /\ \A i \in m1..Len(r1) : currentY < r1[i].y
                /\ \A i \in m2..Len(r2) : currentY < r2[i].y
  /\ at \notin {"scan", "end"} => \A i \in 1..Len(output) : output[i].y < currentY
  /\ \A i \in 1..Len(output) : Canonical(output[i].line)
  /\ \A i, j \in 1..Len(output) : i < j => output[i].y < output[j].y
  /\ \A i \in 2..Len(output) : output[i - 1].line # output[i].line
  /\ output # <<>> => output[1].line # <<>>

(* rect is the box of what was written, down to currentY.                   *)
LeftOf(scanline, x) == scanline.line # <<>> /\ x = scanline.line[1].start
RightOf(scanline, x) == scanline.line # <<>> /\ x = scanline.line[Len(scanline.line)].end
Boxed ==
  /\ output = <<>> /\ at # "end" =>
       rect.top = Half - 1 /\ rect.left = Half - 1 /\ rect.right = -Half
  /\ output # <<>> =>
       /\ rect.top = output[1].y
       /\ at \in {"scan", "end"} => rect.bottom = currentY
       /\ \A i \in 1..Len(output) : \A k \in DOMAIN output[i].line :
            rect.left <= output[i].line[k].start /\ output[i].line[k].end <= rect.right
       /\ \E i \in 1..Len(output) : LeftOf(output[i], rect.left)
       /\ \E i \in 1..Len(output) : RightOf(output[i], rect.right)

RectTypes == rect \in [top : Coordinates, left : Coordinates, bottom : Coordinates, right : Coordinates]

LEMMA CanonicalOrder ==
  ASSUME NEW region, Scanlines(region), CanonicalRegion(region)
  PROVE  /\ \A i, j \in 1..Len(region) : i < j => region[i].y < region[j].y
         /\ \A n \in 1..(Len(region) + 1) : Canonical(LineBefore(region, n))
<1>1. /\ Len(region) \in Nat /\ DOMAIN region = 1..Len(region)
      /\ \A i \in 1..Len(region) : region[i].y \in Int
  BY InOrder, RegionFacts
<1>2. ASSUME NEW i \in 1..Len(region), NEW j \in 1..Len(region), i < j
      PROVE  region[i].y < region[j].y
  <2>1. j - 1 \in 1..Len(region) /\ i <= j - 1 /\ j > 1
    BY <1>1, <1>2
  <2>2. region[j - 1].y < region[j].y
    BY <1>1, <2>1 DEF CanonicalRegion
  <2>3. region[i].y <= region[j - 1].y
    BY <2>1, InOrder
  <2> QED
    BY <1>1, <2>1, <2>2, <2>3
<1>3. ASSUME NEW n \in 1..(Len(region) + 1)
      PROVE  Canonical(LineBefore(region, n))
  <2>1. CASE n = 1
    BY <2>1 DEF LineBefore, Canonical
  <2>2. CASE n # 1
    <3>1. n - 1 \in 1..Len(region)
      BY <1>1, <2>2
    <3> QED
      BY <1>1, <2>2, <3>1 DEF LineBefore, CanonicalRegion
  <2> QED
    BY <2>1, <2>2
<1> QED
  BY <1>2, <1>3

(* what the step of a reader leaves, of either region                       *)
LEMMA LeavesBelow ==
  ASSUME NEW region, Scanlines(region), CanonicalRegion(region),
         NEW m \in 1..(Len(region) + 1), NEW n, NEW y \in Int,
         \/ n = m /\ (m \in 1..Len(region) => y < region[m].y)
         \/ m \in 1..Len(region) /\ region[m].y = y /\ n = m + 1
  PROVE  \A i \in n..Len(region) : y < region[i].y
<1>1. /\ Len(region) \in Nat
      /\ \A i \in 1..Len(region) : region[i].y \in Int
      /\ \A i, j \in 1..Len(region) : i < j => region[i].y < region[j].y
  BY InOrder, RegionFacts, CanonicalOrder
<1>2. ASSUME NEW i \in n..Len(region)
      PROVE  y < region[i].y
  <2>1. m \in 1..Len(region) /\ i \in 1..Len(region) /\ m <= i
    BY <1>1
  <2>2. CASE n = m /\ y < region[m].y
    <3>1. i = m \/ region[m].y < region[i].y
      BY <1>1, <2>1
    <3> QED
      BY <1>1, <2>1, <2>2, <3>1
  <2>3. CASE region[m].y = y /\ n = m + 1
    <3>1. m < i
      BY <1>1, <2>3
    <3> QED
      BY <1>1, <2>1, <2>3, <3>1
  <2> QED
    BY <2>1, <2>2, <2>3
<1> QED
  BY <1>2

LEMMA ReadScanlinesSharp ==
  ASSUME RegionInv, Reading, Written, BothRegions, Sharp, Boxed, ReadScanlines
  PROVE  Sharp' /\ Boxed' /\ BothRegions'
<1>1. /\ Scanlines(r1) /\ Scanlines(r2) /\ Len(r1) \in Nat /\ Len(r2) \in Nat
      /\ CanonicalRegion(r1) /\ CanonicalRegion(r2)
      /\ m1 \in 1..(Len(r1) + 1) /\ m2 \in 1..(Len(r2) + 1)
      /\ \A i \in 1..Len(r1) : r1[i].y \in Int
      /\ \A i \in 1..Len(r2) : r2[i].y \in Int
      /\ currentY \in Int
  BY InOrder, RegionFacts, CoordinatesAreInts DEF RegionInv, Reading, BothRegions
<1>2. /\ currentY' = IF Takes1 THEN r1[m1].y ELSE r2[m2].y
      /\ m1' = IF Takes1 THEN m1 + 1 ELSE m1
      /\ m2' = IF Takes2 THEN m2 + 1 ELSE m2
      /\ More1 \/ More2
      /\ UNCHANGED <<r1, r2, output, rect>> /\ at' = op /\ op \in Operations
  BY DEF ReadScanlines, RegionInv, Begin
<1>3. /\ More1 <=> m1 \in 1..Len(r1)
      /\ More2 <=> m2 \in 1..Len(r2)
  BY <1>1 DEF More1, More2
<1>4. /\ \/ m1' = m1 /\ (m1 \in 1..Len(r1) => currentY' < r1[m1].y)
         \/ m1 \in 1..Len(r1) /\ r1[m1].y = currentY' /\ m1' = m1 + 1
      /\ currentY' \in Int
  <2>1. CASE Takes1
    BY <1>1, <1>2, <1>3, <2>1 DEF Takes1
  <2>2. CASE ~Takes1
    BY <1>1, <1>2, <1>3, <2>2 DEF Takes1
  <2> QED
    BY <2>1, <2>2
<1>5. \/ m2' = m2 /\ (m2 \in 1..Len(r2) => currentY' < r2[m2].y)
      \/ m2 \in 1..Len(r2) /\ r2[m2].y = currentY' /\ m2' = m2 + 1
  <2>1. CASE Takes2
    BY <1>1, <1>2, <1>3, <2>1 DEF Takes1, Takes2
  <2>2. CASE ~Takes2
    BY <1>1, <1>2, <1>3, <2>2 DEF Takes1, Takes2
  <2> QED
    BY <2>1, <2>2
<1>6. /\ \A i \in m1'..Len(r1) : currentY' < r1[i].y
      /\ \A i \in m2'..Len(r2) : currentY' < r2[i].y
  BY <1>1, <1>4, <1>5, LeavesBelow
<1>7. \A i \in 1..Len(output) : output[i].y < currentY'
  <2>1. CASE Started
    <3>1. currentY < currentY'
      <4>1. CASE m1' # m1
        BY <1>1, <1>4, <2>1, <4>1 DEF Sharp
      <4>2. CASE m1' = m1
        <5>1. ~Takes1 /\ currentY' = r2[m2].y /\ m2 \in 1..Len(r2)
          BY <1>1, <1>2, <1>3, <4>2 DEF Takes1
        <5> QED
          BY <1>1, <2>1, <5>1 DEF Sharp
      <4> QED
        BY <4>1, <4>2
    <3>2. \A i \in 1..Len(output) : output[i].y <= currentY /\ output[i].y \in Int
      BY RegionFacts DEF Written
    <3> QED
      BY <1>1, <1>4, <3>1, <3>2
  <2>2. CASE ~Started
    BY <2>2 DEF Written
  <2> QED
    BY <2>1, <2>2
<1>8. Sharp'
  BY <1>2, <1>6, <1>7 DEF Sharp
<1>9. BothRegions'
  BY <1>2 DEF BothRegions
<1>10. Boxed'
  <2>1. at = "scan" /\ at' \notin {"scan", "end"} /\ output' = output /\ rect' = rect
    BY <1>2 DEF ReadScanlines, Operations
  <2> QED
    BY <2>1 DEF Boxed, LeftOf, RightOf
<1> QED
  BY <1>8, <1>9, <1>10

(* rect after a row                                                         *)
LEMMA RectIncludes ==
  ASSUME RectTypes, NEW row \in Seq(Int16Range), NEW y \in Coordinates, Canonical(row),
         rect' = Including(rect, y, row)
  PROVE  /\ RectTypes' /\ rect'.bottom = y
         /\ row = <<>> => rect'.top = rect.top /\ rect'.left = rect.left /\ rect'.right = rect.right
         /\ row # <<>> =>
              /\ rect'.top = MIN(y, rect.top)
              /\ rect'.left = MIN(row[1].start, rect.left)
              /\ rect'.right = MAX(row[Len(row)].end, rect.right)
              /\ \A k \in DOMAIN row : row[1].start <= row[k].start /\ row[k].end <= row[Len(row)].end
<1>1. CASE row = <<>>
  BY <1>1 DEF Including, RectTypes
<1>2. CASE row # <<>>
  <2>1. /\ 1 \in DOMAIN row /\ Len(row) \in DOMAIN row /\ Len(row) \in Nat
        /\ DOMAIN row = 1..Len(row)
    BY <1>2
  <2>2. /\ row[1].start \in Coordinates /\ row[Len(row)].end \in Coordinates
        /\ \A k \in DOMAIN row : row[k].start \in Int /\ row[k].end \in Int
    BY <2>1, RowOfRanges
  <2>3. rect' = [top |-> MIN(y, rect.top), left |-> MIN(row[1].start, rect.left),
                 right |-> MAX(row[Len(row)].end, rect.right), bottom |-> y]
    BY <1>2 DEF Including
  <2>4. RectTypes'
    BY <2>2, <2>3 DEF RectTypes, MIN, MAX
  <2>5. ASSUME NEW k \in DOMAIN row
        PROVE  row[1].start <= row[k].start /\ row[k].end <= row[Len(row)].end
    <3>1. k = 1 \/ row[1].end < row[k].start
      BY <2>1 DEF Canonical
    <3>2. k = Len(row) \/ row[k].end < row[Len(row)].start
      BY <2>1 DEF Canonical
    <3>3. row[1].start < row[1].end /\ row[Len(row)].start < row[Len(row)].end
      BY <2>1 DEF Canonical
    <3> QED
      BY <2>1, <2>2, <3>1, <3>2, <3>3
  <2> QED
    BY <1>2, <2>3, <2>4, <2>5
<1> QED
  BY <1>1, <1>2

LEMMA WriteScanlineSharp ==
  ASSUME RegionInv, Reading, Written, BothRegions, Sharp, Boxed, RectTypes,
         WriteScanline, result \in Seq(Int16Range)
  PROVE  Sharp' /\ Boxed' /\ BothRegions'
<1>1. /\ at = "done" /\ at' = "scan" /\ Started /\ Started' = Started
      /\ UNCHANGED <<r1, r2, m1, m2, currentY>>
      /\ rect' = Including(rect, currentY, result)
      /\ currentY \in Coordinates /\ currentY \in Int
      /\ d1 = line1 /\ d2 = line2
  BY CoordinatesAreInts DEF WriteScanline, Reading, Started
<1>2. Canonical(result)
  <2>1. Canonical(d1) /\ Canonical(d2)
    BY <1>1, CanonicalOrder DEF RegionInv, Reading, BothRegions
  <2>2. LineIsCanonical
    BY <1>1, DoneIsRight DEF RegionInv, RowsAreSets
  <2> QED
    BY <1>1, <2>1, <2>2 DEF LineIsCanonical
<1>3. /\ IsRegion(output) /\ Len(output) \in Nat
      /\ lastWritten = LineBefore(output, Len(output) + 1)
      /\ \A i \in 1..Len(output) : output[i].y \in Int /\ output[i].line \in Seq(Int16Range)
      /\ \A i \in 1..Len(output) : output[i].y < currentY
  BY <1>1, RegionFacts DEF Written, Sharp
<1>4. BothRegions'
  BY <1>1 DEF BothRegions
<1>5. /\ RectTypes' /\ rect'.bottom = currentY
      /\ result = <<>> => rect'.top = rect.top /\ rect'.left = rect.left /\ rect'.right = rect.right
      /\ result # <<>> =>
           /\ rect'.top = MIN(currentY, rect.top)
           /\ rect'.left = MIN(result[1].start, rect.left)
           /\ rect'.right = MAX(result[Len(result)].end, rect.right)
           /\ \A k \in DOMAIN result :
                result[1].start <= result[k].start /\ result[k].end <= result[Len(result)].end
  BY <1>1, <1>2, RectIncludes
<1>6. /\ rect.top \in Int /\ rect.left \in Int /\ rect.right \in Int
      /\ rect'.top \in Int /\ rect'.left \in Int /\ rect'.right \in Int
  BY <1>5, CoordinatesAreInts DEF RectTypes
<1>7. result # <<>> =>
        /\ 1 \in DOMAIN result /\ Len(result) \in DOMAIN result
        /\ result[1].start \in Coordinates /\ result[Len(result)].end \in Coordinates
        /\ result[1].start \in Int /\ result[Len(result)].end \in Int
  BY RowOfRanges
<1>8. CASE result = lastWritten
  <2>1. output' = output
    BY <1>8 DEF WriteScanline
  <2>2. Sharp'
    BY <1>1, <2>1 DEF Sharp
  <2>3. CASE output = <<>>
    <3>1. result = <<>>
      BY <1>3, <1>8, <2>3 DEF LineBefore
    <3> QED
      BY <1>1, <1>4, <1>5, <2>1, <2>2, <2>3, <3>1 DEF Boxed
  <2>4. CASE output # <<>>
    <3>1. /\ Len(output) \in 1..Len(output) /\ 1 \in 1..Len(output)
          /\ result = output[Len(output)].line
      BY <1>3, <1>8, <2>4 DEF LineBefore
    <3>2. /\ rect.top = output[1].y
          /\ \A k \in DOMAIN result : rect.left <= result[k].start /\ result[k].end <= rect.right
      BY <2>4, <3>1 DEF Boxed
    <3>3. rect'.top = rect.top /\ rect'.left = rect.left /\ rect'.right = rect.right
      <4>1. CASE result = <<>>
        BY <1>5, <4>1
      <4>2. CASE result # <<>>
        <5>1. /\ rect.left <= result[1].start /\ result[Len(result)].end <= rect.right
              /\ rect.top < currentY
          BY <1>3, <1>7, <3>1, <3>2, <4>2
        <5> QED
          BY <1>1, <1>5, <1>6, <1>7, <4>2, <5>1 DEF MIN, MAX
      <4> QED
        BY <4>1, <4>2
    <3> QED
      BY <1>1, <1>4, <1>5, <2>1, <2>2, <2>4, <3>3 DEF Boxed
  <2> QED
    BY <1>4, <2>2, <2>3, <2>4
<1>9. CASE result # lastWritten
  <2> DEFINE scanline == [y |-> currentY, line |-> result]
  <2>1. output' = Append(output, scanline)
    BY <1>9 DEF WriteScanline
  <2>2. scanline \in [y : Coordinates, line : Seq(Int16Range)] /\ scanline.y = currentY /\ scanline.line = result
    BY <1>1
  <2> HIDE DEF scanline
  <2>3. /\ Len(output') = Len(output) + 1 /\ output' # <<>>
        /\ output'[Len(output) + 1] = scanline
        /\ \A i \in 1..Len(output) : output'[i] = output[i]
    BY <1>3, <2>1, <2>2 DEF IsRegion
  <2>4. \A i \in 1..Len(output') : i = Len(output) + 1 \/ i \in 1..Len(output)
    BY <1>3, <2>3
  <2>5. output = <<>> => Len(output) = 0 /\ result # <<>>
    BY <1>3, <1>9 DEF LineBefore
  <2>6. output # <<>> => /\ 1 \in 1..Len(output) /\ output'[1] = output[1]
                         /\ output[Len(output)].line # result
    BY <1>3, <1>9, <2>3 DEF LineBefore
  <2>7. Sharp'
    <3>1. \A i \in 1..Len(output') : Canonical(output'[i].line)
      BY <1>2, <2>2, <2>3, <2>4 DEF Sharp
    <3>2. ASSUME NEW i \in 1..Len(output'), NEW j \in 1..Len(output'), i < j
          PROVE  output'[i].y < output'[j].y
      <4>1. i \in 1..Len(output) /\ output'[i] = output[i]
        BY <1>3, <2>3, <3>2
      <4>2. CASE j = Len(output) + 1
        BY <1>3, <2>2, <2>3, <4>1, <4>2
      <4>3. CASE j \in 1..Len(output)
        BY <2>3, <3>2, <4>1, <4>3 DEF Sharp
      <4> QED
        BY <2>4, <4>2, <4>3
    <3>3. ASSUME NEW i \in 2..Len(output')
          PROVE  output'[i - 1].line # output'[i].line
      <4>1. i - 1 \in 1..Len(output) /\ output'[i - 1] = output[i - 1]
        BY <1>3, <2>3
      <4>2. CASE i = Len(output) + 1
        <5>1. i - 1 = Len(output) /\ output # <<>>
          BY <1>3, <4>1, <4>2
        <5> QED
          BY <2>2, <2>3, <2>6, <4>1, <4>2, <5>1
      <4>3. CASE i # Len(output) + 1
        <5>1. i \in 2..Len(output) /\ output'[i] = output[i]
          BY <1>3, <2>3, <4>3
        <5> QED
          BY <4>1, <5>1 DEF Sharp
      <4> QED
        BY <4>2, <4>3
    <3>4. output'[1].line # <<>>
      BY <2>2, <2>3, <2>5, <2>6 DEF Sharp
    <3> QED
      BY <1>1, <3>1, <3>2, <3>3, <3>4 DEF Sharp
  <2>8. CASE output = <<>>
    <3>1. /\ Len(output') = 1 /\ output'[1] = scanline /\ result # <<>>
          /\ rect.top = Half - 1 /\ rect.left = Half - 1 /\ rect.right = -Half
      BY <1>1, <2>3, <2>5, <2>8 DEF Boxed
    <3>2. /\ rect'.top = currentY
          /\ rect'.left = result[1].start /\ rect'.right = result[Len(result)].end
      BY <1>1, <1>5, <1>7, <3>1, CoordinatesAreInts DEF MIN, MAX, Coordinates
    <3>3. \A i \in 1..Len(output') : i = 1
      BY <3>1
    <3>4. LeftOf(output'[1], rect'.left) /\ RightOf(output'[1], rect'.right) /\ 1 \in 1..Len(output')
      BY <2>2, <3>1, <3>2 DEF LeftOf, RightOf
    <3>5. \A k \in DOMAIN output'[1].line :
            rect'.left <= output'[1].line[k].start /\ output'[1].line[k].end <= rect'.right
      BY <1>5, <2>2, <3>1, <3>2
    <3>6. output'[1].y = rect'.top
      BY <2>2, <3>1, <3>2
    <3> QED
      BY <1>1, <1>4, <1>5, <2>3, <2>7, <3>3, <3>4, <3>5, <3>6 DEF Boxed
  <2>9. CASE output # <<>>
    <3>1. /\ rect.top = output[1].y /\ rect.top < currentY /\ output'[1] = output[1]
          /\ \A i \in 1..Len(output) : \A k \in DOMAIN output[i].line :
               rect.left <= output[i].line[k].start /\ output[i].line[k].end <= rect.right
      BY <1>3, <2>6, <2>9 DEF Boxed
    <3>2. /\ rect'.top = rect.top /\ rect'.left <= rect.left /\ rect.right <= rect'.right
          /\ result # <<>> => rect'.left <= result[1].start /\ result[Len(result)].end <= rect'.right
      <4>1. CASE result = <<>>
        BY <1>5, <1>6, <4>1
      <4>2. CASE result # <<>>
        BY <1>1, <1>5, <1>6, <1>7, <3>1, <4>2 DEF MIN, MAX
      <4> QED
        BY <4>1, <4>2
    <3>3. ASSUME NEW i \in 1..Len(output'), NEW k \in DOMAIN output'[i].line
          PROVE  rect'.left <= output'[i].line[k].start /\ output'[i].line[k].end <= rect'.right
      <4>1. CASE i = Len(output) + 1
        <5>1. k \in DOMAIN result /\ output'[i].line = result /\ result # <<>>
          BY <2>2, <2>3, <4>1
        <5>2. result[k].start \in Int /\ result[k].end \in Int
          BY <5>1, RowOfRanges
        <5> QED
          BY <1>5, <1>6, <1>7, <3>2, <5>1, <5>2
      <4>2. CASE i \in 1..Len(output)
        <5>1. k \in DOMAIN output[i].line /\ output'[i] = output[i]
          BY <2>3, <4>2
        <5>2. output[i].line[k].start \in Int /\ output[i].line[k].end \in Int
          BY <1>3, <4>2, <5>1, RowOfRanges
        <5> QED
          BY <1>6, <3>1, <3>2, <4>2, <5>1, <5>2
      <4> QED
        BY <2>4, <4>1, <4>2
    <3>4. \E i \in 1..Len(output') : LeftOf(output'[i], rect'.left)
      <4>1. CASE result # <<>> /\ rect'.left = result[1].start
        <5>1. Len(output) + 1 \in 1..Len(output')
          BY <1>3, <2>3
        <5>2. LeftOf(output'[Len(output) + 1], rect'.left)
          BY <2>2, <2>3, <4>1 DEF LeftOf
        <5> QED
          BY <5>1, <5>2
      <4>2. CASE rect'.left = rect.left
        <5>1. PICK i \in 1..Len(output) : LeftOf(output[i], rect.left)
          BY <2>9 DEF Boxed
        <5> QED
          BY <1>3, <2>3, <4>2, <5>1 DEF LeftOf
      <4> QED
        BY <1>5, <4>1, <4>2 DEF MIN
    <3>5. \E i \in 1..Len(output') : RightOf(output'[i], rect'.right)
      <4>1. CASE result # <<>> /\ rect'.right = result[Len(result)].end
        <5>1. Len(output) + 1 \in 1..Len(output')
          BY <1>3, <2>3
        <5>2. RightOf(output'[Len(output) + 1], rect'.right)
          BY <2>2, <2>3, <4>1 DEF RightOf
        <5> QED
          BY <5>1, <5>2
      <4>2. CASE rect'.right = rect.right
        <5>1. PICK i \in 1..Len(output) : RightOf(output[i], rect.right)
          BY <2>9 DEF Boxed
        <5> QED
          BY <1>3, <2>3, <4>2, <5>1 DEF RightOf
      <4> QED
        BY <1>5, <4>1, <4>2 DEF MAX
    <3> QED
      BY <1>1, <1>4, <1>5, <2>3, <2>7, <3>1, <3>2, <3>3, <3>4, <3>5 DEF Boxed
  <2> QED
    BY <1>4, <2>7, <2>8, <2>9
<1> QED
  BY <1>8, <1>9
-----------------------------------------------------------------------------
LEMMA Remainder ==
  ASSUME NEW n \in Int, NEW w \in Nat \ {0}
  PROVE  n % w \in 0..(w - 1) /\ (n \in 0..(w - 1) => n % w = n)
OBVIOUS

LEMMA Int16Fits ==
  ASSUME NEW v \in Int
  PROVE  Int16(v) \in Coordinates /\ (v \in Coordinates => Int16(v) = v)
<1>1. v + Half \in Int /\ 2 * Half \in Nat \ {0} /\ Half \in Nat
  BY RegionsAssumption
<1>2. (v + Half) % (2 * Half) \in 0..(2 * Half - 1)
  BY <1>1, Remainder
<1>3. v \in Coordinates => (v + Half) % (2 * Half) = v + Half
  <2>1. v \in Coordinates => v + Half \in 0..(2 * Half - 1)
    BY <1>1 DEF Coordinates
  <2> QED
    BY <1>1, <2>1, Remainder
<1> QED
  BY <1>1, <1>2, <1>3 DEF Int16, Coordinates

LEMMA RowAtIs ==
  ASSUME NEW region, NEW y, NEW above, above = {i \in DOMAIN region : region[i].y <= y}
  PROVE  RowAt(region, y) = IF above = {} THEN {} ELSE PointsOf(region[LastOf(above)].line)
<1>1. RowAt(region, y) = LET S == {i \in DOMAIN region : region[i].y <= y}
                         IN  IF S = {} THEN {} ELSE PointsOf(region[LastOf(S)].line)
  BY Zenon DEF RowAt, LastOf
<1> QED
  BY <1>1, Zenon

(* A scanline that is moved, and where every coordinate fits.               *)
Shifted(region, dx, dy) == [i \in DOMAIN region |-> OffsetScanline(region[i], dx, dy)]

LEMMA ShiftedScanline ==
  ASSUME NEW region, IsRegion(region), NEW dx \in Int, NEW dy \in Int
  PROVE  /\ IsRegion(Shifted(region, dx, dy)) /\ Len(Shifted(region, dx, dy)) = Len(region)
         /\ \A i \in 1..Len(region) :
              /\ Shifted(region, dx, dy)[i].y = Int16(region[i].y + dy)
              /\ DOMAIN Shifted(region, dx, dy)[i].line = DOMAIN region[i].line
              /\ \A k \in DOMAIN region[i].line :
                   Shifted(region, dx, dy)[i].line[k] = OffsetRange(region[i].line[k], dx)
<1> DEFINE s == Shifted(region, dx, dy)
           T == [y : Coordinates, line : Seq(Int16Range)]
<1>1. /\ Len(region) \in Nat /\ DOMAIN region = 1..Len(region)
      /\ \A i \in 1..Len(region) : region[i].y \in Int /\ region[i].line \in Seq(Int16Range)
  BY RegionFacts
<1>2. ASSUME NEW i \in 1..Len(region)
      PROVE  /\ s[i] \in T /\ s[i].y = Int16(region[i].y + dy)
             /\ DOMAIN s[i].line = DOMAIN region[i].line
             /\ \A k \in DOMAIN region[i].line : s[i].line[k] = OffsetRange(region[i].line[k], dx)
  <2> DEFINE line == [k \in DOMAIN region[i].line |-> OffsetRange(region[i].line[k], dx)]
  <2>1. s[i] = [y |-> Int16(region[i].y + dy), line |-> line]
    BY <1>1 DEF Shifted, OffsetScanline
  <2>2. Int16(region[i].y + dy) \in Coordinates
    BY <1>1, Int16Fits
  <2>3. /\ Len(region[i].line) \in Nat /\ DOMAIN region[i].line = 1..Len(region[i].line)
        /\ \A k \in DOMAIN region[i].line : OffsetRange(region[i].line[k], dx) \in Int16Range
    <3>1. ASSUME NEW k \in DOMAIN region[i].line
          PROVE  OffsetRange(region[i].line[k], dx) \in Int16Range
      <4>1. region[i].line[k].start \in Int /\ region[i].line[k].end \in Int
        BY <1>1, RowOfRanges
      <4>2. /\ Int16(region[i].line[k].start + dx) \in Coordinates
            /\ Int16(region[i].line[k].end + dx) \in Coordinates
        BY <4>1, Int16Fits
      <4> QED
        BY <4>2 DEF OffsetRange, Int16Range
    <3> QED
      BY <1>1, <3>1, RowOfRanges
  <2>4. line \in Seq(Int16Range)
    BY <2>3
  <2> HIDE DEF s
  <2> QED
    BY <2>1, <2>2, <2>4
<1>3. DOMAIN s = 1..Len(region)
  BY <1>1 DEF Shifted
<1>4. s = [i \in 1..Len(region) |-> s[i]]
  BY <1>1 DEF Shifted
<1> HIDE DEF s, T
<1>5. [i \in 1..Len(region) |-> s[i]] \in Seq(T)
  BY <1>1, <1>2
<1>6. s \in Seq(T) /\ Len(s) = Len(region)
  BY <1>1, <1>3, <1>4, <1>5
<1> QED
  BY <1>2, <1>6 DEF s, T, IsRegion

(* Offset by nothing is nothing.                                            *)
LEMMA ShiftedByNothing ==
  ASSUME NEW region, IsRegion(region)
  PROVE  Shifted(region, 0, 0) = region
<1>1. /\ Len(region) \in Nat /\ DOMAIN region = 1..Len(region)
      /\ \A i \in 1..Len(region) :
           /\ region[i].y \in Coordinates /\ region[i].y \in Int
           /\ region[i].line \in Seq(Int16Range)
           /\ region[i] = [y |-> region[i].y, line |-> region[i].line]
  <2> DEFINE T == [y : Coordinates, line : Seq(Int16Range)]
  <2>1. region \in Seq(T) /\ Len(region) \in Nat /\ DOMAIN region = 1..Len(region)
    BY DEF IsRegion
  <2> HIDE DEF T
  <2>2. ASSUME NEW i \in 1..Len(region)
        PROVE  region[i] = [y |-> region[i].y, line |-> region[i].line]
    <3>1. region[i] \in T
      BY <2>1
    <3> QED
      BY <3>1 DEF T
  <2> QED
    BY <2>1, <2>2, RegionFacts
<1>2. ASSUME NEW i \in 1..Len(region)
      PROVE  OffsetScanline(region[i], 0, 0) = region[i]
  <2>1. ASSUME NEW k \in DOMAIN region[i].line
        PROVE  OffsetRange(region[i].line[k], 0) = region[i].line[k]
    <3>1. /\ region[i].line[k] \in Int16Range
          /\ region[i].line[k].start \in Coordinates /\ region[i].line[k].start \in Int
          /\ region[i].line[k].end \in Coordinates /\ region[i].line[k].end \in Int
      BY <1>1, RowOfRanges
    <3>2. /\ Int16(region[i].line[k].start + 0) = region[i].line[k].start
          /\ Int16(region[i].line[k].end + 0) = region[i].line[k].end
      BY <3>1, Int16Fits
    <3> QED
      BY <3>1, <3>2 DEF OffsetRange, Int16Range
  <2>2. [k \in DOMAIN region[i].line |-> OffsetRange(region[i].line[k], 0)]
          = [k \in DOMAIN region[i].line |-> region[i].line[k]]
    BY <2>1
  <2>3. region[i].line = [k \in DOMAIN region[i].line |-> region[i].line[k]]
    BY <1>1
  <2>4. Int16(region[i].y + 0) = region[i].y
    BY <1>1, Int16Fits
  <2>5. OffsetScanline(region[i], 0, 0) = [y |-> region[i].y, line |-> region[i].line]
    BY <2>2, <2>3, <2>4 DEF OffsetScanline
  <2> QED
    BY <1>1, <2>5
<1>3. [i \in DOMAIN region |-> OffsetScanline(region[i], 0, 0)] = [i \in DOMAIN region |-> region[i]]
  BY <1>1, <1>2
<1>4. region = [i \in DOMAIN region |-> region[i]]
  BY <1>1 DEF IsRegion
<1> QED
  BY <1>3, <1>4 DEF Shifted

(* Rows of a region that is moved, if nothing of it leaves 16 bits.         *)
LEMMA ShiftedRow ==
  ASSUME NEW region, IsRegion(region), NEW dx \in Int, NEW dy \in Int, NEW y \in Int,
         Fits(region, <<dx, dy>>)
  PROVE  RowAt(Shifted(region, dx, dy), y + dy) = {x + dx : x \in RowAt(region, y)}
<1> DEFINE s == Shifted(region, dx, dy)
<1>1. /\ Len(region) \in Nat /\ DOMAIN region = 1..Len(region)
      /\ \A i \in 1..Len(region) : region[i].y \in Int /\ region[i].line \in Seq(Int16Range)
  BY RegionFacts
<1>2. /\ IsRegion(s) /\ Len(s) = Len(region)
      /\ \A i \in 1..Len(region) :
           /\ s[i].y = Int16(region[i].y + dy)
           /\ DOMAIN s[i].line = DOMAIN region[i].line
           /\ \A k \in DOMAIN region[i].line : s[i].line[k] = OffsetRange(region[i].line[k], dx)
  BY ShiftedScanline
<1>3. DOMAIN s = 1..Len(region)
  BY <1>2, RegionFacts
<1> HIDE DEF s
<1>4. \A i \in 1..Len(region) : s[i].y = region[i].y + dy
  BY <1>1, <1>2, Int16Fits DEF Fits
<1>5. ASSUME NEW i \in 1..Len(region)
      PROVE  PointsOf(s[i].line) = {x + dx : x \in PointsOf(region[i].line)}
  <2>1. ASSUME NEW k \in DOMAIN region[i].line
        PROVE  /\ s[i].line[k] = [start |-> region[i].line[k].start + dx,
                                  end |-> region[i].line[k].end + dx]
               /\ region[i].line[k].start \in Int /\ region[i].line[k].end \in Int
    <3>1. region[i].line[k].start \in Int /\ region[i].line[k].end \in Int
      BY <1>1, RowOfRanges
    <3>2. /\ region[i].line[k].start + dx \in Coordinates
          /\ region[i].line[k].end + dx \in Coordinates
      BY <1>1 DEF Fits
    <3>3. /\ Int16(region[i].line[k].start + dx) = region[i].line[k].start + dx
          /\ Int16(region[i].line[k].end + dx) = region[i].line[k].end + dx
      BY <3>1, <3>2, Int16Fits
    <3>4. s[i].line[k] = OffsetRange(region[i].line[k], dx)
      BY <1>2
    <3> QED
      BY <3>1, <3>3, <3>4 DEF OffsetRange
  <2>2. ASSUME NEW k \in DOMAIN region[i].line
        PROVE  Points(s[i].line[k]) = {x + dx : x \in Points(region[i].line[k])}
    <3>1. PICK b, e : b = region[i].line[k].start /\ e = region[i].line[k].end
      OBVIOUS
    <3>2. b \in Int /\ e \in Int /\ Points(region[i].line[k]) = b..(e - 1)
          /\ Points(s[i].line[k]) = (b + dx)..((e + dx) - 1)
      <4>1. b \in Int /\ e \in Int /\ s[i].line[k] = [start |-> b + dx, end |-> e + dx]
        BY <2>1, <3>1
      <4>2. Points(region[i].line[k]) = b..(e - 1)
        BY <3>1 DEF Points
      <4>3. Points(s[i].line[k]) = (b + dx)..((e + dx) - 1)
        BY <4>1 DEF Points
      <4> QED
        BY <4>1, <4>2, <4>3
    <3>3. (b + dx)..((e + dx) - 1) = {x + dx : x \in b..(e - 1)}
      <4>1. ASSUME NEW z \in (b + dx)..((e + dx) - 1)
            PROVE  z - dx \in b..(e - 1) /\ z = (z - dx) + dx
        BY <3>2
      <4>2. ASSUME NEW x \in b..(e - 1)
            PROVE  x + dx \in (b + dx)..((e + dx) - 1)
        BY <3>2
      <4> QED
        BY <4>1, <4>2
    <3> QED
      BY <3>2, <3>3
  <2>3. DOMAIN s[i].line = DOMAIN region[i].line
    BY <1>2
  <2>4. ASSUME NEW z
        PROVE  z \in PointsOf(s[i].line) <=> z \in {x + dx : x \in PointsOf(region[i].line)}
    <3>1. z \in PointsOf(s[i].line) <=> \E k \in DOMAIN region[i].line : z \in Points(s[i].line[k])
      BY <2>3 DEF PointsOf
    <3>2. \A x : x \in PointsOf(region[i].line) <=>
                   \E k \in DOMAIN region[i].line : x \in Points(region[i].line[k])
      BY DEF PointsOf
    <3>3. \A k \in DOMAIN region[i].line :
            z \in Points(s[i].line[k]) <=> \E x \in Points(region[i].line[k]) : z = x + dx
      BY <2>2
    <3> QED
      BY <3>1, <3>2, <3>3
  <2> QED
    BY <2>4
<1>6. PICK above : above = {i \in 1..Len(region) : region[i].y <= y}
  OBVIOUS
<1>7. {i \in DOMAIN s : s[i].y <= y + dy} = above
  BY <1>1, <1>3, <1>4, <1>6
<1>8. {i \in DOMAIN region : region[i].y <= y} = above
  BY <1>1, <1>6
<1>9. RowAt(s, y + dy) = IF above = {} THEN {} ELSE PointsOf(s[LastOf(above)].line)
  BY <1>7, RowAtIs
<1>10. RowAt(region, y) = IF above = {} THEN {} ELSE PointsOf(region[LastOf(above)].line)
  BY <1>8, RowAtIs
<1>11. CASE above = {}
  BY <1>9, <1>10, <1>11 DEF s
<1>12. CASE above # {}
  <2>1. LastOf(above) \in above
    <3>1. above \subseteq 0..Len(region)
      BY <1>1, <1>6
    <3>2. \E i \in above : \A j \in above : j <= i
      BY <1>1, <1>12, <3>1, LargestElement
    <3> QED
      BY <3>2 DEF LastOf
  <2>2. PICK i \in 1..Len(region) : i = LastOf(above)
    BY <1>6, <2>1
  <2>3. RowAt(s, y + dy) = PointsOf(s[i].line) /\ RowAt(region, y) = PointsOf(region[i].line)
    BY <1>9, <1>10, <1>12, <2>2
  <2> QED
    BY <1>5, <2>3 DEF s
<1> QED
  BY <1>11, <1>12
-----------------------------------------------------------------------------
(* When all is read the result is what it should be.                        *)
LEMMA RowAtBefore ==
  ASSUME NEW region, IsRegion(region), NEW y
  PROVE  RowAt(region, y) = RowBefore(region, Len(region) + 1, y)
<1>1. DOMAIN region = 1..((Len(region) + 1) - 1)
  BY RegionFacts
<1>2. Above(region, Len(region) + 1, y) = {i \in DOMAIN region : region[i].y <= y}
  BY <1>1 DEF Above
<1> QED
  BY <1>2, RowAtIs DEF RowBefore

AllIsRead == at = "end" => ~More1 /\ ~More2

LEMMA EndIsRight ==
  ASSUME RegionInv, Reading, Written, AllIsRead, at = "end", NEW y \in Int
  PROVE  RowAt(output, y) = Apply(op, RowAt(r1, y), RowAt(r2, y))
<1>1. /\ IsRegion(r1) /\ IsRegion(r2) /\ IsRegion(output)
      /\ Len(r1) \in Nat /\ Len(r2) \in Nat /\ Len(output) \in Nat
      /\ m1 = Len(r1) + 1 /\ m2 = Len(r2) + 1 /\ currentY \in Int
  <2>1. IsRegion(r1) /\ IsRegion(r2) /\ IsRegion(output) /\ currentY \in Int
    BY InOrder, CoordinatesAreInts DEF RegionInv, Reading, Written
  <2>2. Len(r1) \in Nat /\ Len(r2) \in Nat /\ Len(output) \in Nat
    BY <2>1, RegionFacts
  <2>3. m1 = Len(r1) + 1 /\ m2 = Len(r2) + 1
    BY <2>2 DEF Reading, AllIsRead, More1, More2
  <2> QED
    BY <2>1, <2>2, <2>3
<1>2. /\ RowAt(output, y) = Output(y)
      /\ RowAt(r1, y) = RowBefore(r1, m1, y) /\ RowAt(r2, y) = RowBefore(r2, m2, y)
  BY <1>1, RowAtBefore DEF Output
<1>3. CASE y < currentY
  BY <1>2, <1>3 DEF Written
<1>4. CASE ~(y < currentY)
  <2>1. \A n \in Int : n <= currentY => n <= y
    BY <1>1, <1>4
  <2>2. /\ \A i \in 1..(m1 - 1) : r1[i].y <= y
        /\ \A i \in 1..(m2 - 1) : r2[i].y <= y
        /\ \A i \in 1..((Len(output) + 1) - 1) : output[i].y <= y
    <3>1. /\ \A i \in 1..(m1 - 1) : r1[i].y \in Int /\ r1[i].y <= currentY
          /\ \A i \in 1..(m2 - 1) : r2[i].y \in Int /\ r2[i].y <= currentY
          /\ \A i \in 1..((Len(output) + 1) - 1) : output[i].y \in Int /\ output[i].y <= currentY
      BY <1>1, RegionFacts DEF Reading, Written
    <3> QED
      BY <2>1, <3>1
  <2>3. /\ RowBefore(r1, m1, y) = PointsOf(line1) /\ RowBefore(r2, m2, y) = PointsOf(line2)
        /\ Output(y) = PointsOf(lastWritten)
    BY <1>1, <2>2, RowAfterAll DEF Reading, Written, Output
  <2> QED
    BY <1>2, <2>3 DEF Written
<1> QED
  BY <1>3, <1>4

(* the last scanline of a canonical region is empty, so what ends last is   *)
LEMMA EndIsEmpty ==
  ASSUME RegionInv, Reading, Written, AllIsRead, at = "end", BothRegions, Sharp
  PROVE  lastWritten = <<>>
<1>1. /\ IsRegion(r1) /\ IsRegion(r2) /\ IsRegion(output)
      /\ Len(r1) \in Nat /\ Len(r2) \in Nat /\ Len(output) \in Nat
      /\ m1 = Len(r1) + 1 /\ m2 = Len(r2) + 1
  BY InOrder, RegionFacts DEF RegionInv, Reading, Written, AllIsRead, More1, More2
<1>2. ASSUME NEW region, IsRegion(region), CanonicalRegion(region), Len(region) \in Nat
      PROVE  LineBefore(region, Len(region) + 1) = <<>>
  <2>1. CASE Len(region) = 0
    BY <2>1 DEF LineBefore
  <2>2. CASE Len(region) # 0
    <3>1. region # <<>>
      BY <2>2
    <3> QED
      BY <1>2, <2>2, <3>1 DEF LineBefore, CanonicalRegion
  <2> QED
    BY <2>1, <2>2
<1>3. line1 = <<>> /\ line2 = <<>>
  BY <1>1, <1>2 DEF Reading, BothRegions
<1>4. PointsOf(lastWritten) = {}
  BY <1>3, NoPoints, ApplyNothing DEF Written, RegionInv
<1>5. CASE output = <<>>
  BY <1>1, <1>5 DEF Written, LineBefore
<1>6. CASE output # <<>>
  <2>1. Len(output) \in 1..Len(output) /\ lastWritten = output[Len(output)].line
    BY <1>1, <1>6 DEF Written, LineBefore, IsRegion
  <2>2. Canonical(lastWritten) /\ lastWritten \in Seq(Int16Range)
    BY <1>1, <2>1, RegionFacts DEF Sharp
  <2>3. ASSUME lastWritten # <<>>
        PROVE  FALSE
    <3>1. 1 \in DOMAIN lastWritten
      BY <2>2, <2>3
    <3>2. lastWritten[1].start \in Int /\ lastWritten[1].end \in Int
          /\ lastWritten[1].start < lastWritten[1].end
      BY <2>2, <3>1, RowOfRanges DEF Canonical
    <3>3. lastWritten[1].start \in Points(lastWritten[1])
      BY <3>2 DEF Points
    <3> QED
      BY <1>4, <3>1, <3>3 DEF PointsOf
  <2> QED
    BY <2>3
<1> QED
  BY <1>5, <1>6

LEMMA EndIsCanonical ==
  ASSUME RegionInv, Reading, Written, AllIsRead, at = "end", BothRegions, Sharp
  PROVE  CanonicalRegion(output)
<1>1. /\ Len(output) \in Nat /\ DOMAIN output = 1..Len(output)
      /\ lastWritten = LineBefore(output, Len(output) + 1) /\ lastWritten = <<>>
  BY RegionFacts, EndIsEmpty DEF Written
<1>2. output # <<>> => Len(output) # 0
  BY RegionFacts DEF Written, IsRegion
<1>3. output # <<>> => output[Len(output)].line = <<>>
  BY <1>1, <1>2 DEF LineBefore
<1>4. ASSUME NEW i \in DOMAIN output, i > 1
      PROVE  output[i - 1].y < output[i].y /\ output[i - 1].line # output[i].line
  <2>1. i - 1 \in 1..Len(output) /\ i \in 2..Len(output) /\ i \in 1..Len(output) /\ i - 1 < i
    BY <1>1, <1>4
  <2> QED
    BY <2>1 DEF Sharp
<1> QED
  BY <1>1, <1>3, <1>4 DEF CanonicalRegion, Sharp

(* every row written is the row at its scanline                             *)
LEMMA RowAtScanline ==
  ASSUME NEW region, IsRegion(region), NEW i \in 1..Len(region),
         \A j, k \in 1..Len(region) : j < k => region[j].y < region[k].y
  PROVE  RowAt(region, region[i].y) = PointsOf(region[i].line)
<1>1. /\ Len(region) \in Nat /\ DOMAIN region = 1..Len(region)
      /\ \A j \in 1..Len(region) : region[j].y \in Int
  BY RegionFacts
<1>2. PICK above : above = {j \in DOMAIN region : region[j].y <= region[i].y}
  OBVIOUS
<1>3. i \in above /\ above \subseteq Int /\ \A j \in above : j <= i
  BY <1>1, <1>2
<1>4. LastOf(above) = i
  BY <1>3, LastIs
<1> QED
  BY <1>2, <1>3, <1>4, RowAtIs

LEMMA EndIsBoxed ==
  ASSUME RegionInv, Reading, Written, AllIsRead, at = "end", BothRegions, Sharp, Boxed, RectTypes
  PROVE  LET rows == {y \in Coordinates : RowAt(output, y) # {}}
             columns == UNION {RowAt(output, y) : y \in rows}
         IN  /\ \A y \in rows : rect.top <= y /\ y < rect.bottom
             /\ \A x \in columns : rect.left <= x /\ x < rect.right
             /\ rows # {} =>
                  rect.top \in rows /\ rect.left \in columns /\ rect.right - 1 \in columns
<1> DEFINE rows == {y \in Coordinates : RowAt(output, y) # {}}
           columns == UNION {RowAt(output, y) : y \in rows}
<1>1. /\ IsRegion(output) /\ Len(output) \in Nat /\ DOMAIN output = 1..Len(output)
      /\ \A i \in 1..Len(output) :
           /\ output[i].y \in Coordinates /\ output[i].y \in Int
           /\ output[i].line \in Seq(Int16Range) /\ Canonical(output[i].line)
           /\ output[i].y <= currentY
      /\ currentY \in Int
      /\ rect.top \in Int /\ rect.left \in Int /\ rect.right \in Int
  BY RegionFacts, CoordinatesAreInts DEF Written, Sharp, Reading, RectTypes
(* which of the scanlines holds                                             *)
<1>2. ASSUME NEW y \in Int, RowAt(output, y) # {}
      PROVE  \E i \in 1..Len(output) : output[i].y <= y /\ RowAt(output, y) = PointsOf(output[i].line)
  <2>1. PICK above : above = {j \in DOMAIN output : output[j].y <= y}
    OBVIOUS
  <2>2. above # {} /\ RowAt(output, y) = PointsOf(output[LastOf(above)].line)
    BY <1>2, <2>1, RowAtIs
  <2>3. LastOf(above) \in above
    <3>1. above \subseteq 0..Len(output)
      BY <1>1, <2>1
    <3>2. \E i \in above : \A j \in above : j <= i
      BY <1>1, <2>2, <3>1, LargestElement
    <3> QED
      BY <3>2 DEF LastOf
  <2> QED
    BY <1>1, <2>1, <2>2, <2>3
<1>3. ASSUME NEW y \in rows
      PROVE  /\ rect.top <= y /\ y < rect.bottom
             /\ \A x \in RowAt(output, y) : rect.left <= x /\ x < rect.right
  <2>1. y \in Coordinates /\ y \in Int /\ RowAt(output, y) # {}
    BY CoordinatesAreInts
  <2>2. PICK i \in 1..Len(output) : output[i].y <= y /\ RowAt(output, y) = PointsOf(output[i].line)
    BY <1>2, <2>1
  <2>3. output # <<>> /\ 1 \in 1..Len(output)
    BY <1>1, <2>2
  <2>4. rect.top <= y
    <3>1. output[1].y <= output[i].y
      <4>1. i = 1 \/ 1 < i
        OBVIOUS
      <4> QED
        BY <1>1, <2>3, <4>1 DEF Sharp
    <3> QED
      BY <1>1, <2>1, <2>2, <2>3, <3>1 DEF Boxed
  <2>5. y < rect.bottom
    <3>1. rect.bottom = currentY
      BY <2>3 DEF Boxed
    <3>2. ASSUME currentY <= y
          PROVE  FALSE
      <4>1. \A j \in 1..((Len(output) + 1) - 1) : output[j].y <= y
        BY <1>1, <2>1, <3>2
      <4>2. RowAt(output, y) = PointsOf(lastWritten)
        BY <1>1, <2>1, <4>1, RowAtBefore, RowAfterAll DEF Written
      <4> QED
        BY <2>1, <4>2, EndIsEmpty, NoPoints
    <3> QED
      BY <1>1, <2>1, <3>1, <3>2
  <2>6. ASSUME NEW x \in RowAt(output, y)
        PROVE  rect.left <= x /\ x < rect.right
    <3>1. PICK k \in DOMAIN output[i].line : x \in Points(output[i].line[k])
      BY <2>2 DEF PointsOf
    <3>2. /\ output[i].line[k].start \in Int /\ output[i].line[k].end \in Int
          /\ rect.left <= output[i].line[k].start /\ output[i].line[k].end <= rect.right
      BY <1>1, <2>3, RowOfRanges DEF Boxed
    <3>3. x \in Int /\ output[i].line[k].start <= x /\ x < output[i].line[k].end
      BY <3>1, <3>2 DEF Points
    <3> QED
      BY <1>1, <3>2, <3>3
  <2> QED
    BY <2>4, <2>5, <2>6
<1>4. ASSUME rows # {}
      PROVE  rect.top \in rows /\ rect.left \in columns /\ rect.right - 1 \in columns
  <2>1. output # <<>> /\ 1 \in 1..Len(output)
    <3>1. PICK y \in rows : TRUE
      BY <1>4
    <3>2. y \in Int /\ RowAt(output, y) # {}
      BY CoordinatesAreInts
    <3> QED
      BY <1>1, <1>2, <3>2
  <2>2. ASSUME NEW i \in 1..Len(output), output[i].line # <<>>
        PROVE  /\ output[i].line[1].start \in RowAt(output, output[i].y)
               /\ output[i].line[Len(output[i].line)].end - 1 \in RowAt(output, output[i].y)
               /\ output[i].y \in rows
    <3>1. /\ 1 \in DOMAIN output[i].line /\ Len(output[i].line) \in DOMAIN output[i].line
          /\ \A k \in DOMAIN output[i].line :
               /\ output[i].line[k].start \in Int /\ output[i].line[k].end \in Int
               /\ output[i].line[k].start < output[i].line[k].end
      BY <1>1, <2>2, RowOfRanges DEF Canonical
    <3>2. RowAt(output, output[i].y) = PointsOf(output[i].line)
      BY <1>1, RowAtScanline DEF Sharp
    <3>3. /\ output[i].line[1].start \in Points(output[i].line[1])
          /\ output[i].line[Len(output[i].line)].end - 1 \in Points(output[i].line[Len(output[i].line)])
      BY <3>1 DEF Points
    <3>4. /\ output[i].line[1].start \in PointsOf(output[i].line)
          /\ output[i].line[Len(output[i].line)].end - 1 \in PointsOf(output[i].line)
      BY <3>1, <3>3 DEF PointsOf
    <3> QED
      BY <1>1, <3>2, <3>4
  <2>3. rect.top \in rows
    BY <2>1, <2>2 DEF Boxed, Sharp
  <2>4. rect.left \in columns
    BY <2>1, <2>2 DEF Boxed, LeftOf
  <2>5. rect.right - 1 \in columns
    BY <2>1, <2>2 DEF Boxed, RightOf
  <2> QED
    BY <2>3, <2>4, <2>5
<1> QED
  BY <1>3, <1>4
-----------------------------------------------------------------------------
(* All of it together, until Offset moves the result.                       *)
Unmoved ==
  /\ Reading /\ Written /\ Placed /\ AllIsRead
  /\ BothRegions => Sharp /\ Boxed
SetsInv ==
  /\ RegionInv /\ RectTypes /\ IsRegion(output) /\ LineWithin(Edges)
  /\ at # "end" => moved = <<0, 0>>
  /\ moved = <<0, 0>> => Unmoved
  /\ moved # <<0, 0>> => RegionIsRight

LEMMA SetsInvStart ==
  ASSUME RegionInit
  PROVE  SetsInv
<1>1. /\ m1 = 1 /\ m2 = 1 /\ line1 = <<>> /\ line2 = <<>> /\ lastWritten = <<>> /\ output = <<>>
      /\ currentY = 0 /\ at = "scan" /\ moved = <<0, 0>> /\ op \in Operations
      /\ d1 = <<>> /\ d2 = <<>> /\ result = <<>> /\ held = {}
      /\ rect = [top |-> Half - 1, left |-> Half - 1, bottom |-> -Half, right |-> -Half]
  BY DEF RegionInit
<1>2. RegionInv /\ Len(r1) \in Nat /\ Len(r2) \in Nat /\ Len(output) = 0
  BY <1>1, RegionStart, InOrder, RegionFacts DEF RegionInv
<1>3. RectTypes /\ IsRegion(output) /\ LineWithin(Edges)
  <2>1. RectTypes
    BY <1>1, RegionsAssumption DEF RectTypes, Coordinates
  <2> QED
    BY <1>1, <2>1 DEF IsRegion, LineWithin, Within
<1>4. ~Started /\ Reading /\ Placed /\ AllIsRead
  BY <1>1, <1>2, CoordinatesAreInts DEF Started, Reading, LineBefore, Placed, AllIsRead
<1>5. Written
  <2>1. ASSUME NEW y \in Int
        PROVE  Output(y) = Apply(op, RowBefore(r1, m1, y), RowBefore(r2, m2, y))
    <3>1. Len(output) + 1 = 1
      BY <1>2
    <3>2. Output(y) = {} /\ RowBefore(r1, m1, y) = {} /\ RowBefore(r2, m2, y) = {}
      BY <1>1, <3>1, NothingRead DEF Output
    <3> QED
      BY <1>1, <3>2, ApplyNothing
  <2>2. PointsOf(lastWritten) = Apply(op, PointsOf(line1), PointsOf(line2))
    BY <1>1, NoPoints, ApplyNothing
  <2> QED
    BY <1>1, <1>2, <1>3, <1>4, <2>1, <2>2 DEF Written, LineBefore
<1>6. Sharp /\ Boxed
  BY <1>1, <1>2, <1>4 DEF Sharp, Boxed
<1> QED
  BY <1>1, <1>2, <1>3, <1>4, <1>5, <1>6 DEF SetsInv, Unmoved

(* Steps of the operation, the end and stuttering leave what is read and    *)
(* written alone.                                                           *)
LEMMA UnmovedStays ==
  ASSUME Unmoved, UNCHANGED <<r1, r2, m1, m2, line1, line2, currentY, lastWritten, output>>,
         UNCHANGED <<op, d1, d2>>,
         \/ at' = at /\ rect' = rect
         \/ {at, at'} \cap {"scan", "end"} = {} /\ rect' = rect
         \/ RegionEnd
  PROVE  Unmoved'
<1>1. /\ Started' = Started /\ Scans' = Scans /\ Edges' = Edges
      /\ BothRegions' = BothRegions /\ Reading' /\ Placed'
      /\ at' \in {"scan", "end"} <=> at \in {"scan", "end"}
  BY DEF Unmoved, Started, Scans, Edges, BothRegions, Reading, Placed, RegionEnd
<1>2. Written'
  BY <1>1 DEF Unmoved, Written, Output
<1>3. AllIsRead'
  <2>1. More1' = More1 /\ More2' = More2
    BY DEF More1, More2
  <2> QED
    BY <2>1 DEF Unmoved, AllIsRead, RegionEnd
<1>4. ASSUME BothRegions
      PROVE  Sharp' /\ Boxed'
  <2>1. Sharp /\ Boxed
    BY <1>4 DEF Unmoved
  <2>2. Sharp'
    BY <1>1, <2>1 DEF Sharp
  <2>3. output # <<>> => rect' = rect
    BY DEF RegionEnd
  <2>4. at' # "end" => rect' = rect /\ at # "end"
    BY DEF RegionEnd
  <2>5. CASE output = <<>>
    BY <2>1, <2>2, <2>4, <2>5 DEF Boxed
  <2>6. CASE output # <<>>
    BY <1>1, <2>1, <2>2, <2>3, <2>6 DEF Boxed
  <2> QED
    BY <2>2, <2>5, <2>6
<1> QED
  BY <1>1, <1>2, <1>3, <1>4 DEF Unmoved

LEMMA ResultFits ==
  ASSUME LineInv, LineWithin(Edges)
  PROVE  Within(result, Coordinates) /\ result \in Seq(Int16Range)
<1>1. Within(result, Coordinates)
  BY EdgesAreCoordinates DEF LineWithin, Within
<1>2. result \in Seq(ColumnRange) /\ Len(result) \in Nat /\ DOMAIN result = 1..Len(result)
  BY DEF LineWithin
<1>3. ASSUME NEW i \in 1..Len(result)
      PROVE  result[i] \in Int16Range
  <2>1. result[i] \in ColumnRange
    BY <1>2
  <2> QED
    BY <1>1, <1>2, <2>1 DEF Within, ColumnRange, Int16Range
<1> QED
  BY <1>1, <1>2, <1>3

LEMMA LineNextKeepsRows ==
  ASSUME LineNext
  PROVE  UNCHANGED <<d1, d2>> /\ {at, at'} \cap {"scan", "end"} = {}
<1>1. CASE UnionRange \/ UnionEnd
  BY <1>1 DEF UnionRange, UnionEnd
<1>2. CASE IntersectRange \/ IntersectEnd
  BY <1>2 DEF IntersectRange, IntersectEnd
<1>3. CASE SubtractNext \/ SkipOverlap \/ CutOverlap
  BY <1>3 DEF SubtractNext, SkipOverlap, CutOverlap
<1>4. CASE CutEnd \/ WriteRest \/ SubtractEnd
  BY <1>4 DEF CutEnd, WriteRest, SubtractEnd
<1> QED
  BY <1>1, <1>2, <1>3, <1>4 DEF LineNext

(* What fits of the regions fits of the result.                             *)
LEMMA ResultFitsToo ==
  ASSUME RegionInv, Written, Placed, NEW o \in Int \X Int, Fits(r1, o), Fits(r2, o)
  PROVE  Fits(output, o)
<1>1. /\ IsRegion(r1) /\ IsRegion(r2) /\ IsRegion(output)
      /\ DOMAIN r1 = 1..Len(r1) /\ DOMAIN r2 = 1..Len(r2) /\ DOMAIN output = 1..Len(output)
  BY InOrder, RegionFacts DEF RegionInv, Written
<1>2. ASSUME NEW y \in Scans
      PROVE  y + o[2] \in Coordinates
  BY <1>1 DEF Scans, RowsOf, Fits
<1>3. ASSUME NEW x \in Edges
      PROVE  x + o[1] \in Coordinates
  BY <1>1 DEF Edges, EdgesOf, Fits
<1> QED
  BY <1>1, <1>2, <1>3 DEF Placed, Within, Fits

LEMMA OffsetMoves ==
  ASSUME SetsInv, NEW dx \in Int, NEW dy \in Int, Offset(dx, dy), RegionInv'
  PROVE  SetsInv'
<1>1. /\ at = "end" /\ moved = <<0, 0>> /\ moved' = <<dx, dy>>
      /\ output' = Shifted(output, dx, dy)
      /\ rect' = [top |-> Int16(rect.top + dy), left |-> Int16(rect.left + dx),
                  bottom |-> Int16(rect.bottom + dy), right |-> Int16(rect.right + dx)]
      /\ UNCHANGED lineVars
      /\ UNCHANGED <<r1, r2, m1, m2, line1, line2, currentY, lastWritten>>
  BY DEF Offset, Shifted
<1>2. /\ at' = at /\ op' = op /\ d1' = d1 /\ d2' = d2 /\ held' = held
      /\ a' = a /\ current_start' = current_start /\ result' = result
  BY <1>1 DEF lineVars
<1>3. RegionInv' /\ LineWithin(Edges)' /\ RectTypes' /\ IsRegion(output')
  <2>1. LineWithin(Edges)'
    BY <1>1, <1>2 DEF SetsInv, LineWithin, Edges
  <2>2. RectTypes'
    <3>1. rect.top \in Int /\ rect.left \in Int /\ rect.bottom \in Int /\ rect.right \in Int
      BY CoordinatesAreInts DEF SetsInv, RectTypes
    <3>2. /\ Int16(rect.top + dy) \in Coordinates /\ Int16(rect.left + dx) \in Coordinates
          /\ Int16(rect.bottom + dy) \in Coordinates /\ Int16(rect.right + dx) \in Coordinates
      BY <3>1, Int16Fits
    <3> QED
      BY <1>1, <3>2 DEF RectTypes
  <2>3. IsRegion(output')
    BY <1>1, ShiftedScanline DEF SetsInv
  <2> QED
    BY <2>1, <2>2, <2>3
<1>4. CASE dx = 0 /\ dy = 0
  <2>1. output' = output
    BY <1>1, <1>4, ShiftedByNothing DEF SetsInv
  <2>2. rect' = rect
    <3>1. /\ rect = [top |-> rect.top, left |-> rect.left, bottom |-> rect.bottom, right |-> rect.right]
          /\ rect.top \in Coordinates /\ rect.left \in Coordinates
          /\ rect.bottom \in Coordinates /\ rect.right \in Coordinates
      BY DEF SetsInv, RectTypes
    <3>2. ASSUME NEW v \in Coordinates
          PROVE  Int16(v + 0) = v
      BY CoordinatesAreInts, Int16Fits
    <3> QED
      BY <1>1, <1>4, <3>1, <3>2
  <2>3. Unmoved'
    BY <1>1, <1>2, <2>1, <2>2, UnmovedStays DEF SetsInv
  <2> QED
    BY <1>1, <1>2, <1>3, <1>4, <2>3 DEF SetsInv
<1>5. CASE ~(dx = 0 /\ dy = 0)
  <2>1. moved' # <<0, 0>>
    BY <1>1, <1>5
  <2>2. ASSUME Fits(r1, <<dx, dy>>), Fits(r2, <<dx, dy>>), NEW y \in Coordinates
        PROVE  RowAt(output', y + dy) = {x + dx : x \in Apply(op, RowAt(r1, y), RowAt(r2, y))}
    <3>1. Reading /\ Written /\ Placed /\ AllIsRead /\ RegionInv /\ IsRegion(output) /\ y \in Int
      BY <1>1, CoordinatesAreInts DEF SetsInv, Unmoved
    <3>2. PICK o \in Int \X Int : o = <<dx, dy>>
      <4>1. <<dx, dy>> \in Int \X Int
        OBVIOUS
      <4> QED
        BY <4>1
    <3>3. Fits(output, o)
      BY <2>2, <3>1, <3>2, ResultFitsToo
    <3>4. RowAt(output', y + dy) = {x + dx : x \in RowAt(output, y)}
      BY <1>1, <3>1, <3>2, <3>3, ShiftedRow
    <3> QED
      BY <1>1, <3>1, <3>4, EndIsRight
  <2>3. RegionIsRight'
    BY <1>1, <1>2, <2>2 DEF RegionIsRight, InRange
  <2> QED
    BY <1>1, <1>2, <1>3, <2>1, <2>3 DEF SetsInv
<1> QED
  BY <1>4, <1>5

LEMMA SetsInvStep ==
  ASSUME SetsInv, [RegionNext]_vars
  PROVE  SetsInv'
<1>1. RegionInv'
  BY RegionStep DEF SetsInv
<1>2. CASE ReadScanlines
  <2>1. /\ at = "scan" /\ moved = <<0, 0>> /\ moved' = moved /\ Unmoved
        /\ UNCHANGED <<r1, r2, output, rect>>
        /\ at' = op /\ op \in Operations
    BY <1>2 DEF SetsInv, ReadScanlines, Begin, RegionInv
  <2>2. Reading' /\ Written'
    BY <1>2, <2>1, ReadScanlinesReads DEF SetsInv, Unmoved
  <2>3. Placed' /\ LineWithin(Edges)'
    BY <1>1, <1>2, <2>1, <2>2, ReadScanlinesPlaces DEF SetsInv, Unmoved
  <2>4. BothRegions' => Sharp' /\ Boxed'
    <3>1. BothRegions' = BothRegions
      BY <2>1 DEF BothRegions
    <3> QED
      BY <1>2, <2>1, <3>1, ReadScanlinesSharp DEF SetsInv, Unmoved
  <2>5. AllIsRead'
    BY <2>1 DEF AllIsRead, Operations
  <2>6. Unmoved'
    BY <2>2, <2>3, <2>4, <2>5 DEF Unmoved
  <2> QED
    BY <1>1, <2>1, <2>3, <2>6 DEF SetsInv, RectTypes
<1>3. CASE WriteScanline
  <2>1. /\ at = "done" /\ at' = "scan" /\ moved = <<0, 0>> /\ moved' = moved /\ Unmoved /\ LineInv
        /\ UNCHANGED <<r1, r2>> /\ rect' = Including(rect, currentY, result)
    BY <1>3 DEF SetsInv, WriteScanline, RegionInv
  <2>2. Within(result, Coordinates) /\ result \in Seq(Int16Range)
    BY <2>1, ResultFits DEF SetsInv
  <2>3. /\ Reading' /\ Written'
        /\ \/ output' = output
           \/ output' = Append(output, [y |-> currentY, line |-> result])
    BY <1>3, <2>1, <2>2, WriteScanlineWrites DEF SetsInv, Unmoved
  <2>4. Placed' /\ LineWithin(Edges)'
    BY <1>3, <2>1, <2>3, WriteScanlinePlaces DEF SetsInv, Unmoved
  <2>5. BothRegions' => Sharp' /\ Boxed'
    <3>1. BothRegions' = BothRegions
      BY <2>1 DEF BothRegions
    <3> QED
      BY <1>3, <2>1, <2>2, <3>1, WriteScanlineSharp DEF SetsInv, Unmoved
  <2>6. AllIsRead'
    BY <2>1 DEF AllIsRead
  <2>7. RectTypes' /\ IsRegion(output')
    <3>1. currentY \in Coordinates
      BY <2>1 DEF Unmoved, Reading
    <3>2. CASE result = <<>>
      BY <2>1, <2>3, <3>1, <3>2 DEF SetsInv, RectTypes, Including, Written
    <3>3. CASE result # <<>>
      <4>1. 1 \in DOMAIN result /\ Len(result) \in DOMAIN result
        BY <2>2, <3>3
      <4>2. result[1].start \in Coordinates /\ result[Len(result)].end \in Coordinates
        BY <2>2, <4>1, RowOfRanges
      <4> QED
        BY <2>1, <2>3, <3>1, <3>3, <4>2 DEF SetsInv, RectTypes, Including, MIN, MAX, Written
    <3> QED
      BY <2>3, <3>2, <3>3 DEF Written
  <2>8. Unmoved'
    BY <2>3, <2>4, <2>5, <2>6 DEF Unmoved
  <2> QED
    BY <1>1, <2>1, <2>4, <2>7, <2>8 DEF SetsInv
<1>4. CASE RegionEnd
  <2>1. /\ at = "scan" /\ at' = "end" /\ moved = <<0, 0>> /\ moved' = moved /\ Unmoved
        /\ UNCHANGED <<op, d1, d2, n1, n2, held, a, current_start, result>>
        /\ UNCHANGED <<r1, r2, m1, m2, line1, line2, currentY, lastWritten, output>>
    BY <1>4 DEF SetsInv, RegionEnd
  <2>2. Unmoved'
    BY <1>4, <2>1, UnmovedStays
  <2>3. LineWithin(Edges)'
    BY <2>1 DEF SetsInv, LineWithin, Edges
  <2>4. RectTypes'
    BY <1>4, CoordinatesAreInts DEF SetsInv, RegionEnd, RectTypes, EmptyRect
  <2> QED
    BY <1>1, <2>1, <2>2, <2>3, <2>4 DEF SetsInv
<1>5. CASE LineNext /\ UNCHANGED regionVars
  <2>1. /\ UNCHANGED <<r1, r2, m1, m2, line1, line2, currentY, lastWritten, output>>
        /\ rect' = rect /\ moved' = moved
    BY <1>5 DEF regionVars
  <2>2. UNCHANGED <<d1, d2>> /\ {at, at'} \cap {"scan", "end"} = {}
    BY <1>5, LineNextKeepsRows
  <2>3. LineInv /\ moved = <<0, 0>> /\ Unmoved
    BY <2>2 DEF SetsInv, RegionInv
  <2>4. op' = op /\ LineWithin(Edges)'
    <3>1. PICK S : S = Edges
      OBVIOUS
    <3>2. S \subseteq Int /\ LineWithin(S)
      BY <3>1, EdgesAreCoordinates DEF SetsInv
    <3>3. LineWithin(S)'
      BY <1>5, <2>3, <3>2, LineStepWithin
    <3>4. Edges' = Edges
      BY <2>1 DEF Edges
    <3> QED
      BY <1>5, <2>3, <3>1, <3>3, <3>4, LineStep DEF LineWithin
  <2>5. Unmoved'
    BY <2>1, <2>2, <2>3, <2>4, UnmovedStays
  <2> QED
    BY <1>1, <2>1, <2>3, <2>4, <2>5 DEF SetsInv, RectTypes
<1>6. ASSUME NEW o \in Offsets, Offset(o[1], o[2])
      PROVE  SetsInv'
  BY <1>1, <1>6, OffsetMoves, RegionsAssumption
<1>7. CASE UNCHANGED vars
  <2>1. /\ UNCHANGED <<at, op, d1, d2, n1, n2, held, a, current_start, result>>
        /\ UNCHANGED <<r1, r2, m1, m2, line1, line2, currentY, lastWritten, output>>
        /\ rect' = rect /\ moved' = moved
    BY <1>7 DEF vars, lineVars, regionVars
  <2>2. LineWithin(Edges)'
    BY <2>1 DEF SetsInv, LineWithin, Edges
  <2>3. Unmoved => Unmoved'
    BY <2>1, UnmovedStays
  <2>4. RegionIsRight => RegionIsRight'
    BY <2>1 DEF RegionIsRight, InRange
  <2> QED
    BY <1>1, <2>1, <2>2, <2>3, <2>4 DEF SetsInv, RectTypes
<1> QED
  BY <1>2, <1>3, <1>4, <1>5, <1>6, <1>7 DEF RegionNext

LEMMA RowIsOfColumns ==
  ASSUME NEW region, IsRegion(region), NEW y \in Int, NEW x \in RowAt(region, y)
  PROVE  x \in Int /\ x + 0 = x
<1>1. /\ Len(region) \in Nat /\ DOMAIN region = 1..Len(region)
      /\ \A i \in 1..Len(region) : region[i].line \in Seq(Int16Range)
  BY RegionFacts
<1>2. PICK above : above = {i \in DOMAIN region : region[i].y <= y}
  OBVIOUS
<1>3. above # {} /\ x \in PointsOf(region[LastOf(above)].line)
  BY <1>2, RowAtIs
<1>4. LastOf(above) \in above
  <2>1. above \subseteq 0..Len(region)
    BY <1>1, <1>2
  <2>2. \E i \in above : \A j \in above : j <= i
    BY <1>1, <1>3, <2>1, LargestElement
  <2> QED
    BY <2>2 DEF LastOf
<1>5. region[LastOf(above)].line \in Seq(Int16Range)
  BY <1>1, <1>2, <1>4
<1>6. x \in Int
  BY <1>3, <1>5, RowOfRanges, PointsAreColumns
<1> QED
  BY <1>6

LEMMA TypesAreRight ==
  ASSUME SetsInv
  PROVE  RegionTypeOK
<1>1. /\ at \in Operations \cup {"skip", "cut", "rest", "done", "scan", "end"}
      /\ op \in Operations
  BY DEF SetsInv, RegionInv, LineInv, Operations
<1>2. /\ result \in Seq(ColumnRange) /\ Len(result) \in Nat /\ DOMAIN result = 1..Len(result)
      /\ Within(result, Coordinates)
      /\ \A h \in held : h \in ColumnRange /\ RangeWithin(h, Coordinates)
  <2>1. result \in Seq(ColumnRange) /\ Within(result, Edges) /\ held \subseteq ColumnRange
        /\ \A h \in held : RangeWithin(h, Edges)
    BY DEF SetsInv, LineWithin
  <2>2. Len(result) \in Nat /\ DOMAIN result = 1..Len(result)
    BY <2>1
  <2> QED
    BY <2>1, <2>2, EdgesAreCoordinates DEF Within, RangeWithin
<1>3. ASSUME NEW i \in 1..Len(result)
      PROVE  result[i] \in Int16Range
  <2>1. result[i] \in ColumnRange
    BY <1>2
  <2> QED
    BY <1>2, <2>1 DEF Within, ColumnRange, Int16Range
<1>4. result \in Seq(Int16Range)
  BY <1>2, <1>3
<1>5. held \subseteq Int16Range
  BY <1>2 DEF ColumnRange, RangeWithin, Int16Range
<1>6. \A i \in DOMAIN output : output[i].y \in Coordinates /\ output[i].line \in Seq(Int16Range)
  BY RegionFacts DEF SetsInv
<1>7. \A side \in DOMAIN rect : rect[side] \in Coordinates
  BY DEF SetsInv, RectTypes
<1> QED
  BY <1>1, <1>4, <1>5, <1>6, <1>7 DEF RegionTypeOK

(* The operations on regions are those on sets of pixels: whatever the      *)
(* regions, RegionOp (region.cc) gives the scanlines of the union, the      *)
(* intersection or the difference of their pixels, in the one form that is  *)
(* canonical and with its true box when theirs are; and Offset moves every  *)
(* pixel as long as no coordinate leaves 16 bits.                           *)
THEOREM RegionsAreSetsOfPixels == RegionSpec => []RegionsAreSets
<1>1. SetsInv => RegionsAreSets
  <2>1. ASSUME SetsInv
        PROVE  RegionsAreSets
    <3>1. RegionTypeOK
      BY <2>1, TypesAreRight
    <3>2. ASSUME at = "end", moved = <<0, 0>>
          PROVE  /\ RegionInv /\ Reading /\ Written /\ AllIsRead /\ RectTypes
                 /\ BothRegions => Sharp /\ Boxed
      BY <2>1, <3>2 DEF SetsInv, Unmoved
    <3>3. RegionIsRight
      <4>1. CASE moved # <<0, 0>>
        BY <2>1, <4>1 DEF SetsInv
      <4>2. ASSUME moved = <<0, 0>>, at = "end", NEW y \in Coordinates
            PROVE  RowAt(output, y + moved[2]) =
                     {x + moved[1] : x \in Apply(op, RowAt(r1, y), RowAt(r2, y))}
        <5>1. y \in Int /\ moved[1] = 0 /\ moved[2] = 0 /\ y + 0 = y
          BY <4>2, CoordinatesAreInts
        <5>2. RowAt(output, y) = Apply(op, RowAt(r1, y), RowAt(r2, y))
          BY <3>2, <4>2, <5>1, EndIsRight
        <5>3. \A x \in RowAt(output, y) : x \in Int /\ x + 0 = x
          <6>1. IsRegion(output)
            BY <2>1 DEF SetsInv
          <6> QED
            BY <6>1, <5>1, RowIsOfColumns
        <5>4. {x + 0 : x \in RowAt(output, y)} = RowAt(output, y)
          BY <5>3
        <5> QED
          BY <5>1, <5>2, <5>4
      <4> QED
        BY <4>1, <4>2 DEF RegionIsRight
    <3>4. RegionIsCanonical
      BY <3>2, EndIsCanonical DEF RegionIsCanonical, BothRegions
    <3>5. Boxes
      BY <3>2, EndIsBoxed DEF Boxes, BothRegions
    <3> QED
      BY <3>1, <3>3, <3>4, <3>5 DEF RegionsAreSets
  <2> QED
    BY <2>1
<1> QED
  BY <1>1, SetsInvStart, SetsInvStep, PTL DEF RegionSpec
=============================================================================
