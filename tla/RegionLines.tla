---------------------------- MODULE RegionLines ----------------------------
(***************************************************************************)
(* The set operations on one row of a region, emu/graphics/region.cc: a row *)
(* is a list of ranges [start, end) of columns.  Union, Intersect and       *)
(* Subtract each read two rows from left to right.  One step is one         *)
(* iteration of their loops.                                                *)
(***************************************************************************)
EXTENDS Integers, Sequences

CONSTANT Rows  (* the rows that may be given                                *)

ColumnRange == [start : Int, end : Int]
(* ranges from left to right with a column between any two; a rectangle     *)
(* without pixels makes a range without columns                             *)
Ordered(row) ==
  /\ row \in Seq(ColumnRange)
  /\ \A i \in DOMAIN row : row[i].start <= row[i].end
  /\ \A i, j \in DOMAIN row : i < j => row[i].end < row[j].start
ASSUME RowsAssumption == \A row \in Rows : Ordered(row)

VARIABLES
  at,      (* the loop that is executing; "done" when the row is computed   *)
  op,      (* the operation                                                 *)
  d1, d2,  (* its rows                                                      *)
  n1, n2,  (* what the readers r1 and r2 read next                          *)
  held,    (* union_range or potential_overlap: a set of at most one range  *)
  a, current_start,  (* of Subtract                                         *)
  result

lineVars == <<at, op, d1, d2, n1, n2, held, a, current_start, result>>

MAX(x, y) == IF x > y THEN x ELSE y
MIN(x, y) == IF x < y THEN x ELSE y
HasNext1 == n1 <= Len(d1)
HasNext2 == n2 <= Len(d2)
NoRange == [start |-> 0, end |-> 0]
Operations == {"Union", "Intersect", "Subtract"}

(* Subtract loads its first potential overlap before the loop               *)
Begin(operation, row1, row2) ==
  /\ op' = operation /\ d1' = row1 /\ d2' = row2
  /\ n1' = 1 /\ result' = <<>>
  /\ a' = NoRange /\ current_start' = 0
  /\ IF operation = "Subtract" /\ row2 # <<>>
     THEN n2' = 2 /\ held' = {row2[1]} ELSE n2' = 1 /\ held' = {}
  /\ at' = operation

LineInit ==
  /\ op \in Operations /\ d1 \in Rows /\ d2 \in Rows
  /\ n1 = 1 /\ result = <<>>
  /\ a = NoRange /\ current_start = 0
  /\ \/ op = "Subtract" /\ d2 # <<>> /\ n2 = 2 /\ held = {d2[1]}
     \/ (op # "Subtract" \/ d2 = <<>>) /\ n2 = 1 /\ held = {}
  /\ at = op
-----------------------------------------------------------------------------
(* the range that starts first; of two that start together the second row's *)
FromFirst == ~HasNext2 \/ (HasNext1 /\ d1[n1].start < d2[n2].start)
NextRange == IF FromFirst THEN d1[n1] ELSE d2[n2]

Touches(u, next) == next.start <= u.end
LastEnd(u, next) == [u EXCEPT !.end = next.end]  \* mutant: no MAX
Extended(u, next) == [u EXCEPT !.end = MAX(next.end, u.end)]

UnionRange ==
  /\ at = "Union" /\ (HasNext1 \/ HasNext2)
  /\ n1' = IF FromFirst THEN n1 + 1 ELSE n1
  /\ n2' = IF FromFirst THEN n2 ELSE n2 + 1
  /\ \/ held = {} /\ held' = {NextRange} /\ UNCHANGED result
     \/ \E u \in held :
          /\ Touches(u, NextRange)
          /\ held' = {Extended(u, NextRange)} /\ UNCHANGED result
     \/ \E u \in held :
          /\ ~Touches(u, NextRange)
          /\ held' = {NextRange} /\ result' = Append(result, u)
  /\ UNCHANGED <<at, op, d1, d2, a, current_start>>

UnionEnd ==
  /\ at = "Union" /\ ~HasNext1 /\ ~HasNext2
  /\ \/ held = {} /\ UNCHANGED result
     \/ \E u \in held : result' = Append(result, u)
  /\ held' = {} /\ at' = "done"
  /\ UNCHANGED <<op, d1, d2, n1, n2, a, current_start>>

(* the range that ends first is done with                                   *)
Common(v1, v2) == [start |-> MAX(v1.start, v2.start), end |-> MIN(v1.end, v2.end)]
IntersectRange ==
  LET v1 == d1[n1]
      v2 == d2[n2]
      common == Common(v1, v2)
  IN /\ at = "Intersect" /\ HasNext1 /\ HasNext2
     /\ result' = IF common.start < common.end THEN Append(result, common) ELSE result
     /\ n1' = IF v1.end < v2.end THEN n1 + 1 ELSE n1
     /\ n2' = IF v1.end < v2.end THEN n2 ELSE n2 + 1
     /\ UNCHANGED <<at, op, d1, d2, held, a, current_start>>

IntersectEnd ==
  /\ at = "Intersect" /\ ~(HasNext1 /\ HasNext2)
  /\ at' = "done"
  /\ UNCHANGED <<op, d1, d2, n1, n2, held, a, current_start, result>>

TryLoadNextOverlap ==
  IF HasNext2 THEN held' = {d2[n2]} /\ n2' = n2 + 1
              ELSE held' = {} /\ UNCHANGED n2

SubtractNext ==
  /\ at = "Subtract" /\ HasNext1
  /\ a' = d1[n1] /\ current_start' = d1[n1].start /\ n1' = n1 + 1
  /\ at' = "skip"
  /\ UNCHANGED <<op, d1, d2, n2, held, result>>

SkipOverlap ==
  /\ at = "skip"
  /\ \/ /\ \E b \in held : b.end <= a.start
        /\ TryLoadNextOverlap
        /\ UNCHANGED at
     \/ /\ \A b \in held : b.end > a.start
        /\ at' = "cut" /\ UNCHANGED <<held, n2>>
  /\ UNCHANGED <<op, d1, d2, n1, a, current_start, result>>

(* an overlap that reaches past `a' is kept for the next range              *)
CutOverlap ==
  /\ at = "cut"
  /\ \E b \in held :
       /\ b.start < a.end
       /\ result' = IF current_start < b.start
                    THEN Append(result, [start |-> current_start,
                                         end |-> MIN(b.start, a.end)])
                    ELSE result
       /\ current_start' = MAX(current_start, b.end)
       /\ IF current_start' >= a.end
          THEN at' = "rest" /\ UNCHANGED <<held, n2>>
          ELSE TryLoadNextOverlap /\ UNCHANGED at
  /\ UNCHANGED <<op, d1, d2, n1, a>>

CutEnd ==
  /\ at = "cut" /\ \A b \in held : b.start >= a.end
  /\ at' = "rest"
  /\ UNCHANGED <<op, d1, d2, n1, n2, held, a, current_start, result>>

WriteRest ==
  /\ at = "rest"
  /\ result' = IF current_start < a.end
               THEN Append(result, [start |-> current_start, end |-> a.end])
               ELSE result
  /\ at' = "Subtract"
  /\ UNCHANGED <<op, d1, d2, n1, n2, held, a, current_start>>

SubtractEnd ==
  /\ at = "Subtract" /\ ~HasNext1
  /\ at' = "done"
  /\ UNCHANGED <<op, d1, d2, n1, n2, held, a, current_start, result>>

LineNext ==
  \/ UnionRange \/ UnionEnd
  \/ IntersectRange \/ IntersectEnd
  \/ SubtractNext \/ SkipOverlap \/ CutOverlap \/ CutEnd \/ WriteRest \/ SubtractEnd

LineSpec == LineInit /\ [][LineNext]_lineVars
-----------------------------------------------------------------------------
Points(range) == range.start .. (range.end - 1)
PointsOf(row) == UNION {Points(row[i]) : i \in DOMAIN row}

Apply(operation, s, t) ==
  CASE operation = "Union" -> s \cup t
    [] operation = "Intersect" -> s \cap t
    [] operation = "Subtract" -> s \ t

(* ranges that are not empty, from left to right, with a column between     *)
(* any two                                                                  *)
Canonical(row) ==
  /\ \A i \in DOMAIN row : row[i].start < row[i].end
  /\ \A i, j \in DOMAIN row : i < j => row[i].end < row[j].start

(* "Boolean set operations that process a single row of ranges" (region.h): *)
(* the row computed has exactly the columns it should, and is in the form   *)
(* the operations rely on and RegionOp compares.                            *)
LineIsRight ==
  at = "done" => PointsOf(result) = Apply(op, PointsOf(d1), PointsOf(d2))
LineIsCanonical ==
  at = "done" /\ Canonical(d1) /\ Canonical(d2) => Canonical(result)

(* Rows of ranges are sets of columns, each written in one way.             *)
RowsAreSets == LineIsRight /\ LineIsCanonical
=============================================================================
