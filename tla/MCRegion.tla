------------------------------ MODULE MCRegion ------------------------------
(* Region for TLC: every canonical region on one row of five columns and on *)
(* three rows of two, and two rectangles without pixels.                    *)
EXTENDS Region, SequencesExt

RowOf(columns) ==
  LET starts == SetToSortSeq({x \in columns : x - 1 \notin columns}, <)
      EndOf(x) == CHOOSE e \in x .. Half :
                    e \notin columns /\ \A z \in x .. e - 1 : z \in columns
  IN [i \in DOMAIN starts |-> [start |-> starts[i], end |-> EndOf(starts[i])]]

(* f gives the columns of rows 0 .. n - 1                                   *)
RegionOf(f, n) ==
  LET At(y) == IF y \in 0 .. n - 1 THEN f[y] ELSE {}
      changes == SetToSortSeq({y \in 0 .. n : At(y) # At(y - 1)}, <)
  IN [i \in DOMAIN changes |-> [y |-> changes[i], line |-> RowOf(At(changes[i]))]]

Wide == {RegionOf(f, 1) : f \in [0 .. 0 -> SUBSET (0 .. 4)]}
Tall == {RegionOf(f, 3) : f \in [0 .. 2 -> SUBSET (0 .. 1)]}
Degenerate ==
  {NewRectRegion([top |-> 1, left |-> 0, bottom |-> 1, right |-> 2]),
   NewRectRegion([top |-> 0, left |-> 1, bottom |-> 2, right |-> 1])}
MCRegions == Wide \cup Tall \cup Degenerate
MCRows == {}
MCOffsets == {<<1, -2>>, <<3, 4>>}
=============================================================================
