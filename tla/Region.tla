------------------------------- MODULE Region -------------------------------
(***************************************************************************)
(* Regions, emu/graphics/region.cc: a region is a list of scanlines, each a *)
(* row number and the row that holds from there to the next scanline.       *)
(* RegionOp reads two of them from top to bottom and applies an operation   *)
(* of RegionLines whenever one of the rows changes.                         *)
(***************************************************************************)
EXTENDS RegionLines, FiniteSets

CONSTANTS
  Regions,  (* the regions that may be given                                *)
  Offsets,  (* the <<dx, dy>> that may be given to Offset                   *)
  Half      (* an int16_t is in -Half .. Half - 1                           *)

Coordinates == -Half .. Half - 1
Int16Range == [start : Coordinates, end : Coordinates]

(* scanlines are in order, two of them on one row for a rectangle without   *)
(* height                                                                   *)
ASSUME RegionsAssumption ==
  /\ Half \in Nat \ {0} /\ Offsets \subseteq Int \X Int
  /\ \A region \in Regions :
       /\ region \in Seq([y : Coordinates, line : Seq(Int16Range)])
       /\ \A i \in DOMAIN region : Ordered(region[i].line)
       /\ \A i, j \in DOMAIN region : i < j => region[i].y <= region[j].y

VARIABLES
  r1, r2,        (* the regions                                             *)
  m1, m2,        (* what their readers read next                            *)
  line1, line2,  (* the rows that hold                                      *)
  currentY, lastWritten, output, rect,
  moved          (* how far Offset has moved the result                     *)

regionVars == <<r1, r2, m1, m2, line1, line2, currentY, lastWritten, output,
                rect, moved>>
vars == <<lineVars, regionVars>>

EmptyRect == [top |-> 0, left |-> 0, bottom |-> 0, right |-> 0]

NewRectRegion(r) ==
  << [y |-> r.top, line |-> <<[start |-> r.left, end |-> r.right]>>],
     [y |-> r.bottom, line |-> <<>>] >>

RegionInit ==
  /\ op \in Operations /\ r1 \in Regions /\ r2 \in Regions
  /\ m1 = 1 /\ m2 = 1
  /\ line1 = <<>> /\ line2 = <<>> /\ lastWritten = <<>> /\ output = <<>>
  /\ currentY = 0
  /\ rect = [top |-> Half - 1, left |-> Half - 1, bottom |-> -Half, right |-> -Half]
  /\ moved = <<0, 0>>
  /\ d1 = <<>> /\ d2 = <<>> /\ n1 = 1 /\ n2 = 1 /\ result = <<>>
  /\ held = {} /\ a = NoRange /\ current_start = 0
  /\ at = "scan"

More1 == m1 <= Len(r1)
More2 == m2 <= Len(r2)
Takes1 == More1 /\ (More2 => r1[m1].y <= r2[m2].y)
TakesLater2 == More2 /\ (More1 => r2[m2].y < r1[m1].y)  \* mutant: one at a time
Takes2 == More2 /\ (More1 => r2[m2].y <= r1[m1].y)

AdvanceScanline(line, scanline) == scanline.line

(* reads the scanlines that come next and applies the operation             *)
ReadScanlines ==
  /\ at = "scan" /\ (More1 \/ More2)
  /\ line1' = IF Takes1 THEN AdvanceScanline(line1, r1[m1]) ELSE line1
  /\ line2' = IF Takes2 THEN AdvanceScanline(line2, r2[m2]) ELSE line2
  /\ currentY' = IF Takes1 THEN r1[m1].y ELSE r2[m2].y
  /\ m1' = IF Takes1 THEN m1 + 1 ELSE m1
  /\ m2' = IF Takes2 THEN m2 + 1 ELSE m2
  /\ Begin(op, line1', line2')
  /\ UNCHANGED <<r1, r2, lastWritten, output, rect, moved>>

Including(r, y, row) ==
  IF row = <<>> THEN [r EXCEPT !.bottom = y]
  ELSE [top |-> MIN(y, r.top), left |-> MIN(row[1].start, r.left),
        right |-> MAX(row[Len(row)].end, r.right), bottom |-> y]

(* "Only write if different from last written line"                         *)
WriteScanline ==
  /\ at = "done"
  /\ IF result # lastWritten
     THEN /\ output' = Append(output, [y |-> currentY, line |-> result])
          /\ lastWritten' = result
     ELSE UNCHANGED <<output, lastWritten>>
  /\ rect' = Including(rect, currentY, result)
  /\ at' = "scan"
  /\ UNCHANGED <<op, d1, d2, n1, n2, held, a, current_start, result>>
  /\ UNCHANGED <<r1, r2, m1, m2, line1, line2, currentY, moved>>

RegionEnd ==
  /\ at = "scan" /\ ~More1 /\ ~More2
  /\ rect' = IF output = <<>> THEN EmptyRect ELSE rect
  /\ at' = "end"
  /\ UNCHANGED <<op, d1, d2, n1, n2, held, a, current_start, result>>
  /\ UNCHANGED <<r1, r2, m1, m2, line1, line2, currentY, lastWritten, output, moved>>

Int16(v) == ((v + Half) % (2 * Half)) - Half

OffsetRange(range, dx) == [start |-> Int16(range.start + dx), end |-> Int16(range.end + dx)]
RowsOnly(s, dx, dy) ==  \* mutant: the ranges stay
  [y |-> Int16(s.y + dy), line |-> s.line]
OffsetScanline(s, dx, dy) ==
  [y |-> Int16(s.y + dy), line |-> [i \in DOMAIN s.line |-> OffsetRange(s.line[i], dx)]]

Offset(dx, dy) ==
  /\ at = "end" /\ moved = <<0, 0>>
  /\ output' = [i \in DOMAIN output |-> OffsetScanline(output[i], dx, dy)]
  /\ rect' = [top |-> Int16(rect.top + dy), left |-> Int16(rect.left + dx),
              bottom |-> Int16(rect.bottom + dy), right |-> Int16(rect.right + dx)]
  /\ moved' = <<dx, dy>>
  /\ UNCHANGED lineVars
  /\ UNCHANGED <<r1, r2, m1, m2, line1, line2, currentY, lastWritten>>

RegionNext ==
  \/ ReadScanlines \/ WriteScanline \/ RegionEnd
  \/ LineNext /\ UNCHANGED regionVars
  \/ \E o \in Offsets : Offset(o[1], o[2])

RegionSpec == RegionInit /\ [][RegionNext]_vars
-----------------------------------------------------------------------------
(* the columns of row y that are in a region                                *)
RowAt(region, y) ==
  LET above == {i \in DOMAIN region : region[i].y <= y}
      last == CHOOSE i \in above : \A j \in above : j <= i
  IN IF above = {} THEN {} ELSE PointsOf(region[last].line)

RegionTypeOK ==
  /\ at \in Operations \cup {"skip", "cut", "rest", "done", "scan", "end"}
  /\ op \in Operations
  /\ result \in Seq(Int16Range) /\ held \subseteq Int16Range
  /\ \A i \in DOMAIN output :
       output[i].y \in Coordinates /\ output[i].line \in Seq(Int16Range)
  /\ \A side \in DOMAIN rect : rect[side] \in Coordinates

(* The operations on regions are the operations on sets of pixels: for any  *)
(* two regions, degenerate rectangles included, and every row.  Offset moves*)
(* the pixels, as long as no coordinate leaves 16 bits.                     *)
Fits(region, o) ==
  \A i \in DOMAIN region :
    /\ region[i].y + o[2] \in Coordinates
    /\ \A k \in DOMAIN region[i].line :
         {region[i].line[k].start + o[1], region[i].line[k].end + o[1]} \subseteq Coordinates
InRange(region) == Fits(region, moved)
RegionIsRight ==
  at = "end" /\ InRange(r1) /\ InRange(r2) =>
    \A y \in Coordinates :
      RowAt(output, y + moved[2]) =
        {x + moved[1] : x \in Apply(op, RowAt(r1, y), RowAt(r2, y))}

(* The result of two canonical regions is canonical, so that equal regions  *)
(* are equal lists however they were computed: rows change at every         *)
(* scanline, the first is not empty, the last is.                           *)
CanonicalRegion(region) ==
  /\ \A i \in DOMAIN region : Canonical(region[i].line)
  /\ \A i \in DOMAIN region : i > 1 =>
       /\ region[i - 1].y < region[i].y
       /\ region[i - 1].line # region[i].line
  /\ region # <<>> => region[1].line # <<>> /\ region[Len(region)].line = <<>>
RegionIsCanonical ==
  at = "end" /\ CanonicalRegion(r1) /\ CanonicalRegion(r2) /\ moved = <<0, 0>> =>
    CanonicalRegion(output)

(* The bounding rectangle of a result, by which drawing is clipped before   *)
(* its rows are looked at, contains every pixel of it and is tight but for  *)
(* its bottom.                                                              *)
Boxes ==
  at = "end" /\ CanonicalRegion(r1) /\ CanonicalRegion(r2) /\ moved = <<0, 0>> =>
    LET rows == {y \in Coordinates : RowAt(output, y) # {}}
        columns == UNION {RowAt(output, y) : y \in rows}
    IN /\ \A y \in rows : rect.top <= y /\ y < rect.bottom
       /\ \A x \in columns : rect.left <= x /\ x < rect.right
       /\ rows # {} =>
            rect.top \in rows /\ rect.left \in columns /\ rect.right - 1 \in columns

(* A region is a set of pixels, written in one way, with its true box: every*)
(* operation of region.h on regions respects that.                          *)
RegionsAreSets == RegionTypeOK /\ RegionIsRight /\ RegionIsCanonical /\ Boxes
=============================================================================
