------------------------------- MODULE Rects -------------------------------
(***************************************************************************)
(* Points and rectangles, emu/graphics/graphics_helpers.h.  A rectangle    *)
(* stands for the pixels from left to right - 1 and from top to bottom - 1; *)
(* nothing keeps its sides in order.                                       *)
(***************************************************************************)
EXTENDS Integers

CONSTANT Half  \* an int16_t is in -Half .. Half - 1

ASSUME HalfAssumption == Half \in Nat \ {0, 1}

Int16(v) == ((v + Half) % (2 * Half)) - Half
Coordinates == -Half .. Half - 1
Point == [x : Coordinates, y : Coordinates]
Rect == [top : Coordinates, left : Coordinates, bottom : Coordinates, right : Coordinates]

MAX(a, b) == IF a > b THEN a ELSE b
MIN(a, b) == IF a < b THEN a ELSE b

ZeroRect == [top |-> 0, left |-> 0, bottom |-> 0, right |-> 0]
RectWidth(r) == Int16(r.right - r.left)
RectHeight(r) == Int16(r.bottom - r.top)

NewRect(x, y, width, height) ==
  [top |-> y, left |-> x, bottom |-> Int16(y + height), right |-> Int16(x + width)]

OffsetRect(r, dh, dv) ==
  [top |-> Int16(r.top + dv), left |-> Int16(r.left + dh),
   bottom |-> Int16(r.bottom + dv), right |-> Int16(r.right + dh)]
NormalizeRect(r) == OffsetRect(r, -r.left, -r.top)

BothEmpty(r) ==  \* mutant: empty only if both sides are
  IF r.top >= r.bottom /\ r.left >= r.right THEN ZeroRect ELSE r
ValidateRect(r) == IF r.top >= r.bottom \/ r.left >= r.right THEN ZeroRect ELSE r

InsetRect(r, dh, dv) ==
  ValidateRect([top |-> Int16(r.top + dv), left |-> Int16(r.left + dh),
                bottom |-> Int16(r.bottom - dv), right |-> Int16(r.right - dh)])

OverlapOf(r1, r2) ==
  [top |-> MAX(r1.top, r2.top), left |-> MAX(r1.left, r2.left),
   bottom |-> MIN(r1.bottom, r2.bottom), right |-> MIN(r1.right, r2.right)]
IntersectRect(r1, r2) == ValidateRect(OverlapOf(r1, r2))

IsZeroRect(r) == r = ZeroRect
EqualRect(r1, r2) == r1 = r2
PointInRect(pt, r) ==
  pt.x >= r.left /\ pt.x < r.right /\ pt.y >= r.top /\ pt.y < r.bottom
RectInRect(inset, r) ==
  inset.left >= r.left /\ inset.right <= r.right /\ inset.top >= r.top /\ inset.bottom <= r.bottom
=============================================================================
