--------------------------- MODULE GraphicsProofs ---------------------------
(***************************************************************************)
(* Proofs about QuickDraw and the screen, for any sizes of bytes, patterns, *)
(* images and coordinates and any number of ports, handles and clips: the   *)
(* types and the clips, what coordinates mean, the region that is recorded, *)
(* what the traps of ports and the Toolbox draw, and what menus leave.      *)
(***************************************************************************)
EXTENDS Graphics, FiniteSetTheorems, WellFoundedInduction, TLAPS

(* Numbers: 16 bits, division                                               *)
LEMMA Division ==
  ASSUME NEW n \in Int, NEW w \in Nat \ {0}
  PROVE  /\ n \div w \in Int /\ n % w \in 0..(w - 1)
         /\ n = w * (n \div w) + (n % w)
<1>1. n \div w \in Int /\ n % w \in 0..(w - 1)
  OBVIOUS
<1>2. n = (n \div w) * w + (n % w)
  OBVIOUS
<1>3. (n \div w) * w = w * (n \div w)
  BY <1>1
<1> QED
  BY <1>1, <1>2, <1>3

(* a quotient that is larger by one takes w more                            *)
LEMMA Monotone ==
  ASSUME NEW p \in Int, NEW q \in Int, NEW w \in Nat, p <= q
  PROVE  w * p <= w * q
OBVIOUS

LEMMA QuotientIs ==
  ASSUME NEW n \in Int, NEW w \in Nat \ {0}, NEW q \in Int, NEW r \in 0..(w - 1),
         n = w * q + r
  PROVE  n \div w = q /\ n % w = r
<1> DEFINE d == n \div w
           m == n % w
<1>1. d \in Int /\ m \in 0..(w - 1) /\ n = w * d + m
  BY Division
<1> HIDE DEF d, m
<1>2. ASSUME d + 1 <= q
      PROVE  FALSE
  <2>1. w * (d + 1) <= w * q
    BY <1>1, <1>2, Monotone
  <2>2. w * (d + 1) = w * d + w
    BY <1>1
  <2> QED
    BY <1>1, <2>1, <2>2
<1>3. ASSUME q + 1 <= d
      PROVE  FALSE
  <2>1. w * (q + 1) <= w * d
    BY <1>1, <1>3, Monotone
  <2>2. w * (q + 1) = w * q + w
    BY <1>1
  <2> QED
    BY <1>1, <2>1, <2>2
<1>4. d = q
  BY <1>1, <1>2, <1>3
<1>5. m = r
  BY <1>1, <1>4
<1> QED
  BY <1>4, <1>5 DEF d, m

(* the remainder after adding a multiple                                    *)
LEMMA RemainderShifts ==
  ASSUME NEW n \in Int, NEW w \in Nat \ {0}, NEW k \in Int
  PROVE  (n + w * k) % w = n % w
<1> DEFINE d == n \div w
           m == n % w
<1>1. d \in Int /\ m \in 0..(w - 1) /\ n = w * d + m
  BY Division
<1> HIDE DEF d, m
<1>2. n + w * k = w * (d + k) + m
  BY <1>1
<1>3. n + w * k \in Int /\ d + k \in Int
  BY <1>1
<1>4. (n + w * k) % w = m
  BY <1>1, <1>2, <1>3, QuotientIs
<1> QED
  BY <1>4 DEF m

LEMMA Int16Is ==
  ASSUME NEW v \in Int
  PROVE  /\ Int16(v) \in Coordinates
         /\ v \in Coordinates => Int16(v) = v
         /\ \E k \in Int : Int16(v) = v + (2 * Half) * k
<1> DEFINE w == 2 * Half
<1>1. w \in Nat \ {0} /\ Half \in Nat \ {0}
  BY HalfAssumption
<1>2. PICK d \in Int, m \in 0..(w - 1) : v + Half = w * d + m /\ m = (v + Half) % w
  <2>1. v + Half \in Int
    BY <1>1
  <2> HIDE DEF w
  <2>2. /\ (v + Half) \div w \in Int /\ (v + Half) % w \in 0..(w - 1)
        /\ v + Half = w * ((v + Half) \div w) + ((v + Half) % w)
    BY <1>1, <2>1, Division
  <2> QED
    BY <2>2
<1>3. Int16(v) = m - Half
  BY <1>2 DEF Int16
<1>4. Int16(v) = v + w * (-d)
  <2>1. w * (-d) = -(w * d)
    BY <1>1, <1>2
  <2> QED
    BY <1>1, <1>2, <1>3, <2>1
<1>5. v \in Coordinates => Int16(v) = v
  <2>1. ASSUME v \in Coordinates
        PROVE  m = v + Half
    <3>1. v + Half \in 0..(w - 1) /\ v + Half = w * 0 + (v + Half)
      BY <1>1, <2>1 DEF Coordinates
    <3>2. w \in Nat \ {0} /\ v + Half \in Int /\ 0 \in Int
      BY <1>1
    <3> HIDE DEF w
    <3>3. (v + Half) % w = v + Half
      BY <3>1, <3>2, QuotientIs
    <3> QED
      BY <1>2, <3>3
  <2> QED
    BY <1>1, <1>3, <2>1 DEF Coordinates
<1>6. Int16(v) \in Coordinates
  BY <1>1, <1>2, <1>3 DEF Coordinates
<1>7. -d \in Int
  BY <1>2
<1> QED
  BY <1>4, <1>5, <1>6, <1>7

(* Sums are the same modulo 2^16 whether or not their terms fit.            *)
LEMMA Int16Absorbs ==
  ASSUME NEW a \in Int, NEW k \in Int
  PROVE  Int16(a + (2 * Half) * k) = Int16(a)
<1>1. 2 * Half \in Nat \ {0} /\ a + Half \in Int
  BY HalfAssumption
<1>2. ((a + Half) + (2 * Half) * k) % (2 * Half) = (a + Half) % (2 * Half)
  BY <1>1, RemainderShifts
<1>3. (a + (2 * Half) * k) + Half = (a + Half) + (2 * Half) * k
  BY <1>1, HalfAssumption
<1> QED
  BY <1>2, <1>3 DEF Int16
-----------------------------------------------------------------------------
(* Loops: FoldLeft is a function on the subsets of the list's positions     *)
(* that says how it unfolds the largest of them.  That one exists, and what *)
(* it is at 1..k, are the states of the loop.                               *)

(* Of natural numbers there is a least, of those up to a bound a largest.   *)
LEMMA LeastElement ==
  ASSUME NEW S, S \subseteq Nat, S # {}
  PROVE  \E x \in S : \A y \in S : x <= y
<1> DEFINE R == {ss \in Nat \X Nat : ss[1] < ss[2]}
<1>1. R = OpToRel(<, Nat)
  BY Zenon DEF OpToRel
<1>2. IsWellFoundedOn(R, Nat)
  BY <1>1, NatLessThanWellFounded
<1>3. PICK x \in S : \A y \in S : ~(<<y, x>> \in R)
  BY <1>2, WFMin
<1>4. \A y, z \in Nat : y < z => <<y, z>> \in R
  OBVIOUS
<1> HIDE DEF R
<1>5. ASSUME NEW y \in S
      PROVE  x <= y
  <2>1. x \in Nat /\ y \in Nat
    OBVIOUS
  <2>2. ~(y < x)
    BY <1>3, <1>4, <2>1, Zenon
  <2> QED
    BY <2>1, <2>2
<1> QED
  BY <1>5

(* what holds at first, and stays from a state of the loop to the next      *)
LEMMA LoopInduction ==
  ASSUME NEW n \in Nat, NEW S, 0 \in S, \A k \in 1..n : k - 1 \in S => k \in S
  PROVE  \A k \in 0..n : k \in S
<1> DEFINE Bad == {k \in 0..n : k \notin S}
<1>1. SUFFICES ASSUME Bad # {} PROVE FALSE
  BY Zenon
<1>2. PICK k \in Bad : \A j \in Bad : k <= j
  <2>1. Bad \subseteq Nat
    OBVIOUS
  <2> HIDE DEF Bad
  <2> QED
    BY <1>1, <2>1, LeastElement
<1>3. k \in 1..n /\ k - 1 \in 0..n /\ ~(k <= k - 1)
  OBVIOUS
<1>4. k - 1 \in S
  BY <1>2, <1>3
<1> QED
  BY <1>3, <1>4

LEMMA LargestElement ==
  ASSUME NEW n \in Nat, NEW S, S \subseteq 0..n, S # {}
  PROVE  \E x \in S : \A y \in S : y <= x
<1> DEFINE T == {n - x : x \in S}
<1>1. T \subseteq Nat /\ T # {}
  <2>1. \A x \in S : n - x \in Nat
    OBVIOUS
  <2> QED
    BY <2>1
<1> HIDE DEF T
<1>2. PICK t \in T : \A u \in T : t <= u
  BY <1>1, LeastElement
<1>3. PICK x \in S : t = n - x
  BY DEF T
<1>4. ASSUME NEW y \in S
      PROVE  y <= x
  <2>1. n - y \in T
    BY DEF T
  <2>2. t <= n - y
    BY <1>2, <2>1
  <2> QED
    BY <1>3, <2>2
<1> QED
  BY <1>4

LEMMA LargestOf ==
  ASSUME NEW k \in Nat, NEW t \in SUBSET (1..k), k \in t
  PROVE  Max(t) = k
<1>1. k \in t /\ \A y \in t : k >= y
  OBVIOUS
<1>2. \A x \in t : (\A y \in t : x >= y) => x = k
  BY <1>1
<1> QED
  BY <1>1, <1>2 DEF Max

LEMMA LargestIn ==
  ASSUME NEW k \in Nat, NEW t \in SUBSET (1..k), t # {}
  PROVE  Max(t) \in 1..k
<1>1. t \subseteq 0..k
  OBVIOUS
<1>2. PICK i \in t : \A j \in t : j <= i
  BY <1>1, LargestElement
<1>3. i \in t /\ \A j \in t : i >= j
  BY <1>2
<1> QED
  BY <1>3 DEF Max

(* The loops, by what they do with element k of what they go through.       *)
Cut(m, img, row, start, end, range, pattern, mode) ==
  IF MAX(start, range.start) >= MIN(end, range.end) THEN m
  ELSE FillPixels(m, img, row, MAX(start, range.start), MIN(end, range.end), pattern, mode)
RowOfRect(m, img, r, pattern, mode, row) ==
  FillRow(m, img, r.top + row, r.left, r.right, Scanline(img, r.top + row),
          Swatch(pattern, row, r.left, {}), mode)
FrameFill(m, img, r, pattern, mode, row, start, end) ==
  FillRow(m, img, row, start, end, Scanline(img, MAX(r.top, row)),
          Swatch(pattern, row, r.left, {}), mode)
FrameSides(m, img, r, pattern, mode, row) ==
  FrameFill(FrameFill(m, img, r, pattern, mode, row, r.left, r.left + 1),
            img, r, pattern, mode, row, r.right - 1, r.right)
OvalFill(m, img, r, pattern, junk, dy, start, end) ==
  FillRow(m, img, r.top + Half2(RectHeight(r)) + dy, start, end,
          Scanline(img, r.top + Half2(RectHeight(r)) + dy),
          Swatch(pattern, Half2(RectHeight(r)) + dy, r.left, junk), "Copy")
OvalRows(m, img, r, pattern, junk, row) ==
  LET offset == EllipseOffset(Half2(RectWidth(r)), Half2(RectHeight(r)))[row]
      origin_x == r.left + Half2(RectWidth(r))
      start == Int16(origin_x - offset)
      end == Int16(origin_x + offset)
  IN OvalFill(OvalFill(m, img, r, pattern, junk, -row, start, end),
              img, r, pattern, junk, row, start, end)

RowsOf(img, dst_rect) == {y \in ClipRows(img) : dst_rect.top <= y /\ y < dst_rect.bottom}

LoopStep(loop, acc, k) ==
  CASE loop.kind = "ranges" -> Cut(acc, loop.img, loop.row, loop.start, loop.end, loop.list[k],
                                   loop.pattern, loop.mode)
    [] loop.kind = "rect"   -> RowOfRect(acc, loop.img, loop.r, loop.pattern, loop.mode, k - 1)
    [] loop.kind = "frame"  -> FrameSides(acc, loop.img, loop.r, loop.pattern, loop.mode,
                                          loop.r.top + k)
    [] loop.kind = "oval"   -> OvalRows(acc, loop.img, loop.r, loop.pattern, loop.junk, k)
    [] loop.kind = "parts"  -> CopyPart(acc, loop.img, loop.src, loop.src_width, loop.src_rect,
                                        loop.dst_rect, loop.junk, loop.y, loop.list[k])
    [] loop.kind = "copy"   -> CopyRow(acc, loop.img, loop.src, loop.src_width, loop.src_rect,
                                       loop.dst_rect, loop.junk, loop.list[k])

Unfolds(iter, loop, n, base) ==
  iter = [t \in SUBSET (1..n) |->
            IF t = {} THEN base ELSE LoopStep(loop, iter[t \ {Max(t)}], Max(t))]

LEMMA UnfoldingExists ==
  ASSUME NEW loop, NEW base, NEW n \in Nat
  PROVE  \E iter : Unfolds(iter, loop, n, base)
<1> DEFINE Good(k) == \E iter : Unfolds(iter, loop, k, base)
           S == {k \in 0..n : Good(k)}
<1>1. Good(0)
  <2>1. Unfolds([t \in SUBSET (1..0) |-> base], loop, 0, base)
    <3>1. 1..0 = {}
      OBVIOUS
    <3> QED
      BY <3>1, Zenon DEF Unfolds
  <2> QED
    BY <2>1, Zenon
<1>2. ASSUME NEW k \in 1..n, Good(k - 1)
      PROVE  Good(k)
  <2>1. PICK m \in Nat : m = k - 1 /\ k = m + 1
    OBVIOUS
  <2>2. PICK g : Unfolds(g, loop, m, base)
    BY <1>2, <2>1
  <2> DEFINE h == [t \in SUBSET (1..k) |->
                     IF k \in t THEN LoopStep(loop, g[t \ {k}], k) ELSE g[t]]
  <2>3. ASSUME NEW t \in SUBSET (1..k)
        PROVE  h[t] = IF t = {} THEN base ELSE LoopStep(loop, h[t \ {Max(t)}], Max(t))
    <3>1. CASE k \in t
      <4>1. Max(t) = k
        BY <3>1, LargestOf
      <4>2. t \ {k} \in SUBSET (1..k) /\ t \ {k} \in SUBSET (1..m) /\ k \notin t \ {k}
        BY <2>1
      <4>3. h[t \ {k}] = g[t \ {k}]
        BY <4>2
      <4>4. h[t] = LoopStep(loop, g[t \ {k}], k)
        BY <3>1
      <4> QED
        BY <3>1, <4>1, <4>3, <4>4, Zenon
    <3>2. CASE k \notin t
      <4>1. t \in SUBSET (1..m)
        BY <2>1, <3>2
      <4>2. h[t] = g[t]
        BY <3>2
      <4>3. g[t] = IF t = {} THEN base ELSE LoopStep(loop, g[t \ {Max(t)}], Max(t))
        BY <2>2, <4>1, Zenon DEF Unfolds
      <4>4. h[t \ {Max(t)}] = g[t \ {Max(t)}]
        BY <3>2
      <4> QED
        BY <4>2, <4>3, <4>4, Zenon
    <3> QED
      BY <3>1, <3>2
  <2>4. Unfolds(h, loop, k, base)
    BY <2>3, Zenon DEF Unfolds
  <2> QED
    BY <2>4, Zenon
<1> HIDE DEF Good
<1>3. \A k \in 1..n : k - 1 \in S => k \in S
  BY <1>2
<1>4. 0 \in S
  BY <1>1
<1> HIDE DEF S
<1>5. n \in S
  BY <1>3, <1>4, LoopInduction
<1> QED
  BY <1>5 DEF S, Good

(* the states of a loop over n elements                                     *)
Runs(h, loop, n, base) ==
  h[0] = base /\ \A k \in 1..n : h[k] = LoopStep(loop, h[k - 1], k)

LEMMA UnfoldingRuns ==
  ASSUME NEW loop, NEW base, NEW n \in Nat, NEW iter, Unfolds(iter, loop, n, base)
  PROVE  \E h : Runs(h, loop, n, base) /\ h[n] = iter[1..n]
<1> DEFINE h == [k \in 0..n |-> iter[1..k]]
<1>1. h[0] = base
  <2>1. iter[{}] = base
    BY Zenon DEF Unfolds
  <2>2. h[0] = iter[1..0] /\ 1..0 = {}
    OBVIOUS
  <2> QED
    BY <2>1, <2>2, Zenon
<1>2. ASSUME NEW k \in 1..n
      PROVE  h[k] = LoopStep(loop, h[k - 1], k)
  <2>1. PICK t : t = 1..k
    OBVIOUS
  <2>2. t \in SUBSET (1..n) /\ t # {} /\ t \in SUBSET (1..k) /\ k \in t
    <3>1. k \in t /\ \A j \in t : j \in 1..n /\ j \in 1..k
      BY <2>1
    <3> QED
      BY <3>1
  <2>3. Max(t) = k
    BY <2>2, LargestOf
  <2>4. iter[t] = LoopStep(loop, iter[t \ {k}], k)
    <3>1. iter[t] = IF t = {} THEN base ELSE LoopStep(loop, iter[t \ {Max(t)}], Max(t))
      BY <2>2, Zenon DEF Unfolds
    <3> QED
      BY <2>2, <2>3, <3>1, Zenon
  <2>5. t \ {k} = 1..(k - 1)
    BY <2>1
  <2>6. h[k] = iter[t] /\ h[k - 1] = iter[1..(k - 1)]
    BY <2>1
  <2> QED
    BY <2>4, <2>5, <2>6, Zenon
<1>3. h[n] = iter[1..n]
  OBVIOUS
<1> HIDE DEF h
<1> QED
  BY <1>1, <1>2, <1>3 DEF Runs

(* the ranges of a scanline, in any order                                   *)
LEMMA RangesLoop ==
  ASSUME NEW m, NEW n \in Nat, NEW list, DOMAIN list = 1..n, NEW img, NEW row, NEW start,
         NEW end, NEW scanline, list = SetToSeq(Ranges(scanline)), NEW pattern, NEW mode,
         InClipRows(img, row)
  PROVE  LET loop == [kind |-> "ranges", img |-> img, row |-> row, start |-> start, end |-> end,
                        list |-> list, pattern |-> pattern, mode |-> mode]
         IN  \E h : Runs(h, loop, n, m) /\ FillRow(m, img, row, start, end, scanline, pattern, mode) = h[n]
<1> DEFINE loop == [kind |-> "ranges", img |-> img, row |-> row, start |-> start, end |-> end,
                        list |-> list, pattern |-> pattern, mode |-> mode]
           Raw(iter) == iter = [t \in SUBSET DOMAIN list |->
                IF t = {} THEN m
                ELSE LET x == Max(t) IN Cut(iter[t \ {x}], img, row, start, end, list[x], pattern, mode)]
<1>1. FillRow(m, img, row, start, end, scanline, pattern, mode) = (CHOOSE iter : Raw(iter))[DOMAIN list]
  BY Zenon DEF FillRow, Cut, FoldLeft, MapThenFoldSet
<1>2. DOMAIN list = 1..n
  OBVIOUS
<1>3. ASSUME NEW iter
      PROVE  Raw(iter) <=> Unfolds(iter, loop, n, m)
  <2>1. \A t \in SUBSET (1..n) : t # {} => Max(t) \in 1..n
    BY LargestIn
  <2>2. \A acc, k : LoopStep(loop, acc, k) = Cut(acc, img, row, start, end, list[k], pattern, mode)
    BY DEF LoopStep
  <2> HIDE DEF loop
  <2>3. [t \in SUBSET DOMAIN list |->
                IF t = {} THEN m
                ELSE LET x == Max(t) IN Cut(iter[t \ {x}], img, row, start, end, list[x], pattern, mode)]
        = [t \in SUBSET (1..n) |->
            IF t = {} THEN m ELSE LoopStep(loop, iter[t \ {Max(t)}], Max(t))]
    <3>1. ASSUME NEW t \in SUBSET (1..n), t # {}
          PROVE  LET x == Max(t) IN Cut(iter[t \ {x}], img, row, start, end, list[x], pattern, mode) = LoopStep(loop, iter[t \ {x}], x)
      <4>1. Max(t) \in 1..n
        BY <2>1, <3>1, Zenon
      <4> QED
        BY <1>2, <2>2, <4>1, Zenon
    <3> QED
      BY <1>2, <3>1, Zenon
  <2> QED
    BY <2>3, Zenon DEF Unfolds
<1> HIDE DEF loop
<1>4. \E iter : Raw(iter)
  <2>1. PICK iter : Unfolds(iter, loop, n, m)
    BY UnfoldingExists
  <2> QED
    BY <1>3, <2>1, Zenon
<1>5. PICK found : found = (CHOOSE iter : Raw(iter))
  OBVIOUS
<1>6. Raw(found)
  BY <1>4, <1>5, Zenon
<1>7. FillRow(m, img, row, start, end, scanline, pattern, mode) = found[DOMAIN list]
  BY <1>1, <1>5, Zenon
<1> HIDE DEF Raw
<1>8. Unfolds(found, loop, n, m) /\ FillRow(m, img, row, start, end, scanline, pattern, mode) = found[1..n]
  BY <1>2, <1>3, <1>6, <1>7
<1>9. PICK h : Runs(h, loop, n, m) /\ h[n] = found[1..n]
  BY <1>8, UnfoldingRuns
<1> QED
  BY <1>8, <1>9 DEF loop

(* the rows of a rectangle                                                  *)
LEMMA RectLoop ==
  ASSUME NEW m, NEW n \in Nat, NEW img, NEW r, 1..RectHeight(r) = 1..n, NEW pattern, NEW mode
  PROVE  LET loop == [kind |-> "rect", img |-> img, r |-> r, pattern |-> pattern, mode |-> mode]
         IN  \E h : Runs(h, loop, n, m) /\ FillRect(m, img, r, pattern, mode) = h[n]
<1> DEFINE loop == [kind |-> "rect", img |-> img, r |-> r, pattern |-> pattern, mode |-> mode]
           list == [i \in 1..RectHeight(r) |-> i]
           Raw(iter) == iter = [t \in SUBSET DOMAIN list |->
                IF t = {} THEN m
                ELSE LET x == Max(t) IN RowOfRect(iter[t \ {x}], img, r, pattern, mode, list[x] - 1)]
<1>1. FillRect(m, img, r, pattern, mode) = (CHOOSE iter : Raw(iter))[DOMAIN list]
  BY Zenon DEF FillRect, RowOfRect, FoldLeft, MapThenFoldSet
<1>2. DOMAIN list = 1..n /\ \A i \in 1..n : list[i] = i
  OBVIOUS
<1>3. ASSUME NEW iter
      PROVE  Raw(iter) <=> Unfolds(iter, loop, n, m)
  <2>1. \A t \in SUBSET (1..n) : t # {} => Max(t) \in 1..n
    BY LargestIn
  <2>2. \A acc, k : LoopStep(loop, acc, k) = RowOfRect(acc, img, r, pattern, mode, k - 1)
    BY DEF LoopStep
  <2> HIDE DEF list, loop
  <2>3. [t \in SUBSET DOMAIN list |->
                IF t = {} THEN m
                ELSE LET x == Max(t) IN RowOfRect(iter[t \ {x}], img, r, pattern, mode, list[x] - 1)]
        = [t \in SUBSET (1..n) |->
            IF t = {} THEN m ELSE LoopStep(loop, iter[t \ {Max(t)}], Max(t))]
    <3>1. ASSUME NEW t \in SUBSET (1..n), t # {}
          PROVE  LET x == Max(t) IN RowOfRect(iter[t \ {x}], img, r, pattern, mode, list[x] - 1) = LoopStep(loop, iter[t \ {x}], x)
      <4>1. Max(t) \in 1..n
        BY <2>1, <3>1, Zenon
      <4> QED
        BY <1>2, <2>2, <4>1, Zenon
    <3> QED
      BY <1>2, <3>1, Zenon
  <2> QED
    BY <2>3, Zenon DEF Unfolds
<1> HIDE DEF loop
<1>4. \E iter : Raw(iter)
  <2>1. PICK iter : Unfolds(iter, loop, n, m)
    BY UnfoldingExists
  <2> QED
    BY <1>3, <2>1, Zenon
<1>5. PICK found : found = (CHOOSE iter : Raw(iter))
  OBVIOUS
<1>6. Raw(found)
  BY <1>4, <1>5, Zenon
<1>7. FillRect(m, img, r, pattern, mode) = found[DOMAIN list]
  BY <1>1, <1>5, Zenon
<1> HIDE DEF list, Raw
<1>8. Unfolds(found, loop, n, m) /\ FillRect(m, img, r, pattern, mode) = found[1..n]
  BY <1>2, <1>3, <1>6, <1>7
<1>9. PICK h : Runs(h, loop, n, m) /\ h[n] = found[1..n]
  BY <1>8, UnfoldingRuns
<1> QED
  BY <1>8, <1>9 DEF loop

(* the sides of a frame, between its first row and its last               *)
LEMMA FrameLoop ==
  ASSUME NEW m, NEW n \in Nat, NEW img, NEW r, 1..(r.bottom - 1) - (r.top + 1) = 1..n,
         NEW pattern, NEW mode
  PROVE  LET loop == [kind |-> "frame", img |-> img, r |-> r, pattern |-> pattern, mode |-> mode]
         IN  \E h : Runs(h, loop, n, FrameFill(m, img, r, pattern, mode, r.top, r.left, r.right)) /\ FrameRect(m, img, r, pattern, mode) = FrameFill(h[n], img, r, pattern, mode, r.bottom - 1, r.left, r.right)
<1> DEFINE loop == [kind |-> "frame", img |-> img, r |-> r, pattern |-> pattern, mode |-> mode]
           list == [i \in 1..(r.bottom - 1) - (r.top + 1) |-> i]
           Raw(iter) == iter = [t \in SUBSET DOMAIN list |->
                IF t = {} THEN FrameFill(m, img, r, pattern, mode, r.top, r.left, r.right)
                ELSE LET x == Max(t) IN FrameSides(iter[t \ {x}], img, r, pattern, mode, r.top + list[x])]
<1>1. FrameRect(m, img, r, pattern, mode) = FrameFill((CHOOSE iter : Raw(iter))[DOMAIN list], img, r, pattern, mode, r.bottom - 1, r.left, r.right)
  BY Zenon DEF FrameRect, FrameFill, FrameSides, FoldLeft, MapThenFoldSet
<1>2. DOMAIN list = 1..n /\ \A i \in 1..n : list[i] = i
  OBVIOUS
<1>3. ASSUME NEW iter
      PROVE  Raw(iter) <=> Unfolds(iter, loop, n, FrameFill(m, img, r, pattern, mode, r.top, r.left, r.right))
  <2>1. \A t \in SUBSET (1..n) : t # {} => Max(t) \in 1..n
    BY LargestIn
  <2>2. \A acc, k : LoopStep(loop, acc, k) = FrameSides(acc, img, r, pattern, mode, r.top + k)
    BY DEF LoopStep
  <2> HIDE DEF list, loop
  <2>3. [t \in SUBSET DOMAIN list |->
                IF t = {} THEN FrameFill(m, img, r, pattern, mode, r.top, r.left, r.right)
                ELSE LET x == Max(t) IN FrameSides(iter[t \ {x}], img, r, pattern, mode, r.top + list[x])]
        = [t \in SUBSET (1..n) |->
            IF t = {} THEN FrameFill(m, img, r, pattern, mode, r.top, r.left, r.right) ELSE LoopStep(loop, iter[t \ {Max(t)}], Max(t))]
    <3>1. ASSUME NEW t \in SUBSET (1..n), t # {}
          PROVE  LET x == Max(t) IN FrameSides(iter[t \ {x}], img, r, pattern, mode, r.top + list[x]) = LoopStep(loop, iter[t \ {x}], x)
      <4>1. Max(t) \in 1..n
        BY <2>1, <3>1, Zenon
      <4> QED
        BY <1>2, <2>2, <4>1, Zenon
    <3> QED
      BY <1>2, <3>1, Zenon
  <2> QED
    BY <2>3, Zenon DEF Unfolds
<1> HIDE DEF loop
<1>4. \E iter : Raw(iter)
  <2>1. PICK iter : Unfolds(iter, loop, n, FrameFill(m, img, r, pattern, mode, r.top, r.left, r.right))
    BY UnfoldingExists
  <2> QED
    BY <1>3, <2>1, Zenon
<1>5. PICK found : found = (CHOOSE iter : Raw(iter))
  OBVIOUS
<1>6. Raw(found)
  BY <1>4, <1>5, Zenon
<1>7. FrameRect(m, img, r, pattern, mode) = FrameFill(found[DOMAIN list], img, r, pattern, mode, r.bottom - 1, r.left, r.right)
  BY <1>1, <1>5, Zenon
<1> HIDE DEF list, Raw
<1>8. Unfolds(found, loop, n, FrameFill(m, img, r, pattern, mode, r.top, r.left, r.right)) /\ FrameRect(m, img, r, pattern, mode) = FrameFill(found[1..n], img, r, pattern, mode, r.bottom - 1, r.left, r.right)
  BY <1>2, <1>3, <1>6, <1>7
<1>9. PICK h : Runs(h, loop, n, FrameFill(m, img, r, pattern, mode, r.top, r.left, r.right)) /\ h[n] = found[1..n]
  BY <1>8, UnfoldingRuns
<1> QED
  BY <1>8, <1>9 DEF loop

(* the rows of an oval, from its middle to both ends                      *)
LEMMA OvalLoop ==
  ASSUME NEW m, NEW n \in Nat, NEW img, NEW r, 1..Half2(RectHeight(r)) = 1..n, NEW pattern, NEW junk
  PROVE  LET loop == [kind |-> "oval", img |-> img, r |-> r, pattern |-> pattern, junk |-> junk]
         IN  \E h : Runs(h, loop, n, OvalFill(m, img, r, pattern, junk, 0, r.left, r.right)) /\ FillEllipse(m, img, r, pattern, junk) = h[n]
<1> DEFINE loop == [kind |-> "oval", img |-> img, r |-> r, pattern |-> pattern, junk |-> junk]
           list == [i \in 1..Half2(RectHeight(r)) |-> i]
           Raw(iter) == iter = [t \in SUBSET DOMAIN list |->
                IF t = {} THEN OvalFill(m, img, r, pattern, junk, 0, r.left, r.right)
                ELSE LET x == Max(t) IN OvalRows(iter[t \ {x}], img, r, pattern, junk, list[x])]
<1>1. FillEllipse(m, img, r, pattern, junk) = (CHOOSE iter : Raw(iter))[DOMAIN list]
  BY Zenon DEF FillEllipse, OvalFill, OvalRows, FoldLeft, MapThenFoldSet
<1>2. DOMAIN list = 1..n /\ \A i \in 1..n : list[i] = i
  OBVIOUS
<1>3. ASSUME NEW iter
      PROVE  Raw(iter) <=> Unfolds(iter, loop, n, OvalFill(m, img, r, pattern, junk, 0, r.left, r.right))
  <2>1. \A t \in SUBSET (1..n) : t # {} => Max(t) \in 1..n
    BY LargestIn
  <2>2. \A acc, k : LoopStep(loop, acc, k) = OvalRows(acc, img, r, pattern, junk, k)
    BY DEF LoopStep
  <2> HIDE DEF list, loop
  <2>3. [t \in SUBSET DOMAIN list |->
                IF t = {} THEN OvalFill(m, img, r, pattern, junk, 0, r.left, r.right)
                ELSE LET x == Max(t) IN OvalRows(iter[t \ {x}], img, r, pattern, junk, list[x])]
        = [t \in SUBSET (1..n) |->
            IF t = {} THEN OvalFill(m, img, r, pattern, junk, 0, r.left, r.right) ELSE LoopStep(loop, iter[t \ {Max(t)}], Max(t))]
    <3>1. ASSUME NEW t \in SUBSET (1..n), t # {}
          PROVE  LET x == Max(t) IN OvalRows(iter[t \ {x}], img, r, pattern, junk, list[x]) = LoopStep(loop, iter[t \ {x}], x)
      <4>1. Max(t) \in 1..n
        BY <2>1, <3>1, Zenon
      <4> QED
        BY <1>2, <2>2, <4>1, Zenon
    <3> QED
      BY <1>2, <3>1, Zenon
  <2> QED
    BY <2>3, Zenon DEF Unfolds
<1> HIDE DEF loop
<1>4. \E iter : Raw(iter)
  <2>1. PICK iter : Unfolds(iter, loop, n, OvalFill(m, img, r, pattern, junk, 0, r.left, r.right))
    BY UnfoldingExists
  <2> QED
    BY <1>3, <2>1, Zenon
<1>5. PICK found : found = (CHOOSE iter : Raw(iter))
  OBVIOUS
<1>6. Raw(found)
  BY <1>4, <1>5, Zenon
<1>7. FillEllipse(m, img, r, pattern, junk) = found[DOMAIN list]
  BY <1>1, <1>5, Zenon
<1> HIDE DEF list, Raw
<1>8. Unfolds(found, loop, n, OvalFill(m, img, r, pattern, junk, 0, r.left, r.right)) /\ FillEllipse(m, img, r, pattern, junk) = found[1..n]
  BY <1>2, <1>3, <1>6, <1>7
<1>9. PICK h : Runs(h, loop, n, OvalFill(m, img, r, pattern, junk, 0, r.left, r.right)) /\ h[n] = found[1..n]
  BY <1>8, UnfoldingRuns
<1> QED
  BY <1>8, <1>9 DEF loop

(* the ranges of a row that is copied                                     *)
LEMMA PartsLoop ==
  ASSUME NEW m, NEW n \in Nat, NEW list, DOMAIN list = 1..n, NEW img, NEW src, NEW src_width,
         NEW src_rect, NEW dst_rect, NEW junk, NEW y, list = SetToSeq(Ranges(Scanline(img, y)))
  PROVE  LET loop == [kind |-> "parts", img |-> img, src |-> src, src_width |-> src_width,
                      src_rect |-> src_rect, dst_rect |-> dst_rect, junk |-> junk,
                      y |-> y, list |-> list]
         IN  \E h : Runs(h, loop, n, m) /\ CopyRow(m, img, src, src_width, src_rect, dst_rect, junk, y) = h[n]
<1> DEFINE loop == [kind |-> "parts", img |-> img, src |-> src, src_width |-> src_width,
                      src_rect |-> src_rect, dst_rect |-> dst_rect, junk |-> junk,
                      y |-> y, list |-> list]
           Raw(iter) == iter = [t \in SUBSET DOMAIN list |->
                IF t = {} THEN m
                ELSE LET x == Max(t) IN CopyPart(iter[t \ {x}], img, src, src_width, src_rect, dst_rect, junk, y, list[x])]
<1>1. CopyRow(m, img, src, src_width, src_rect, dst_rect, junk, y) = (CHOOSE iter : Raw(iter))[DOMAIN list]
  BY Zenon DEF CopyRow, FoldLeft, MapThenFoldSet
<1>2. DOMAIN list = 1..n
  OBVIOUS
<1>3. ASSUME NEW iter
      PROVE  Raw(iter) <=> Unfolds(iter, loop, n, m)
  <2>1. \A t \in SUBSET (1..n) : t # {} => Max(t) \in 1..n
    BY LargestIn
  <2>2. \A acc, k : LoopStep(loop, acc, k) = CopyPart(acc, img, src, src_width, src_rect, dst_rect, junk, y, list[k])
    BY DEF LoopStep
  <2> HIDE DEF loop
  <2>3. [t \in SUBSET DOMAIN list |->
                IF t = {} THEN m
                ELSE LET x == Max(t) IN CopyPart(iter[t \ {x}], img, src, src_width, src_rect, dst_rect, junk, y, list[x])]
        = [t \in SUBSET (1..n) |->
            IF t = {} THEN m ELSE LoopStep(loop, iter[t \ {Max(t)}], Max(t))]
    <3>1. ASSUME NEW t \in SUBSET (1..n), t # {}
          PROVE  LET x == Max(t) IN CopyPart(iter[t \ {x}], img, src, src_width, src_rect, dst_rect, junk, y, list[x]) = LoopStep(loop, iter[t \ {x}], x)
      <4>1. Max(t) \in 1..n
        BY <2>1, <3>1, Zenon
      <4> QED
        BY <1>2, <2>2, <4>1, Zenon
    <3> QED
      BY <1>2, <3>1, Zenon
  <2> QED
    BY <2>3, Zenon DEF Unfolds
<1> HIDE DEF loop
<1>4. \E iter : Raw(iter)
  <2>1. PICK iter : Unfolds(iter, loop, n, m)
    BY UnfoldingExists
  <2> QED
    BY <1>3, <2>1, Zenon
<1>5. PICK found : found = (CHOOSE iter : Raw(iter))
  OBVIOUS
<1>6. Raw(found)
  BY <1>4, <1>5, Zenon
<1>7. CopyRow(m, img, src, src_width, src_rect, dst_rect, junk, y) = found[DOMAIN list]
  BY <1>1, <1>5, Zenon
<1> HIDE DEF Raw
<1>8. Unfolds(found, loop, n, m) /\ CopyRow(m, img, src, src_width, src_rect, dst_rect, junk, y) = found[1..n]
  BY <1>2, <1>3, <1>6, <1>7
<1>9. PICK h : Runs(h, loop, n, m) /\ h[n] = found[1..n]
  BY <1>8, UnfoldingRuns
<1> QED
  BY <1>8, <1>9 DEF loop

(* the rows that are copied                                               *)
LEMMA CopyLoop ==
  ASSUME NEW m, NEW n \in Nat, NEW list, DOMAIN list = 1..n, NEW img, NEW src, NEW src_width,
         NEW src_rect, NEW dst_rect, NEW junk,
         list = SetToSeq(RowsOf(img, dst_rect))
  PROVE  LET loop == [kind |-> "copy", img |-> img, src |-> src, src_width |-> src_width,
                      src_rect |-> src_rect, dst_rect |-> dst_rect, junk |-> junk,
                      list |-> list]
         IN  \E h : Runs(h, loop, n, m) /\ CopyBits(m, img, src, src_width, src_rect, dst_rect, junk) = h[n]
<1> DEFINE loop == [kind |-> "copy", img |-> img, src |-> src, src_width |-> src_width,
                      src_rect |-> src_rect, dst_rect |-> dst_rect, junk |-> junk,
                      list |-> list]
           Raw(iter) == iter = [t \in SUBSET DOMAIN list |->
                IF t = {} THEN m
                ELSE LET x == Max(t) IN CopyRow(iter[t \ {x}], img, src, src_width, src_rect, dst_rect, junk, list[x])]
<1>1. CopyBits(m, img, src, src_width, src_rect, dst_rect, junk) = (CHOOSE iter : Raw(iter))[DOMAIN list]
  BY Zenon DEF CopyBits, RowsOf, FoldLeft, MapThenFoldSet
<1>2. DOMAIN list = 1..n
  OBVIOUS
<1>3. ASSUME NEW iter
      PROVE  Raw(iter) <=> Unfolds(iter, loop, n, m)
  <2>1. \A t \in SUBSET (1..n) : t # {} => Max(t) \in 1..n
    BY LargestIn
  <2>2. \A acc, k : LoopStep(loop, acc, k) = CopyRow(acc, img, src, src_width, src_rect, dst_rect, junk, list[k])
    BY DEF LoopStep
  <2> HIDE DEF loop
  <2>3. [t \in SUBSET DOMAIN list |->
                IF t = {} THEN m
                ELSE LET x == Max(t) IN CopyRow(iter[t \ {x}], img, src, src_width, src_rect, dst_rect, junk, list[x])]
        = [t \in SUBSET (1..n) |->
            IF t = {} THEN m ELSE LoopStep(loop, iter[t \ {Max(t)}], Max(t))]
    <3>1. ASSUME NEW t \in SUBSET (1..n), t # {}
          PROVE  LET x == Max(t) IN CopyRow(iter[t \ {x}], img, src, src_width, src_rect, dst_rect, junk, list[x]) = LoopStep(loop, iter[t \ {x}], x)
      <4>1. Max(t) \in 1..n
        BY <2>1, <3>1, Zenon
      <4> QED
        BY <1>2, <2>2, <4>1, Zenon
    <3> QED
      BY <1>2, <3>1, Zenon
  <2> QED
    BY <2>3, Zenon DEF Unfolds
<1> HIDE DEF loop
<1>4. \E iter : Raw(iter)
  <2>1. PICK iter : Unfolds(iter, loop, n, m)
    BY UnfoldingExists
  <2> QED
    BY <1>3, <2>1, Zenon
<1>5. PICK found : found = (CHOOSE iter : Raw(iter))
  OBVIOUS
<1>6. Raw(found)
  BY <1>4, <1>5, Zenon
<1>7. CopyBits(m, img, src, src_width, src_rect, dst_rect, junk) = found[DOMAIN list]
  BY <1>1, <1>5, Zenon
<1> HIDE DEF Raw
<1>8. Unfolds(found, loop, n, m) /\ CopyBits(m, img, src, src_width, src_rect, dst_rect, junk) = found[1..n]
  BY <1>2, <1>3, <1>6, <1>7
<1>9. PICK h : Runs(h, loop, n, m) /\ h[n] = found[1..n]
  BY <1>8, UnfoldingRuns
<1> QED
  BY <1>8, <1>9 DEF loop

-----------------------------------------------------------------------------
(* The list of a finite set has each of its elements once.                  *)
LEMMA ListOfSet ==
  ASSUME NEW S, IsFiniteSet(S)
  PROVE  \E n \in Nat : /\ DOMAIN SetToSeq(S) = 1..n
                        /\ \A k \in 1..n : SetToSeq(S)[k] \in S
                        /\ \A j, k \in 1..n : SetToSeq(S)[j] = SetToSeq(S)[k] => j = k
                        /\ \A x \in S : \E k \in 1..n : SetToSeq(S)[k] = x
<1> DEFINE n == Cardinality(S)
           list == SetToSeq(S)
<1>1. n \in Nat /\ ExistsBijection(1..n, S)
  BY FS_CardinalityType
<1>2. PICK f : f \in Bijection(1..n, S)
  BY <1>1 DEF ExistsBijection
<1>3. f \in [1..n -> S] /\ IsInjective(f)
  BY <1>2 DEF Bijection, Injection, IsInjective
<1>4. list \in [1..n -> S] /\ IsInjective(list)
  BY <1>3 DEF SetToSeq
<1>5. list \in Injection(1..n, S)
  BY <1>4 DEF Injection, IsInjective
<1>6. Cardinality(1..n) = n
  BY <1>1, FS_Interval
<1>7. list \in Surjection(1..n, S)
  BY <1>5, <1>6, FS_Injection
<1> HIDE DEF n, list
<1>8. \A x \in S : \E k \in 1..n : list[k] = x
  BY <1>7 DEF Surjection
<1>9. \A j, k \in 1..n : list[j] = list[k] => j = k
  BY <1>5 DEF Injection, IsInjective
<1>10. DOMAIN list = 1..n /\ \A k \in 1..n : list[k] \in S
  BY <1>4
<1> QED
  BY <1>1, <1>8, <1>9, <1>10 DEF list

(* The end of the range that starts at column s.                            *)
EndFrom(columns, s) ==
  CHOOSE e \in {c + 1 : c \in {d \in columns : d + 1 \notin columns}} :
    e > s /\ s..e-1 \subseteq columns
Starts(columns) == {c \in columns : c - 1 \notin columns}

LEMMA RangesAre ==
  ASSUME NEW columns
  PROVE  Ranges(columns) = {[start |-> s, end |-> EndFrom(columns, s)] : s \in Starts(columns)}
BY DEF Ranges, EndFrom, Starts

LEMMA RangesAreFinite ==
  ASSUME NEW columns, IsFiniteSet(columns)
  PROVE  IsFiniteSet(Ranges(columns))
<1> DEFINE f == [s \in Starts(columns) |-> [start |-> s, end |-> EndFrom(columns, s)]]
<1>1. IsFiniteSet(Starts(columns))
  <2>1. Starts(columns) \in SUBSET columns
    BY DEF Starts
  <2> QED
    BY <2>1, FS_Subset
<1>2. f \in Surjection(Starts(columns), Ranges(columns))
  BY RangesAre DEF Surjection
<1> QED
  BY <1>1, <1>2, FS_Surjection

(* A range is one of columns without a gap, from one after a gap to one     *)
(* before a gap.                                                            *)
LEMMA EndIs ==
  ASSUME NEW width \in Int, NEW columns \in SUBSET (0..width-1), NEW s \in Starts(columns)
  PROVE  LET e == EndFrom(columns, s)
         IN  /\ e \in Int /\ s < e /\ e \notin columns
             /\ \A x \in Int : s <= x /\ x < e => x \in columns
<1> DEFINE Gaps == {x \in Nat : s <= x /\ x \notin columns}
<1>1. s \in Int /\ 0 <= s /\ s <= width - 1 /\ s \in columns /\ width \in Nat
  BY DEF Starts
<1>2. width \in Gaps
  BY <1>1
<1>3. PICK g \in Gaps : \A x \in Gaps : g <= x
  <2>1. Gaps \subseteq Nat /\ Gaps # {}
    BY <1>2
  <2> HIDE DEF Gaps
  <2> QED
    BY <2>1, LeastElement
<1>4. g \in Int /\ s < g /\ g \notin columns /\ \A x \in Int : s <= x /\ x < g => x \in columns
  <2>1. ASSUME NEW x \in Int, s <= x, x < g, x \notin columns
        PROVE  FALSE
    <3>1. x \in Gaps
      BY <1>1, <2>1
    <3> QED
      BY <1>3, <2>1, <3>1
  <2> QED
    BY <1>1, <2>1
<1> DEFINE ends == {c + 1 : c \in {d \in columns : d + 1 \notin columns}}
<1>5. g \in ends /\ g > s /\ s..g-1 \subseteq columns
  <2>1. g - 1 \in columns /\ (g - 1) + 1 = g
    BY <1>1, <1>4
  <2> QED
    BY <1>1, <1>4, <2>1
<1>6. /\ EndFrom(columns, s) \in ends
      /\ EndFrom(columns, s) > s /\ s..EndFrom(columns, s)-1 \subseteq columns
  BY <1>5, Zenon DEF EndFrom
<1>7. \A e \in ends : e \in Int /\ e \notin columns
  OBVIOUS
<1> HIDE DEF ends
<1>8. PICK e \in Int : e = EndFrom(columns, s)
  BY <1>6, <1>7
<1>9. \A x \in Int : s <= x /\ x < e => x \in s..e-1
  BY <1>1, <1>8
<1> QED
  BY <1>1, <1>6, <1>7, <1>8, <1>9

(* The ranges of a scanline have each column of it once.                    *)
LEMMA RangesPartition ==
  ASSUME NEW width \in Int, NEW columns \in SUBSET (0..width-1)
  PROVE  /\ \A range \in Ranges(columns) :
              /\ range.start \in Int /\ range.end \in Int
              /\ \A x \in Int : range.start <= x /\ x < range.end => x \in columns
         /\ \A x \in columns : \E range \in Ranges(columns) :
              range.start <= x /\ x < range.end
         /\ \A r1, r2 \in Ranges(columns), x \in Int :
              r1.start <= x /\ x < r1.end /\ r2.start <= x /\ x < r2.end => r1 = r2
<1>1. ASSUME NEW range \in Ranges(columns)
      PROVE  /\ range.start \in Starts(columns) /\ range.end = EndFrom(columns, range.start)
             /\ range = [start |-> range.start, end |-> range.end]
             /\ range.start \in Int /\ range.end \in Int
             /\ range.start - 1 \notin columns /\ range.end \notin columns
             /\ range.start < range.end
             /\ \A x \in Int : range.start <= x /\ x < range.end => x \in columns
  <2>1. PICK s \in Starts(columns) : range = [start |-> s, end |-> EndFrom(columns, s)]
    BY <1>1, RangesAre
  <2>2. s \in Int /\ s - 1 \notin columns
    BY DEF Starts
  <2> QED
    BY <2>1, <2>2, EndIs
<1>2. ASSUME NEW x \in columns
      PROVE  \E range \in Ranges(columns) : range.start <= x /\ x < range.end
  <2> DEFINE Before == {k \in 0..x : \A y \in k..x : y \in columns}
  <2>1. x \in Int /\ 0 <= x /\ x \in Before /\ x \in Nat
    OBVIOUS
  <2>2. PICK s \in Before : \A k \in Before : s <= k
    <3>1. \A k \in Before : k \in Nat
      OBVIOUS
    <3>2. Before # {}
      BY <2>1
    <3> HIDE DEF Before
    <3>3. Before \subseteq Nat
      BY <3>1
    <3> QED
      BY <3>2, <3>3, LeastElement
  <2>3. s \in Int /\ 0 <= s /\ s <= x /\ \A y \in s..x : y \in columns
    OBVIOUS
  <2>4. s - 1 \notin columns
    <3>1. SUFFICES ASSUME s - 1 \in columns PROVE FALSE
      OBVIOUS
    <3>2. s - 1 \in 0..x /\ \A y \in (s - 1)..x : y = s - 1 \/ y \in s..x
      BY <2>1, <2>3, <3>1
    <3>3. s - 1 \in Before
      BY <2>3, <3>1, <3>2
    <3> QED
      BY <2>2, <2>3, <3>3
  <2>5. s \in Starts(columns)
    BY <2>1, <2>3, <2>4 DEF Starts
  <2>6. PICK e \in Int : e = EndFrom(columns, s) /\ s < e /\ e \notin columns
    BY <2>5, EndIs
  <2>7. x < e
    <3>1. SUFFICES ASSUME e <= x PROVE FALSE
      BY <2>1, <2>6
    <3>2. e \in s..x
      BY <2>1, <2>3, <2>6, <3>1
    <3> QED
      BY <2>3, <2>6, <3>2
  <2>8. [start |-> s, end |-> e] \in Ranges(columns)
    BY <2>5, <2>6, RangesAre
  <2> QED
    BY <2>3, <2>7, <2>8
<1>3. ASSUME NEW r1 \in Ranges(columns), NEW r2 \in Ranges(columns), NEW x \in Int,
             r1.start <= x, x < r1.end, r2.start <= x, x < r2.end
      PROVE  r1 = r2
  <2>1. ASSUME NEW p \in Ranges(columns), NEW q \in Ranges(columns),
               p.start <= x, x < p.end, q.start <= x, x < q.end, p.start < q.start
        PROVE  FALSE
    <3>1. p.start \in Int /\ p.end \in Int /\ q.start \in Int /\ q.start - 1 \notin columns
      BY <1>1
    <3>2. p.start <= q.start - 1 /\ q.start - 1 < p.end /\ q.start - 1 \in Int
      BY <2>1, <3>1
    <3> QED
      BY <1>1, <3>1, <3>2
  <2>2. r1.start = r2.start
    <3>1. r1.start \in Int /\ r2.start \in Int
      BY <1>1
    <3> QED
      BY <1>3, <2>1, <3>1
  <2> QED
    BY <1>1, <2>2
<1> QED
  BY <1>1, <1>2, <1>3
-----------------------------------------------------------------------------
(* Drawing leaves a memory of bytes a memory of bytes.                      *)
Modes == {"Copy", "XOr", "NotXOr"}

(* images that are clipped to pixels they have                              *)
IsImage(img) ==
  /\ img.base \in Int /\ img.width \in Int /\ img.height \in Int
  /\ img.clip \subseteq ScreenPixels(img)

LEMMA PixelWidthType ==
  ASSUME NEW width \in Int
  PROVE  PixelWidthToBytes(width) \in Int
BY BitmapAssumption DEF PixelWidthToBytes

LEMMA MaskIsByte ==
  ASSUME NEW k \in Int, 0 <= k
  PROVE  Mask(k) \subseteq Bits
BY BitmapAssumption DEF Mask, Bits

LEMMA RowMaskIsByte ==
  ASSUME NEW k \in Int, NEW inset \in Nat, NEW length
  PROVE  RowMask(k, inset, length) \subseteq Bits
<1>1. Mask(inset) \subseteq Bits
  BY MaskIsByte
<1> QED
  BY <1>1 DEF RowMask

LEMMA InkIsByte ==
  ASSUME NEW byte \in Byte, NEW mask \in SUBSET Bits, NEW pattern, NEW mode \in Modes
  PROVE  Ink(byte, mask, pattern, mode) \in Byte
BY DEF Ink, Byte, Modes, SymDiff

LEMMA FillPixelsType ==
  ASSUME NEW D \in SUBSET Int, NEW m \in [D -> Byte], NEW img, IsImage(img), NEW row \in Int,
         NEW start \in Int, NEW end, NEW pattern, NEW mode \in Modes
  PROVE  FillPixels(m, img, row, start, end, pattern, mode) \in [D -> Byte]
<1>1. PICK sb \in Int : sb = img.base + row * PixelWidthToBytes(img.width) + start \div CHAR_BIT
  <2>1. start \div CHAR_BIT \in Int /\ PixelWidthToBytes(img.width) \in Int
    BY BitmapAssumption, PixelWidthType DEF IsImage
  <2> QED
    BY <2>1 DEF IsImage
<1>2. PICK lb : lb = sb + PixelWidthToBytes((start % CHAR_BIT) + end - start) - 1
  OBVIOUS
<1>3. FillPixels(m, img, row, start, end, pattern, mode)
      = [i \in D |-> IF i \in sb..lb
                     THEN Ink(m[i], RowMask(i - sb, start % CHAR_BIT, end - start), pattern, mode)
                     ELSE m[i]]
  BY <1>1, <1>2 DEF FillPixels
<1>4. start % CHAR_BIT \in Nat
  BY BitmapAssumption
<1>5. ASSUME NEW i \in D
      PROVE  Ink(m[i], RowMask(i - sb, start % CHAR_BIT, end - start), pattern, mode) \in Byte
  <2>1. RowMask(i - sb, start % CHAR_BIT, end - start) \in SUBSET Bits
    BY <1>1, <1>4, RowMaskIsByte
  <2> QED
    BY <2>1, InkIsByte
<1> QED
  BY <1>3, <1>5

(* the columns of a row and the rows of a clip region                       *)
LEMMA ScanlineIs ==
  ASSUME NEW img, IsImage(img), NEW y
  PROVE  /\ Scanline(img, y) \in SUBSET (0..img.width-1)
         /\ \A x : x \in Scanline(img, y) <=> <<x, y>> \in img.clip
         /\ IsFiniteSet(Scanline(img, y)) /\ IsFiniteSet(Ranges(Scanline(img, y)))
<1>1. ASSUME NEW p \in img.clip
      PROVE  p = <<p[1], p[2]>> /\ p[1] \in 0..img.width-1 /\ p[2] \in 0..img.height-1
  BY <1>1 DEF IsImage, ScreenPixels
<1>2. ASSUME NEW x
      PROVE  x \in Scanline(img, y) <=> <<x, y>> \in img.clip
  BY <1>1 DEF Scanline
<1>3. Scanline(img, y) \in SUBSET (0..img.width-1)
  BY <1>1 DEF Scanline
<1>4. IsFiniteSet(0..img.width-1)
  BY FS_Interval DEF IsImage
<1>5. IsFiniteSet(Scanline(img, y))
  BY <1>3, <1>4, FS_Subset
<1> QED
  BY <1>2, <1>3, <1>5, RangesAreFinite

LEMMA ClipRowsAre ==
  ASSUME NEW img, IsImage(img)
  PROVE  /\ ClipRows(img) \in SUBSET (0..img.height-1)
         /\ \A y \in ClipRows(img) : \E x : <<x, y>> \in img.clip
         /\ \A x, y : <<x, y>> \in img.clip => y \in ClipRows(img)
         /\ IsFiniteSet(ClipRows(img))
<1>1. ASSUME NEW p \in img.clip
      PROVE  p = <<p[1], p[2]>> /\ p[2] \in 0..img.height-1
  BY <1>1 DEF IsImage, ScreenPixels
<1>2. ClipRows(img) \in SUBSET (0..img.height-1)
  BY <1>1 DEF ClipRows
<1>3. \A y \in ClipRows(img) : \E x : <<x, y>> \in img.clip
  BY <1>1 DEF ClipRows
<1>4. \A x, y : <<x, y>> \in img.clip => y \in ClipRows(img)
  BY DEF ClipRows
<1>5. IsFiniteSet(0..img.height-1)
  <2>1. img.height - 1 \in Int /\ 0 \in Int
    BY DEF IsImage
  <2> QED
    BY <2>1, FS_Interval
<1> QED
  BY <1>2, <1>3, <1>4, <1>5, FS_Subset

(* a loop whose steps keep a set keeps it                                   *)
LEMMA RunsStayIn ==
  ASSUME NEW loop, NEW n \in Nat, NEW T, NEW base \in T, NEW h, Runs(h, loop, n, base),
         \A k \in 1..n, m \in T : LoopStep(loop, m, k) \in T
  PROVE  h[n] \in T
<1> DEFINE S == {k \in 0..n : h[k] \in T}
<1>1. 0 \in S
  BY DEF Runs
<1>2. ASSUME NEW k \in 1..n, k - 1 \in S
      PROVE  k \in S
  <2>1. h[k] = LoopStep(loop, h[k - 1], k) /\ h[k - 1] \in T
    BY <1>2, Zenon DEF Runs
  <2>2. h[k] \in T
    BY <2>1
  <2> QED
    BY <2>2
<1> HIDE DEF S
<1>3. \A k \in 0..n : k \in S
  BY <1>1, <1>2, LoopInduction
<1> QED
  BY <1>3 DEF S

(* the length of a loop over 1..v                                           *)
LEMMA LengthOf ==
  ASSUME NEW v \in Int
  PROVE  \E n \in Nat : 1..v = 1..n /\ n = (IF v >= 0 THEN v ELSE 0)
<1>1. CASE v >= 0
  BY <1>1
<1>2. CASE v < 0
  <2>1. 1..v = 1..0
    BY <1>2
  <2> QED
    BY <1>2, <2>1
<1> QED
  BY <1>1, <1>2

LEMMA FillRowType ==
  ASSUME NEW D \in SUBSET Int, NEW m \in [D -> Byte], NEW img, IsImage(img), NEW row \in Int,
         NEW start \in Int, NEW end \in Int, NEW y, NEW pattern, NEW mode \in Modes
  PROVE  FillRow(m, img, row, start, end, Scanline(img, y), pattern, mode) \in [D -> Byte]
<1>1. CASE ~InClipRows(img, row)
  BY <1>1 DEF FillRow
<1>2. CASE InClipRows(img, row)
  <2> DEFINE columns == Scanline(img, y)
  <2>1. columns \in SUBSET (0..img.width-1) /\ IsFiniteSet(Ranges(columns))
    BY ScanlineIs
  <2> HIDE DEF columns
  <2>2. PICK list : list = SetToSeq(Ranges(columns))
    OBVIOUS
  <2>3. PICK n \in Nat : DOMAIN list = 1..n /\ \A k \in 1..n : list[k] \in Ranges(columns)
    BY <2>1, <2>2, ListOfSet
  <2>4. PICK loop : loop = [kind |-> "ranges", img |-> img, row |-> row, start |-> start,
                            end |-> end, list |-> list, pattern |-> pattern, mode |-> mode]
    OBVIOUS
  <2>5. PICK h : Runs(h, loop, n, m)
                 /\ FillRow(m, img, row, start, end, columns, pattern, mode) = h[n]
    BY <1>2, <2>2, <2>3, <2>4, RangesLoop
  <2>6. ASSUME NEW k \in 1..n, NEW mm \in [D -> Byte]
        PROVE  LoopStep(loop, mm, k) \in [D -> Byte]
    <3>1. list[k].start \in Int /\ list[k].end \in Int
      BY <2>1, <2>3, RangesPartition DEF IsImage
    <3>2. MAX(start, list[k].start) \in Int
      BY <3>1 DEF MAX
    <3>3. Cut(mm, img, row, start, end, list[k], pattern, mode) \in [D -> Byte]
      BY <3>2, FillPixelsType DEF Cut
    <3>4. LoopStep(loop, mm, k) = Cut(mm, img, row, start, end, list[k], pattern, mode)
      BY <2>4 DEF LoopStep
    <3> QED
      BY <3>3, <3>4
  <2>7. h[n] \in [D -> Byte]
    BY <2>5, <2>6, RunsStayIn
  <2> QED
    BY <2>5, <2>7 DEF columns
<1> QED
  BY <1>1, <1>2

Sided(r) == r.top \in Int /\ r.left \in Int /\ r.bottom \in Int /\ r.right \in Int

LEMMA SizesAreInt ==
  ASSUME NEW r, Sided(r)
  PROVE  RectWidth(r) \in Int /\ RectHeight(r) \in Int
<1>1. r.right - r.left \in Int /\ r.bottom - r.top \in Int
  BY DEF Sided
<1>2. Coordinates \subseteq Int
  BY HalfAssumption DEF Coordinates
<1> QED
  BY <1>1, <1>2, Int16Is DEF RectWidth, RectHeight

LEMMA FillRectType ==
  ASSUME NEW D \in SUBSET Int, NEW m \in [D -> Byte], NEW img, IsImage(img), NEW r, Sided(r),
         NEW pattern, NEW mode \in Modes
  PROVE  FillRect(m, img, r, pattern, mode) \in [D -> Byte]
<1>1. PICK n \in Nat : 1..RectHeight(r) = 1..n
  BY SizesAreInt, LengthOf
<1>2. PICK loop : loop = [kind |-> "rect", img |-> img, r |-> r, pattern |-> pattern,
                          mode |-> mode]
  OBVIOUS
<1>3. PICK h : Runs(h, loop, n, m) /\ FillRect(m, img, r, pattern, mode) = h[n]
  BY <1>1, <1>2, RectLoop
<1>4. ASSUME NEW k \in 1..n, NEW mm \in [D -> Byte]
      PROVE  LoopStep(loop, mm, k) \in [D -> Byte]
  <2>1. r.top + (k - 1) \in Int /\ r.left \in Int /\ r.right \in Int
    BY DEF Sided
  <2>2. LoopStep(loop, mm, k) = RowOfRect(mm, img, r, pattern, mode, k - 1)
    BY <1>2 DEF LoopStep
  <2> QED
    BY <2>1, <2>2, FillRowType DEF RowOfRect
<1>5. h[n] \in [D -> Byte]
  BY <1>3, <1>4, RunsStayIn
<1> QED
  BY <1>3, <1>5

LEMMA FrameFillType ==
  ASSUME NEW D \in SUBSET Int, NEW m \in [D -> Byte], NEW img, IsImage(img), NEW r,
         NEW pattern, NEW mode \in Modes, NEW row \in Int, NEW start \in Int, NEW end \in Int
  PROVE  FrameFill(m, img, r, pattern, mode, row, start, end) \in [D -> Byte]
BY FillRowType DEF FrameFill

LEMMA FrameRectType ==
  ASSUME NEW D \in SUBSET Int, NEW m \in [D -> Byte], NEW img, IsImage(img), NEW r, Sided(r),
         NEW pattern, NEW mode \in Modes
  PROVE  FrameRect(m, img, r, pattern, mode) \in [D -> Byte]
<1>1. PICK n \in Nat : 1..(r.bottom - 1) - (r.top + 1) = 1..n
  <2>1. (r.bottom - 1) - (r.top + 1) \in Int
    BY DEF Sided
  <2> QED
    BY <2>1, LengthOf
<1>2. PICK loop : loop = [kind |-> "frame", img |-> img, r |-> r, pattern |-> pattern,
                          mode |-> mode]
  OBVIOUS
<1>3. PICK base : base = FrameFill(m, img, r, pattern, mode, r.top, r.left, r.right)
  OBVIOUS
<1>4. base \in [D -> Byte]
  BY <1>3, FrameFillType DEF Sided
<1>5. PICK h : Runs(h, loop, n, base)
               /\ FrameRect(m, img, r, pattern, mode)
                  = FrameFill(h[n], img, r, pattern, mode, r.bottom - 1, r.left, r.right)
  BY <1>1, <1>2, <1>3, FrameLoop
<1>6. ASSUME NEW k \in 1..n, NEW mm \in [D -> Byte]
      PROVE  LoopStep(loop, mm, k) \in [D -> Byte]
  <2>1. /\ r.top + k \in Int /\ r.left \in Int /\ r.right \in Int /\ r.left + 1 \in Int
        /\ r.right - 1 \in Int
    BY DEF Sided
  <2>2. LoopStep(loop, mm, k) = FrameSides(mm, img, r, pattern, mode, r.top + k)
    BY <1>2 DEF LoopStep
  <2>3. FrameFill(mm, img, r, pattern, mode, r.top + k, r.left, r.left + 1) \in [D -> Byte]
    BY <2>1, FrameFillType
  <2> QED
    BY <2>1, <2>2, <2>3, FrameFillType DEF FrameSides
<1>7. h[n] \in [D -> Byte]
  BY <1>4, <1>5, <1>6, RunsStayIn
<1>8. r.bottom - 1 \in Int /\ r.left \in Int /\ r.right \in Int
  BY DEF Sided
<1> QED
  BY <1>5, <1>7, <1>8, FrameFillType
-----------------------------------------------------------------------------
(* How far the rows of an oval reach is well-defined, and a number.         *)
ReachFrom(hw, hh, row, before, slope_dx) ==
  LET from == before - (slope_dx - 1)
      found == {offset \in 1..from :
                  Int32(offset * offset * (hh * hh) + row * row * (hw * hw))
                    <= Int32((hh * hh) * (hw * hw))}
  IN IF from <= 0 THEN from
     ELSE IF found = {} THEN 0 ELSE CHOOSE o \in found : \A p \in found : p <= o
Reach(hw, hh, reach, row) ==
  IF row = 0 THEN hw
  ELSE ReachFrom(hw, hh, row, reach[row - 1],
                 IF row = 1 THEN 0 ELSE reach[row - 2] - reach[row - 1])
Reaches(reach, hw, hh, n) == reach = [row \in 0..n |-> Reach(hw, hh, reach, row)]

LEMMA ReachSame ==
  ASSUME NEW hw, NEW hh, NEW row \in Nat, NEW f, NEW g,
         row # 0 => f[row - 1] = g[row - 1],
         row # 0 /\ row # 1 => f[row - 2] = g[row - 2]
  PROVE  Reach(hw, hh, f, row) = Reach(hw, hh, g, row)
BY DEF Reach

LEMMA ReachesExists ==
  ASSUME NEW hw, NEW hh, NEW n \in Nat
  PROVE  \E reach : Reaches(reach, hw, hh, n)
<1> DEFINE Good(k) == \E reach : Reaches(reach, hw, hh, k)
           S == {k \in 0..n : Good(k)}
<1>1. Good(0)
  <2> DEFINE f == [row \in 0..0 |-> hw]
  <2>1. \A row \in 0..0 : row = 0 /\ Reach(hw, hh, f, row) = hw
    BY DEF Reach
  <2>2. Reaches(f, hw, hh, 0)
    BY <2>1 DEF Reaches
  <2> QED
    BY <2>2, Zenon
<1>2. ASSUME NEW k \in 1..n, Good(k - 1)
      PROVE  Good(k)
  <2>1. PICK g : Reaches(g, hw, hh, k - 1)
    BY <1>2
  <2> DEFINE f == [row \in 0..k |-> IF row = k THEN Reach(hw, hh, g, k) ELSE g[row]]
  <2>2. ASSUME NEW row \in 0..k
        PROVE  f[row] = Reach(hw, hh, f, row)
    <3>1. row \in Nat
      OBVIOUS
    <3>2. /\ row # 0 => f[row - 1] = g[row - 1]
          /\ row # 0 /\ row # 1 => f[row - 2] = g[row - 2]
      OBVIOUS
    <3>3. Reach(hw, hh, f, row) = Reach(hw, hh, g, row)
      <4> HIDE DEF f
      <4> QED
        BY <3>1, <3>2, ReachSame
    <3>4. CASE row = k
      BY <3>3, <3>4
    <3>5. CASE row # k
      <4>1. row \in 0..(k - 1)
        BY <3>5
      <4>2. g[row] = Reach(hw, hh, g, row)
        BY <2>1, <4>1 DEF Reaches
      <4>3. f[row] = g[row]
        BY <3>5
      <4> QED
        BY <3>3, <4>2, <4>3, Zenon
    <3> QED
      BY <3>4, <3>5
  <2>3. Reaches(f, hw, hh, k)
    BY <2>2, Zenon DEF Reaches
  <2> QED
    BY <2>3, Zenon
<1> HIDE DEF Good
<1>3. \A k \in 1..n : k - 1 \in S => k \in S
  BY <1>2
<1>4. 0 \in S
  BY <1>1
<1> HIDE DEF S
<1>5. n \in S
  BY <1>3, <1>4, LoopInduction
<1> QED
  BY <1>5 DEF S, Good

LEMMA EllipseOffsetType ==
  ASSUME NEW hw \in Int, NEW hh \in Nat, NEW row \in 0..hh
  PROVE  EllipseOffset(hw, hh)[row] \in Int
<1>1. EllipseOffset(hw, hh) = CHOOSE reach : Reaches(reach, hw, hh, hh)
  BY Zenon DEF EllipseOffset, Reaches, Reach, ReachFrom
<1>2. PICK f : f = EllipseOffset(hw, hh)
  OBVIOUS
<1>3. Reaches(f, hw, hh, hh)
  BY <1>1, <1>2, ReachesExists, Zenon
<1> DEFINE S == {k \in 0..hh : \A j \in 0..k : f[j] \in Int}
<1>4. 0 \in S
  <2>1. f[0] = hw
    BY <1>3 DEF Reaches, Reach
  <2> QED
    BY <2>1
<1>5. ASSUME NEW k \in 1..hh, k - 1 \in S
      PROVE  k \in S
  <2>1. \A j \in 0..(k - 1) : f[j] \in Int
    BY <1>5
  <2>2. f[k] = Reach(hw, hh, f, k)
    <3>1. k \in 0..hh
      OBVIOUS
    <3> QED
      BY <1>3, <3>1, Zenon DEF Reaches
  <2>3. PICK slope : slope = IF k = 1 THEN 0 ELSE f[k - 2] - f[k - 1]
    OBVIOUS
  <2>4. slope \in Int
    BY <2>1, <2>3
  <2>5. PICK from : from = f[k - 1] - (slope - 1)
    OBVIOUS
  <2>6. from \in Int
    BY <2>1, <2>4, <2>5
  <2>7. PICK found : found = {offset \in 1..from :
                       Int32(offset * offset * (hh * hh) + k * k * (hw * hw))
                         <= Int32((hh * hh) * (hw * hw))}
    OBVIOUS
  <2>8. f[k] = IF from <= 0 THEN from
               ELSE IF found = {} THEN 0 ELSE CHOOSE o \in found : \A p \in found : p <= o
    <3>1. k # 0
      OBVIOUS
    <3> QED
      BY <2>2, <2>3, <2>5, <2>7, <3>1, Zenon DEF Reach, ReachFrom
  <2>9. ASSUME ~(from <= 0), found # {}
        PROVE  (CHOOSE o \in found : \A p \in found : p <= o) \in Int
    <3>1. from \in Nat /\ found \subseteq 0..from /\ found \subseteq Int
      BY <2>6, <2>7, <2>9
    <3>2. \E o \in found : \A p \in found : p <= o
      BY <2>9, <3>1, LargestElement
    <3>3. (CHOOSE o \in found : \A p \in found : p <= o) \in found
      BY <3>2, Zenon
    <3> QED
      BY <3>1, <3>3
  <2>10. f[k] \in Int
    BY <2>6, <2>8, <2>9
  <2>11. \A j \in 0..k : j \in 0..(k - 1) \/ j = k
    OBVIOUS
  <2> QED
    BY <2>1, <2>10, <2>11
<1> HIDE DEF S
<1>6. \A k \in 0..hh : k \in S
  BY <1>4, <1>5, LoopInduction
<1> QED
  BY <1>2, <1>6 DEF S

LEMMA Half2Type ==
  ASSUME NEW v \in Int
  PROVE  Half2(v) \in Int
BY DEF Half2

LEMMA OvalFillType ==
  ASSUME NEW D \in SUBSET Int, NEW m \in [D -> Byte], NEW img, IsImage(img), NEW r, Sided(r),
         NEW pattern, NEW junk, NEW dy \in Int, NEW start \in Int, NEW end \in Int
  PROVE  OvalFill(m, img, r, pattern, junk, dy, start, end) \in [D -> Byte]
<1>1. r.top + Half2(RectHeight(r)) + dy \in Int /\ "Copy" \in Modes
  BY SizesAreInt, Half2Type DEF Sided, Modes
<1> QED
  BY <1>1, FillRowType DEF OvalFill

LEMMA FillEllipseType ==
  ASSUME NEW D \in SUBSET Int, NEW m \in [D -> Byte], NEW img, IsImage(img), NEW r, Sided(r),
         NEW pattern, NEW junk
  PROVE  FillEllipse(m, img, r, pattern, junk) \in [D -> Byte]
<1>1. PICK hw \in Int, hh \in Int : hw = Half2(RectWidth(r)) /\ hh = Half2(RectHeight(r))
  BY SizesAreInt, Half2Type
<1>2. PICK n \in Nat : 1..hh = 1..n /\ n = IF hh >= 0 THEN hh ELSE 0
  BY LengthOf
<1>3. PICK loop : loop = [kind |-> "oval", img |-> img, r |-> r, pattern |-> pattern,
                          junk |-> junk]
  OBVIOUS
<1>4. PICK base : base = OvalFill(m, img, r, pattern, junk, 0, r.left, r.right)
  OBVIOUS
<1>5. base \in [D -> Byte]
  BY <1>4, OvalFillType DEF Sided
<1>6. PICK h : Runs(h, loop, n, base) /\ FillEllipse(m, img, r, pattern, junk) = h[n]
  BY <1>1, <1>2, <1>3, <1>4, OvalLoop
<1>7. ASSUME NEW k \in 1..n, NEW mm \in [D -> Byte]
      PROVE  LoopStep(loop, mm, k) \in [D -> Byte]
  <2>1. hh \in Nat /\ k \in 0..hh /\ k \in Int /\ -k \in Int
    BY <1>2
  <2>2. PICK offset \in Int : offset = EllipseOffset(hw, hh)[k]
    BY <2>1, EllipseOffsetType
  <2>3. PICK left \in Int, right \in Int :
          left = Int16((r.left + hw) - offset) /\ right = Int16((r.left + hw) + offset)
    <3>1. (r.left + hw) - offset \in Int /\ (r.left + hw) + offset \in Int
      BY <2>2 DEF Sided
    <3> QED
      BY <3>1, Int16Is, HalfAssumption DEF Coordinates
  <2>4. LoopStep(loop, mm, k) = OvalRows(mm, img, r, pattern, junk, k)
    BY <1>3 DEF LoopStep
  <2>5. OvalRows(mm, img, r, pattern, junk, k)
        = OvalFill(OvalFill(mm, img, r, pattern, junk, -k, left, right),
                   img, r, pattern, junk, k, left, right)
    <3>1. OvalRows(mm, img, r, pattern, junk, k)
          = OvalFill(OvalFill(mm, img, r, pattern, junk, -k,
                              Int16((r.left + hw) - EllipseOffset(hw, hh)[k]),
                              Int16((r.left + hw) + EllipseOffset(hw, hh)[k])),
                     img, r, pattern, junk, k, Int16((r.left + hw) - EllipseOffset(hw, hh)[k]),
                     Int16((r.left + hw) + EllipseOffset(hw, hh)[k]))
      BY <1>1, Zenon DEF OvalRows
    <3>2. /\ Int16((r.left + hw) - EllipseOffset(hw, hh)[k]) = left
          /\ Int16((r.left + hw) + EllipseOffset(hw, hh)[k]) = right
      BY <2>2, <2>3
    <3> QED
      BY <3>1, <3>2, Zenon
  <2>6. OvalFill(mm, img, r, pattern, junk, -k, left, right) \in [D -> Byte]
    BY <2>1, <2>3, OvalFillType
  <2> QED
    BY <2>1, <2>3, <2>4, <2>5, <2>6, OvalFillType
<1>8. h[n] \in [D -> Byte]
  BY <1>5, <1>6, <1>7, RunsStayIn
<1> QED
  BY <1>6, <1>8

(* copying                                                                  *)
LEMMA BitarrayCopyType ==
  ASSUME NEW D \in SUBSET Int, NEW m \in [D -> Byte], NEW src, NEW src_at, NEW src_offset,
         NEW length \in Int, NEW dst_at \in Int, NEW dst_offset \in Int, NEW junk
  PROVE  BitarrayCopy(src, src_at, src_offset, length, m, dst_at, dst_offset, junk)
           \in [D -> Byte]
<1>1. PICK first \in Int, inset \in Nat :
        first = dst_at + dst_offset \div CHAR_BIT /\ inset = dst_offset % CHAR_BIT
  <2>1. CHAR_BIT \in Nat \ {0}
    BY BitmapAssumption
  <2>2. dst_offset \div CHAR_BIT \in Int /\ dst_offset % CHAR_BIT \in 0..(CHAR_BIT - 1)
    BY <2>1, Division
  <2>3. dst_at + dst_offset \div CHAR_BIT \in Int /\ dst_offset % CHAR_BIT \in Nat
    BY <2>1, <2>2
  <2> QED
    BY <2>3
<1>2. PICK final : final = first + PixelWidthToBytes(inset + length) - 1
  OBVIOUS
<1>3. PICK at : at = src_at + src_offset \div CHAR_BIT
  OBVIOUS
<1>4. PICK turn : turn = src_offset % CHAR_BIT
  OBVIOUS
<1>5. BitarrayCopy(src, src_at, src_offset, length, m, dst_at, dst_offset, junk)
      = [i \in D |-> IF i \in first..final
                     THEN (m[i] \ CopyMask(i - first, inset, length))
                          \cup (Shifted(src, at, turn, inset, i - first, junk)
                                \cap CopyMask(i - first, inset, length))
                     ELSE m[i]]
  BY <1>1, <1>2, <1>3, <1>4 DEF BitarrayCopy
<1>6. ASSUME NEW i \in D, i \in first..final
      PROVE  CopyMask(i - first, inset, length) \subseteq Bits
  <2>1. PICK k \in Nat : k = i - first
    BY <1>6
  <2>2. Mask(inset) \subseteq Bits
    BY MaskIsByte
  <2>3. PICK rest \in Int : rest = length - MIN(length, CHAR_BIT - inset)
    BY BitmapAssumption DEF MIN
  <2>4. rest \div CHAR_BIT \in Int
    BY BitmapAssumption
  <2>5. k = 0 \/ (k > 0 /\ k <= rest \div CHAR_BIT) \/ k > rest \div CHAR_BIT
    BY <2>4
  <2>6. CopyMask(k, inset, length)
        = CASE k = 0 -> Mask(inset) \ Mask(inset + MIN(length, CHAR_BIT - inset))
            [] k > 0 /\ k <= rest \div CHAR_BIT -> Bits
            [] k > rest \div CHAR_BIT -> Bits \ Mask(rest % CHAR_BIT)
    BY <2>3 DEF CopyMask
  <2> QED
    BY <2>1, <2>2, <2>5, <2>6
<1>7. \A i \in D : i \in first..final =>
        (m[i] \ CopyMask(i - first, inset, length))
          \cup (Shifted(src, at, turn, inset, i - first, junk)
                \cap CopyMask(i - first, inset, length)) \in Byte
  BY <1>6 DEF Byte
<1>8. \A i \in D : m[i] \in Byte
  OBVIOUS
<1> QED
  BY <1>5, <1>7, <1>8

LEMMA CopyRowType ==
  ASSUME NEW D \in SUBSET Int, NEW m \in [D -> Byte], NEW img, IsImage(img),
         NEW src, NEW src_width, NEW src_rect, NEW dst_rect, Sided(dst_rect), NEW junk,
         NEW y \in Int
  PROVE  CopyRow(m, img, src, src_width, src_rect, dst_rect, junk, y) \in [D -> Byte]
<1> DEFINE columns == Scanline(img, y)
<1>1. columns \in SUBSET (0..img.width-1) /\ IsFiniteSet(Ranges(columns))
  BY ScanlineIs
<1> HIDE DEF columns
<1>2. PICK list : list = SetToSeq(Ranges(columns))
  OBVIOUS
<1>3. PICK n \in Nat : DOMAIN list = 1..n /\ \A k \in 1..n : list[k] \in Ranges(columns)
  BY <1>1, <1>2, ListOfSet
<1>4. PICK loop : loop = [kind |-> "parts", img |-> img, src |-> src, src_width |-> src_width,
                          src_rect |-> src_rect, dst_rect |-> dst_rect, junk |-> junk,
                          y |-> y, list |-> list]
  OBVIOUS
<1>5. PICK h : Runs(h, loop, n, m)
               /\ CopyRow(m, img, src, src_width, src_rect, dst_rect, junk, y) = h[n]
  BY <1>2, <1>3, <1>4, PartsLoop DEF columns
<1>6. ASSUME NEW k \in 1..n, NEW mm \in [D -> Byte]
      PROVE  LoopStep(loop, mm, k) \in [D -> Byte]
  <2>1. list[k].start \in Int /\ list[k].end \in Int
    BY <1>1, <1>3, RangesPartition DEF IsImage
  <2>2. PICK start \in Int, end \in Int :
          start = MAX(list[k].start, dst_rect.left) /\ end = MIN(list[k].end, dst_rect.right)
    BY <2>1 DEF MAX, MIN, Sided
  <2>3. img.base + PixelWidthToBytes(img.width) * y \in Int /\ end - start \in Int
    BY <2>2, PixelWidthType DEF IsImage
  <2>4. LoopStep(loop, mm, k)
        = CopyPart(mm, img, src, src_width, src_rect, dst_rect, junk, y, list[k])
    BY <1>4 DEF LoopStep
  <2>5. CopyPart(mm, img, src, src_width, src_rect, dst_rect, junk, y, list[k])
        = IF start >= end THEN mm
          ELSE BitarrayCopy(
                 src, PixelWidthToBytes(src_width) * (y - dst_rect.top + src_rect.top),
                 src_rect.left + (start - dst_rect.left), end - start,
                 mm, img.base + PixelWidthToBytes(img.width) * y, start, junk)
    BY <2>2 DEF CopyPart
  <2> QED
    BY <2>2, <2>3, <2>4, <2>5, BitarrayCopyType
<1>7. h[n] \in [D -> Byte]
  BY <1>5, <1>6, RunsStayIn
<1> QED
  BY <1>5, <1>7

LEMMA CopyBitsType ==
  ASSUME NEW D \in SUBSET Int, NEW m \in [D -> Byte], NEW img, IsImage(img),
         NEW src, NEW src_width, NEW src_rect, NEW dst_rect, Sided(dst_rect), NEW junk
  PROVE  CopyBits(m, img, src, src_width, src_rect, dst_rect, junk) \in [D -> Byte]
<1> DEFINE rows == RowsOf(img, dst_rect)
<1>1. rows \in SUBSET Int /\ IsFiniteSet(rows)
  <2>1. rows \in SUBSET ClipRows(img)
    BY DEF RowsOf
  <2> HIDE DEF rows
  <2>2. IsFiniteSet(rows)
    BY <2>1, ClipRowsAre, FS_Subset
  <2>3. ClipRows(img) \in SUBSET (0..img.height-1) /\ 0..img.height-1 \subseteq Int
    BY ClipRowsAre DEF IsImage
  <2> QED
    BY <2>1, <2>2, <2>3
<1> HIDE DEF rows
<1>2. PICK list : list = SetToSeq(rows)
  OBVIOUS
<1>3. PICK n \in Nat : DOMAIN list = 1..n /\ \A k \in 1..n : list[k] \in rows
  BY <1>1, <1>2, ListOfSet
<1>4. PICK loop : loop = [kind |-> "copy", img |-> img, src |-> src, src_width |-> src_width,
                          src_rect |-> src_rect, dst_rect |-> dst_rect, junk |-> junk,
                          list |-> list]
  OBVIOUS
<1>5. PICK h : Runs(h, loop, n, m)
               /\ CopyBits(m, img, src, src_width, src_rect, dst_rect, junk) = h[n]
  BY <1>2, <1>3, <1>4, CopyLoop DEF rows
<1>6. ASSUME NEW k \in 1..n, NEW mm \in [D -> Byte]
      PROVE  LoopStep(loop, mm, k) \in [D -> Byte]
  <2>1. LoopStep(loop, mm, k)
        = CopyRow(mm, img, src, src_width, src_rect, dst_rect, junk, list[k])
    BY <1>4 DEF LoopStep
  <2>2. list[k] \in Int
    BY <1>1, <1>3
  <2> QED
    BY <2>1, <2>2, CopyRowType
<1>7. h[n] \in [D -> Byte]
  BY <1>5, <1>6, RunsStayIn
<1> QED
  BY <1>5, <1>7
-----------------------------------------------------------------------------
(* What the variables hold.                                                 *)
PenModes == {patCopy, patXOr, notPatXOr}
Box == [top : Int, left : Int, bottom : Int, right : Int]
RegionRecord == [region_size : Int, bounding_box : Box]
GrafPort(n) ==
  [port_bits : BitMap, port_rect : Rect, clip_region : 0..n, visible_region : 0..n,
   fill_pattern : Pattern, back_pattern : Pattern, pen_pattern : Pattern,
   pattern_mode : PenModes \cup {0}, pen_location : Point, pen_size : Point,
   region_save : 0..n]
(* a port that is open has both its regions and a mode                      *)
OpenPortOK(port) == port.visible_region # 0 /\ port.pattern_mode \in PenModes
IsPort(port, n) == port \in GrafPort(n) /\ (port.clip_region # 0 => OpenPortOK(port))

PortsOK ==
  /\ ports \in [Ports -> GrafPort(Len(blocks))]
  /\ \A p \in Ports : IsPort(ports[p], Len(blocks))
  /\ the_port \in Ports /\ ThePort.clip_region # 0
HandlesOK ==
  /\ blocks \in Seq(RegionRecord) /\ Len(blocks) <= MaxHandles
  /\ table \in [0..2*MaxHandles+4 -> Int]
AppOK == rect \in Rect /\ pt \in Point

Whole == ScreenPixels(Image(ScreenBits))
(* The outermost TempClipRect saved the whole screen.                       *)
ClipsOK ==
  /\ clip \in SUBSET Whole /\ saved \in Seq(SUBSET Whole)
  /\ IF saved = <<>> THEN clip = Whole ELSE saved[1] = Whole
IsMenu(menu) ==
  /\ menu = [anchor |-> menu.anchor, bounds |-> menu.bounds, items |-> menu.items,
             hovered |-> menu.hovered, saved_bitmap |-> menu.saved_bitmap,
             before |-> menu.before]
  /\ menu.anchor \in Rect /\ menu.bounds \in Rect
  /\ menu.hovered \in Seq(Int)
PopupOK == popup # <<>> => IsMenu(popup[1])
NativeOK == ClipsOK /\ PopupOK
GraphicsInv == mem \in Memory /\ PortsOK /\ HandlesOK /\ AppOK /\ NativeOK

LEMMA CoordinatesAreInt == Coordinates \subseteq Int /\ 0 \in Coordinates /\ Half - 1 \in Coordinates
                           /\ -Half \in Coordinates
BY HalfAssumption DEF Coordinates

LEMMA RectsAreSided ==
  /\ \A r \in Rect : Sided(r)
  /\ \A r \in Box : Sided(r)
  /\ Rect \subseteq Box
  /\ ZeroRect \in Rect /\ WholePlane \in Rect
<1> USE CoordinatesAreInt
<1>1. \A r \in Rect : Sided(r) /\ r \in Box
  BY DEF Rect, Sided, Box
<1>2. ZeroRect \in Rect
  BY DEF ZeroRect, Rect
<1>3. WholePlane \in Rect
  BY DEF WholePlane, Rect
<1>4. \A r \in Box : Sided(r)
  BY DEF Box, Sided
<1> QED
  BY <1>1, <1>2, <1>3, <1>4

LEMMA OffsetRectType ==
  ASSUME NEW r, Sided(r), NEW dh \in Int, NEW dv \in Int
  PROVE  OffsetRect(r, dh, dv) \in Rect
<1>1. r.top + dv \in Int /\ r.left + dh \in Int /\ r.bottom + dv \in Int /\ r.right + dh \in Int
  BY DEF Sided
<1>2. /\ Int16(r.top + dv) \in Coordinates /\ Int16(r.left + dh) \in Coordinates
      /\ Int16(r.bottom + dv) \in Coordinates /\ Int16(r.right + dh) \in Coordinates
  BY <1>1, Int16Is
<1> QED
  BY <1>2 DEF OffsetRect, Rect

LEMMA PointPlusType ==
  ASSUME NEW p \in [x : Int, y : Int], NEW q \in [x : Int, y : Int]
  PROVE  PointPlus(p, q) \in Point
<1>1. p.x + q.x \in Int /\ p.y + q.y \in Int
  OBVIOUS
<1> QED
  BY <1>1, Int16Is DEF PointPlus, Point

LEMMA PointsAreInt == Point \subseteq [x : Int, y : Int]
BY CoordinatesAreInt DEF Point

LEMMA BitMapIs ==
  ASSUME NEW b \in BitMap
  PROVE  /\ b.base_addr \in Nat /\ b.bounds \in Rect /\ Sided(b.bounds)
         /\ b.bounds.left \in Int /\ b.bounds.top \in Int
         /\ IsImage(Image(b)) /\ Image(b).clip = ScreenPixels(Image(b))
<1>1. b.base_addr \in Nat /\ b.bounds \in Rect
  BY DEF BitMap
<1>2. Sided(b.bounds)
  BY <1>1, RectsAreSided
<1>3. RectWidth(b.bounds) \in Int /\ RectHeight(b.bounds) \in Int
  BY <1>2, SizesAreInt
<1>4. Image(b).clip = ScreenPixels(Image(b))
  BY DEF Image, ScreenPixels
<1>5. /\ Image(b).base = b.base_addr /\ Image(b).width = RectWidth(b.bounds)
      /\ Image(b).height = RectHeight(b.bounds)
  BY DEF Image
<1>6. IsImage(Image(b))
  BY <1>1, <1>3, <1>4, <1>5 DEF IsImage
<1>7. b.bounds.left \in Int /\ b.bounds.top \in Int
  BY <1>2 DEF Sided
<1> QED
  BY <1>1, <1>2, <1>4, <1>6, <1>7

LEMMA ScreenIsImage ==
  ASSUME ClipsOK
  PROVE  /\ IsImage(Screen) /\ Screen.clip = clip /\ ScreenPixels(Screen) = Whole
         /\ ScreenBits \in BitMap /\ Sided(ScreenBits.bounds) /\ ScreenBits.bounds \in Rect
<1>1. ScreenBits \in BitMap
  BY PortAssumption
<1>2. Image(ScreenBits) = [base |-> Image(ScreenBits).base, width |-> Image(ScreenBits).width,
                           height |-> Image(ScreenBits).height, clip |-> Image(ScreenBits).clip]
  BY DEF Image
<1>3. /\ Screen.clip = clip /\ Screen.width = Image(ScreenBits).width
      /\ Screen.height = Image(ScreenBits).height /\ Screen.base = Image(ScreenBits).base
  BY <1>2 DEF Screen
<1>4. ScreenPixels(Screen) = Whole
  BY <1>3 DEF ScreenPixels, Whole
<1>5. clip \subseteq Whole
  BY DEF ClipsOK
<1> QED
  BY <1>1, <1>3, <1>4, <1>5, BitMapIs DEF IsImage

LEMMA MemoryIs == 0..MemorySize-1 \in SUBSET Int /\ Memory = [0..MemorySize-1 -> Byte]
BY InputAssumption DEF Memory

LEMMA PatternsAre == White \in Pattern /\ Black \in Pattern
BY DEF White, Black, Pattern, Byte

(* the ports and handles of the beginning                                   *)
LEMMA RegionsAre ==
  /\ \A size \in Int, box \in Box : Region(size, box) \in RegionRecord
  /\ NoRegion \in RegionRecord
  /\ PortRegions \in Seq(RegionRecord) /\ Len(PortRegions) = 2
<1>1. \A size \in Int, box \in Box : Region(size, box) \in RegionRecord
  BY DEF Region, RegionRecord
<1>2. ScreenBits.bounds \in Box /\ ZeroRect \in Box /\ WholePlane \in Box
  BY RectsAreSided, PortAssumption, BitMapIs
<1>3. Region(ScanlinesSize, WholePlane) \in RegionRecord
      /\ Region(ScanlinesSize, ScreenBits.bounds) \in RegionRecord
  BY <1>1, <1>2 DEF ScanlinesSize
<1>4. NoRegion \in RegionRecord
  BY <1>1, <1>2 DEF NoRegion
<1> QED
  BY <1>1, <1>3, <1>4 DEF PortRegions

LEMMA InitPortType ==
  ASSUME NEW n \in Nat, NEW k \in Nat, NEW port \in GrafPort(n), NEW h \in 1..(k - 1), n <= k
  PROVE  /\ InitPort(port, h) \in GrafPort(k) /\ InitPort(port, h).clip_region = h
         /\ OpenPortOK(InitPort(port, h))
         /\ InitPort(port, h).region_save = port.region_save
<1>1. ScreenBits \in BitMap /\ ScreenBits.bounds \in Rect
  BY PortAssumption, BitMapIs
<1>2. h \in 0..k /\ h + 1 \in 0..k /\ h + 1 # 0 /\ port.region_save \in 0..k
  BY DEF GrafPort
<1>3. patCopy \in PenModes
  BY DEF PenModes
<1> QED
  BY <1>1, <1>2, <1>3, PatternsAre DEF InitPort, GrafPort, OpenPortOK

LEMMA UnopenedType ==
  ASSUME NEW n \in Nat
  PROVE  Unopened \in GrafPort(n) /\ Unopened.clip_region = 0 /\ IsPort(Unopened, n)
<1>1. [base_addr |-> 0, row_bytes |-> 0, bounds |-> ZeroRect] \in BitMap /\ ZeroRect \in Rect
  BY RectsAreSided DEF BitMap
<1>2. [x |-> 0, y |-> 0] \in Point
  BY CoordinatesAreInt DEF Point
<1> QED
  BY <1>1, <1>2, PatternsAre DEF Unopened, GrafPort, IsPort

LEMMA GraphicsInit == Init => GraphicsInv
<1> SUFFICES ASSUME Init PROVE GraphicsInv
  OBVIOUS
<1> USE DEF Init, QuickDrawInit
<1>1. mem \in Memory
  BY InputAssumption
<1>2. blocks \in Seq(RegionRecord) /\ Len(blocks) = 2 /\ MaxHandles \in Nat /\ 2 <= MaxHandles
  BY RegionsAre, InputAssumption
<1>3. table \in [0..2*MaxHandles+4 -> Int]
  <2>1. \A i \in 0..2*MaxHandles+4 : BlocksHigh \in Int /\ i \div 2 + 1 \in Int
    BY <1>2 DEF BlocksHigh
  <2> QED
    BY <2>1
<1>4. PortsOK
  <2>1. Unopened \in GrafPort(2) /\ IsPort(Unopened, 2)
    BY UnopenedType
  <2>2. /\ InitPort(Unopened, 1) \in GrafPort(2) /\ IsPort(InitPort(Unopened, 1), 2)
        /\ InitPort(Unopened, 1).clip_region # 0
    BY <2>1, InitPortType DEF IsPort
  <2>3. WMgrPort \in Ports
    BY PortAssumption
  <2> QED
    BY <1>2, <2>1, <2>2, <2>3 DEF PortsOK, ThePort
<1>5. AppOK
  BY RectsAreSided, CoordinatesAreInt DEF AppOK, Point
<1>6. NativeOK
  BY DEF NativeOK, ClipsOK, PopupOK, Whole
<1> QED
  BY <1>1, <1>2, <1>3, <1>4, <1>5, <1>6 DEF GraphicsInv, HandlesOK

LEMMA ThePortIs ==
  ASSUME PortsOK
  PROVE  /\ ThePort \in GrafPort(Len(blocks)) /\ OpenPortOK(ThePort)
         /\ ThePort.clip_region # 0
         /\ ThePort.port_bits \in BitMap /\ ThePort.port_rect \in Rect
         /\ ThePort.pen_location \in Point /\ ThePort.pen_size \in Point
BY DEF PortsOK, ThePort, IsPort, GrafPort

LEMMA PortChanged ==
  ASSUME PortsOK, NEW port, IsPort(port, Len(blocks)), port.clip_region # 0,
         ports' = [ports EXCEPT ![the_port] = port], UNCHANGED <<the_port, blocks>>
  PROVE  PortsOK'
BY DEF PortsOK, IsPort, ThePort

LEMMA PortsKept ==
  ASSUME PortsOK, UNCHANGED <<ports, the_port, blocks>>
  PROVE  PortsOK'
BY DEF PortsOK, IsPort, ThePort

LEMMA HandlesKept == HandlesOK /\ UNCHANGED handleVars => HandlesOK'
BY DEF HandlesOK, handleVars
LEMMA AppKept == AppOK /\ rect' = rect /\ pt' = pt => AppOK'
BY DEF AppOK
LEMMA NativeKept == NativeOK /\ UNCHANGED nativeVars => NativeOK'
BY DEF NativeOK, ClipsOK, PopupOK, nativeVars, IsMenu

(* Calls that only set fields of the port                                   *)
LEMMA SetsPortKeeps ==
  ASSUME GraphicsInv, UNCHANGED nativeVars, NEW f, NEW what, NEW port, SetsPort(f, what, port),
         port \in GrafPort(Len(blocks)), OpenPortOK(port), port.clip_region # 0
  PROVE  GraphicsInv'
<1>1. /\ ports' = [ports EXCEPT ![the_port] = port] /\ UNCHANGED <<mem, the_port, blocks>>
      /\ UNCHANGED handleVars /\ rect' = rect /\ pt' = pt
  BY DEF SetsPort, handleVars, appVars
<1>2. IsPort(port, Len(blocks))
  BY DEF IsPort
<1>3. PortsOK'
  BY <1>1, <1>2, PortChanged DEF GraphicsInv
<1>4. HandlesOK' /\ AppOK' /\ NativeOK'
  BY <1>1, HandlesKept, AppKept, NativeKept DEF GraphicsInv
<1> QED
  BY <1>1, <1>3, <1>4, MemoryIs DEF GraphicsInv

(* Calculations of the application                                          *)
LEMMA ComputesKeeps ==
  ASSUME GraphicsInv, UNCHANGED nativeVars, NEW what, NEW r \in Rect, NEW p \in Point, NEW a,
         Computes(what, r, p, a)
  PROVE  GraphicsInv'
<1>1. rect' = r /\ pt' = p /\ UNCHANGED <<mem, ports, the_port, blocks>> /\ UNCHANGED handleVars
  BY DEF Computes, handleVars, portVars
<1>2. AppOK'
  BY <1>1 DEF AppOK
<1>3. PortsOK' /\ HandlesOK' /\ NativeOK'
  BY <1>1, PortsKept, HandlesKept, NativeKept DEF GraphicsInv
<1> QED
  BY <1>1, <1>2, <1>3, MemoryIs DEF GraphicsInv

(* Calls that draw in the port                                              *)
LEMMA InPortKeeps ==
  ASSUME GraphicsInv, UNCHANGED nativeVars, NEW f, NEW what, NEW drawn \in Memory, NEW port,
         InPort(f, what, drawn, port), port \in GrafPort(Len(blocks)), OpenPortOK(port),
         port.clip_region # 0
  PROVE  GraphicsInv'
<1>1. /\ mem' = mem \/ mem' = drawn
      /\ UNCHANGED ports \/ ports' = [ports EXCEPT ![the_port] = port]
      /\ UNCHANGED <<the_port, blocks>> /\ UNCHANGED handleVars /\ rect' = rect /\ pt' = pt
  BY DEF InPort, handleVars, appVars
<1>2. IsPort(port, Len(blocks))
  BY DEF IsPort
<1>3. PortsOK'
  BY <1>1, <1>2, PortChanged, PortsKept DEF GraphicsInv
<1>4. HandlesOK' /\ AppOK' /\ NativeOK'
  BY <1>1, HandlesKept, AppKept, NativeKept DEF GraphicsInv
<1>5. mem' \in Memory
  BY <1>1 DEF GraphicsInv
<1> QED
  BY <1>3, <1>4, <1>5, MemoryIs DEF GraphicsInv

LEMMA DrawKeeps ==
  ASSUME GraphicsInv, UNCHANGED nativeVars, NEW f, NEW what, NEW drawn \in Memory,
         InPort(f, what, drawn, ThePort)
  PROVE  GraphicsInv'
BY InPortKeeps, ThePortIs DEF GraphicsInv

(* what is drawn in the port is a memory                                    *)
LEMMA ModesAre ==
  /\ "Copy" \in Modes /\ "XOr" \in Modes /\ "NotXOr" \in Modes
  /\ \A mode \in PenModes : ConvertMode(mode) \in Modes
BY DEF Modes, PenModes, ConvertMode, patCopy, patXOr, notPatXOr

LEMMA GlobalIs ==
  ASSUME PortsOK, NEW r, Sided(r)
  PROVE  Global(r) \in Rect /\ Sided(Global(r)) /\ IsImage(ThePortImage)
<1>1. IsImage(ThePortImage) /\ Sided(ThePort.port_bits.bounds)
  BY ThePortIs, BitMapIs DEF ThePortImage
<1>2. -ThePort.port_bits.bounds.left \in Int /\ -ThePort.port_bits.bounds.top \in Int
  BY <1>1 DEF Sided
<1> QED
  BY <1>1, <1>2, OffsetRectType, RectsAreSided DEF Global, LocalToGlobal

LEMMA FillRectDraws ==
  ASSUME GraphicsInv, NEW r, Sided(r), NEW pattern, NEW mode \in Modes
  PROVE  FillRect(mem, ThePortImage, Global(r), pattern, mode) \in Memory
BY MemoryIs, GlobalIs, FillRectType DEF GraphicsInv

LEMMA OvalDraws ==
  ASSUME GraphicsInv, NEW r, Sided(r), NEW pattern, NEW junk
  PROVE  FillEllipse(mem, ThePortImage, Global(r), pattern, junk) \in Memory
BY MemoryIs, GlobalIs, FillEllipseType DEF GraphicsInv

LEMMA FrameDraws ==
  ASSUME GraphicsInv, NEW r, Sided(r)
  PROVE  FramedRect(r) \in Memory
<1>1. ConvertMode(ThePort.pattern_mode) \in Modes
  BY ThePortIs, ModesAre DEF GraphicsInv, OpenPortOK
<1> QED
  BY <1>1, MemoryIs, GlobalIs, FrameRectType DEF GraphicsInv, FramedRect

LEMMA StrokeDraws ==
  ASSUME GraphicsInv, NEW to_x \in Int
  PROVE  Stroke(to_x) \in Memory
<1> DEFINE bounds == ThePort.port_bits.bounds
           row == ThePort.pen_location.y - bounds.top
<1>1. /\ bounds.left \in Int /\ bounds.top \in Int /\ IsImage(ThePortImage)
      /\ ThePort.pen_location \in [x : Int, y : Int]
  BY ThePortIs, BitMapIs, PointsAreInt DEF GraphicsInv, ThePortImage
<1>2. /\ row \in Int /\ ThePort.pen_location.x - bounds.left \in Int
      /\ to_x - bounds.left \in Int
  BY <1>1
<1>3. /\ Int16(ThePort.pen_location.x - bounds.left) \in Int /\ Int16(to_x - bounds.left) \in Int
  BY <1>2, Int16Is, CoordinatesAreInt
<1>4. Stroke(to_x) = FillRow(mem, ThePortImage, row, Int16(ThePort.pen_location.x - bounds.left),
             Int16(to_x - bounds.left), Scanline(ThePortImage, row), ThePort.pen_pattern[0],
             "Copy")
  BY DEF Stroke
<1> HIDE DEF bounds, row
<1>8. PICK pattern : pattern = ThePort.pen_pattern[0]
  OBVIOUS
<1>7. PICK y \in Int, start \in Int, end \in Int :
        Stroke(to_x) = FillRow(mem, ThePortImage, y, start, end, Scanline(ThePortImage, y),
                               pattern, "Copy")
  BY <1>2, <1>3, <1>4, <1>8
<1>5. PICK D \in SUBSET Int : D = 0..MemorySize-1 /\ mem \in [D -> Byte] /\ "Copy" \in Modes
  BY MemoryIs, ModesAre DEF GraphicsInv
<1>6. FillRow(mem, ThePortImage, y, start, end, Scanline(ThePortImage, y), pattern, "Copy")
        \in [D -> Byte]
  BY <1>1, <1>5, FillRowType
<1> QED
  BY <1>5, <1>6, <1>7, MemoryIs
-----------------------------------------------------------------------------
(* The calls, one by one                                                    *)
LEMMA LargerPorts ==
  ASSUME NEW n \in Nat, NEW k \in Nat, n <= k, NEW port, port \in GrafPort(n)
  PROVE  port \in GrafPort(k)
<1>1. 0..n \subseteq 0..k
  OBVIOUS
<1> QED
  BY <1>1 DEF GrafPort

LEMMA Allocated ==
  ASSUME HandlesOK, NEW contents \in Seq(RegionRecord), AllocateHandles(contents)
  PROVE  HandlesOK' /\ Len(blocks') = Len(blocks) + Len(contents)
<1>1. blocks' \in Seq(RegionRecord) /\ Len(blocks') = Len(blocks) + Len(contents)
  BY DEF HandlesOK, AllocateHandles
<1>2. table' \in [0..2*MaxHandles+4 -> Int]
  <2>1. \A i \in 0..2*MaxHandles+4 : table[i] \in Int /\ BlocksHigh \in Int /\ i \div 2 + 1 \in Int
    BY InputAssumption DEF HandlesOK, BlocksHigh
  <2>2. DOMAIN table = 0..2*MaxHandles+4
    BY DEF HandlesOK
  <2> QED
    BY <2>1, <2>2 DEF AllocateHandles
<1> QED
  BY <1>1, <1>2 DEF HandlesOK, AllocateHandles

LEMMA SetPortKeeps ==
  ASSUME GraphicsInv, UNCHANGED nativeVars, NEW p \in Opened, SetPort(p)
  PROVE  GraphicsInv'
<1>1. the_port' = p /\ UNCHANGED <<mem, ports, blocks, rect, pt>> /\ UNCHANGED handleVars
  BY DEF SetPort, handleVars, appVars
<1>2. PortsOK'
  BY <1>1 DEF GraphicsInv, PortsOK, Opened, ThePort
<1> QED
  BY <1>1, <1>2, HandlesKept, AppKept, NativeKept, MemoryIs DEF GraphicsInv

LEMMA OpenPortKeeps ==
  ASSUME GraphicsInv, UNCHANGED nativeVars, NEW p \in Ports, OpenPort(p)
  PROVE  GraphicsInv'
<1>1. /\ the_port' = p /\ AllocateHandles(PortRegions) /\ UNCHANGED <<mem, rect, pt>>
      /\ ports' = [ports EXCEPT ![p] = InitPort(ports[p], Len(blocks) + 1)]
  BY DEF OpenPort, appVars
<1>2. PICK n \in Nat, k \in Nat : n = Len(blocks) /\ k = n + 2
  BY DEF GraphicsInv, HandlesOK
<1>3. HandlesOK' /\ Len(blocks') = k
  BY <1>1, <1>2, RegionsAre, Allocated DEF GraphicsInv
<1>4. \A q \in Ports : IsPort(ports[q], n) /\ ports[q] \in GrafPort(k) /\ ports[q] \in GrafPort(n)
  BY <1>2, LargerPorts DEF GraphicsInv, PortsOK
<1>5. PICK port : port = InitPort(ports[p], Len(blocks) + 1)
  OBVIOUS
<1>6. port \in GrafPort(k) /\ OpenPortOK(port) /\ port.clip_region # 0
  BY <1>2, <1>4, <1>5, InitPortType
<1>7. ports' = [ports EXCEPT ![p] = port]
  BY <1>1, <1>5
<1>8. PortsOK'
  BY <1>1, <1>3, <1>4, <1>6, <1>7 DEF GraphicsInv, PortsOK, IsPort, ThePort
<1> QED
  BY <1>1, <1>3, <1>8, AppKept, NativeKept, MemoryIs DEF GraphicsInv

LEMMA SetOriginKeeps ==
  ASSUME GraphicsInv, UNCHANGED nativeVars, NEW origin \in Point, SetOrigin(origin)
  PROVE  GraphicsInv'
<1> DEFINE port == WithOrigin(ThePort, origin)
           n == Len(blocks)
<1>1. ThePort \in GrafPort(n) /\ ThePort.port_rect \in Rect /\ ThePort.port_bits \in BitMap
      /\ ThePort.port_bits.bounds \in Rect
  BY ThePortIs, BitMapIs DEF GraphicsInv
<1>2. origin.x \in Int /\ origin.y \in Int
  BY PointsAreInt
<1>3. PICK normal \in Rect : normal = NormalizeRect(ThePort.port_rect)
  <2>1. -ThePort.port_rect.left \in Int /\ -ThePort.port_rect.top \in Int
        /\ Sided(ThePort.port_rect)
    BY <1>1, RectsAreSided DEF Sided
  <2> QED
    BY <2>1, OffsetRectType DEF NormalizeRect
<1>4. PICK bounds \in Rect : bounds = OffsetRect(ThePort.port_bits.bounds,
                                                 -ThePort.port_rect.left, -ThePort.port_rect.top)
  <2>1. -ThePort.port_rect.left \in Int /\ -ThePort.port_rect.top \in Int
        /\ Sided(ThePort.port_bits.bounds)
    BY <1>1, RectsAreSided DEF Sided
  <2> QED
    BY <2>1, OffsetRectType
<1>5. PICK new_rect \in Rect, new_bounds \in Rect :
        /\ new_rect = OffsetRect(normal, origin.x, origin.y)
        /\ new_bounds = OffsetRect(bounds, origin.x, origin.y)
  BY <1>2, <1>3, <1>4, OffsetRectType, RectsAreSided
<1>6. port = [ThePort EXCEPT !.port_rect = new_rect, !.port_bits.bounds = new_bounds]
  BY <1>3, <1>4, <1>5 DEF WithOrigin
<1>7. /\ port \in GrafPort(n) /\ port.clip_region = ThePort.clip_region
      /\ OpenPortOK(port)
  <2>1. OpenPortOK(ThePort)
    BY ThePortIs DEF GraphicsInv
  <2> HIDE DEF port
  <2>2. [ThePort.port_bits EXCEPT !.bounds = new_bounds] \in BitMap
    BY <1>1 DEF BitMap
  <2> QED
    BY <1>1, <1>6, <2>1, <2>2 DEF GrafPort, OpenPortOK
<1>8. ThePort.clip_region # 0
  BY ThePortIs DEF GraphicsInv
<1> HIDE DEF port
<1> QED
  BY <1>7, <1>8, SetsPortKeeps DEF SetOrigin, port

LEMMA PortTrapsKeep ==
  ASSUME GraphicsInv, UNCHANGED nativeVars, PortTraps
  PROVE  GraphicsInv'
<1>1. /\ ThePort \in GrafPort(Len(blocks)) /\ OpenPortOK(ThePort) /\ ThePort.clip_region # 0
      /\ ThePort.pen_location \in Point
  BY ThePortIs DEF GraphicsInv
<1>2. /\ Rectangles \subseteq Rect /\ Points \subseteq Point /\ Patterns \subseteq Pattern
      /\ BitMaps \subseteq BitMap
  BY InputAssumption, PortAssumption
<1>3. ASSUME NEW b \in BitMaps, SetPortBits(b)
      PROVE  GraphicsInv'
  <2>1. [ThePort EXCEPT !.port_bits = b] \in GrafPort(Len(blocks))
    BY <1>1, <1>2 DEF GrafPort
  <2>2. /\ OpenPortOK([ThePort EXCEPT !.port_bits = b])
        /\ [ThePort EXCEPT !.port_bits = b].clip_region # 0
    BY <1>1 DEF GrafPort, OpenPortOK
  <2> QED
    BY <1>3, <2>1, <2>2, SetsPortKeeps DEF SetPortBits
<1>4. ASSUME NEW p \in Point, NEW what, NEW f, SetsPort(f, what, [ThePort EXCEPT !.pen_location = p])
      PROVE  GraphicsInv'
  <2>1. [ThePort EXCEPT !.pen_location = p] \in GrafPort(Len(blocks))
    BY <1>1 DEF GrafPort
  <2>2. /\ OpenPortOK([ThePort EXCEPT !.pen_location = p])
        /\ [ThePort EXCEPT !.pen_location = p].clip_region # 0
    BY <1>1 DEF GrafPort, OpenPortOK
  <2> QED
    BY <1>4, <2>1, <2>2, SetsPortKeeps
<1>5. ASSUME NEW p \in Points, MoveTo(p)
      PROVE  GraphicsInv'
  BY <1>2, <1>4, <1>5 DEF MoveTo
<1>6. ASSUME NEW p \in Points, Move(p)
      PROVE  GraphicsInv'
  <2>1. PointPlus(ThePort.pen_location, p) \in Point
    BY <1>1, <1>2, PointsAreInt, PointPlusType
  <2>2. [ThePort EXCEPT !.pen_location = PointPlus(ThePort.pen_location, p)]
        = [ThePort EXCEPT !.pen_location = PointPlus(@, p)]
    BY <1>1 DEF GrafPort
  <2> QED
    BY <1>4, <1>6, <2>1, <2>2 DEF Move
<1>7. ASSUME NEW p \in Points, PenSize(p)
      PROVE  GraphicsInv'
  <2>1. [ThePort EXCEPT !.pen_size = p] \in GrafPort(Len(blocks))
    BY <1>1, <1>2 DEF GrafPort
  <2>2. /\ OpenPortOK([ThePort EXCEPT !.pen_size = p])
        /\ [ThePort EXCEPT !.pen_size = p].clip_region # 0
    BY <1>1 DEF GrafPort, OpenPortOK
  <2> QED
    BY <1>7, <2>1, <2>2, SetsPortKeeps DEF PenSize
<1>8. ASSUME NEW mode \in PenModes, PenMode(mode)
      PROVE  GraphicsInv'
  <2>1. [ThePort EXCEPT !.pattern_mode = mode] \in GrafPort(Len(blocks))
    BY <1>1 DEF GrafPort
  <2>2. /\ OpenPortOK([ThePort EXCEPT !.pattern_mode = mode])
        /\ [ThePort EXCEPT !.pattern_mode = mode].clip_region # 0
    BY <1>1 DEF GrafPort, OpenPortOK
  <2> QED
    BY <1>8, <2>1, <2>2, SetsPortKeeps DEF PenMode
<1>9. ASSUME NEW pattern \in Patterns, PenPat(pattern)
      PROVE  GraphicsInv'
  <2>1. [ThePort EXCEPT !.pen_pattern = pattern] \in GrafPort(Len(blocks))
    BY <1>1, <1>2 DEF GrafPort
  <2>2. /\ OpenPortOK([ThePort EXCEPT !.pen_pattern = pattern])
        /\ [ThePort EXCEPT !.pen_pattern = pattern].clip_region # 0
    BY <1>1 DEF GrafPort, OpenPortOK
  <2> QED
    BY <1>9, <2>1, <2>2, SetsPortKeeps DEF PenPat
<1>10. ASSUME PenNormal
       PROVE  GraphicsInv'
  <2> DEFINE port == [ThePort EXCEPT !.pen_size = [x |-> 1, y |-> 1], !.pen_pattern = Black,
                                     !.pattern_mode = patCopy]
  <2>1. [x |-> 1, y |-> 1] \in Point
    BY HalfAssumption DEF Point, Coordinates
  <2>2. port \in GrafPort(Len(blocks))
    BY <1>1, <2>1, PatternsAre DEF GrafPort, PenModes
  <2>3. OpenPortOK(port) /\ port.clip_region # 0
    BY <1>1 DEF GrafPort, OpenPortOK, PenModes
  <2> QED
    BY <1>10, <2>2, <2>3, SetsPortKeeps DEF PenNormal
<1>11. ASSUME GetPort
       PROVE  GraphicsInv'
  <2>1. UNCHANGED <<mem, ports, the_port, blocks, rect, pt>> /\ UNCHANGED handleVars
    BY <1>11 DEF GetPort, portVars, handleVars
  <2> QED
    BY <2>1, PortsKept, HandlesKept, AppKept, NativeKept, MemoryIs DEF GraphicsInv
<1>12. ASSUME NEW p \in Points, SetOrigin(p)
       PROVE  GraphicsInv'
  BY <1>2, <1>12, SetOriginKeeps
<1> QED
  BY <1>3, <1>5, <1>6, <1>7, <1>8, <1>9, <1>10, <1>11, <1>12, SetPortKeeps, OpenPortKeeps
     DEF PortTraps, PenModes

LEMMA DrawPictureKeeps ==
  ASSUME GraphicsInv, UNCHANGED nativeVars, NEW picture, NEW r \in Rect, DrawPicture(picture, r)
  PROVE  GraphicsInv'
<1>1. /\ mem' = mem
         \/ \E junk : mem' = CopyBits(mem, ThePortImage, ParsePICTv1(picture),
                                      RectWidth(GetPICTFrame(picture)), GetPICTFrame(picture),
                                      Global(r), junk)
      /\ UNCHANGED <<ports, the_port, blocks, rect, pt>> /\ UNCHANGED handleVars
  BY DEF DrawPicture, portVars, handleVars, appVars
<1>2. IsImage(ThePortImage) /\ Sided(Global(r))
  BY GlobalIs, RectsAreSided DEF GraphicsInv
<1>3. ASSUME NEW src, NEW width, NEW frame, NEW junk
      PROVE  CopyBits(mem, ThePortImage, src, width, frame, Global(r), junk) \in Memory
  BY <1>2, MemoryIs, CopyBitsType DEF GraphicsInv
<1>4. mem' \in Memory
  BY <1>1, <1>3 DEF GraphicsInv
<1> QED
  BY <1>1, <1>4, PortsKept, HandlesKept, AppKept, NativeKept, MemoryIs DEF GraphicsInv

LEMMA FrameRoundRectKeeps ==
  ASSUME GraphicsInv, UNCHANGED nativeVars, NEW r \in Rect, FrameRoundRect(r)
  PROVE  GraphicsInv'
<1>1. CASE ThePort.region_save = 0
  <2>1. FramedRect(r) \in Memory
    BY FrameDraws, RectsAreSided
  <2>2. InPort({"ports", "regions"}, [op |-> "FrameRect", rect |-> r], FramedRect(r), ThePort)
    BY <1>1 DEF FrameRoundRect
  <2> QED
    BY <2>1, <2>2, DrawKeeps
<1>2. CASE ThePort.region_save # 0
  <2>1. /\ UNCHANGED <<mem, ports, the_port, blocks, rect, pt>>
        /\ table' = table \/ table' = WithRegionAt(ThePort.region_save, r)
    BY <1>2 DEF FrameRoundRect, portVars, appVars
  <2>2. table' \in [0..2*MaxHandles+4 -> Int]
    <3>1. Sided(r) /\ ThePort.region_save \in Int /\ RegionSize \in Int
      BY RectsAreSided, ThePortIs DEF GraphicsInv, GrafPort, RegionSize
    <3>2. DOMAIN table = 0..2*MaxHandles+4 /\ \A i \in 0..2*MaxHandles+4 : table[i] \in Int
      BY DEF GraphicsInv, HandlesOK
    <3>3. PICK halves : halves = <<RegionSize, r.top, r.left, r.bottom, r.right>>
      OBVIOUS
    <3>4. \A j \in 0..4 : halves[j + 1] \in Int
      BY <3>1, <3>3 DEF Sided
    <3>5. WithRegionAt(ThePort.region_save, r)
          = [i \in 0..2*MaxHandles+4 |->
               IF i - HighOf(ThePort.region_save) \in 0..4
               THEN halves[i - HighOf(ThePort.region_save) + 1] ELSE table[i]]
      BY <3>2, <3>3 DEF WithRegionAt
    <3>6. WithRegionAt(ThePort.region_save, r) \in [0..2*MaxHandles+4 -> Int]
      BY <3>2, <3>4, <3>5
    <3> QED
      BY <2>1, <3>6 DEF GraphicsInv, HandlesOK
  <2>3. HandlesOK'
    BY <2>1, <2>2 DEF GraphicsInv, HandlesOK
  <2> QED
    BY <2>1, <2>3, PortsKept, AppKept, NativeKept, MemoryIs DEF GraphicsInv
<1> QED
  BY <1>1, <1>2

LEMMA LineToKeeps ==
  ASSUME GraphicsInv, UNCHANGED nativeVars, NEW what, NEW to \in Point, NEW x \in Int,
         InPort({"ports"}, what, Stroke(x), [ThePort EXCEPT !.pen_location = to])
  PROVE  GraphicsInv'
<1>1. ThePort \in GrafPort(Len(blocks)) /\ OpenPortOK(ThePort) /\ ThePort.clip_region # 0
  BY ThePortIs DEF GraphicsInv
<1>2. [ThePort EXCEPT !.pen_location = to] \in GrafPort(Len(blocks))
  BY <1>1 DEF GrafPort
<1>3. /\ OpenPortOK([ThePort EXCEPT !.pen_location = to])
      /\ [ThePort EXCEPT !.pen_location = to].clip_region # 0
  BY <1>1 DEF GrafPort, OpenPortOK
<1> QED
  BY <1>2, <1>3, StrokeDraws, InPortKeeps

LEMMA DrawingTrapsKeep ==
  ASSUME GraphicsInv, UNCHANGED nativeVars, DrawingTraps
  PROVE  GraphicsInv'
<1>1. /\ Rectangles \subseteq Rect /\ Points \subseteq Point
      /\ \A r \in Rectangles : r \in Rect /\ Sided(r)
  BY InputAssumption, RectsAreSided
<1>2. ASSUME NEW r \in Rectangles, PaintRect(r) \/ InverRoundRect(r) \/ EraseRect(r) \/ InverRect(r)
      PROVE  GraphicsInv'
  BY <1>1, <1>2, FillRectDraws, ModesAre, DrawKeeps
     DEF PaintRect, InverRoundRect, EraseRect, InverRect, Draw
<1>3. ASSUME NEW r \in Rectangles, FrameRectTrap(r)
      PROVE  GraphicsInv'
  BY <1>1, <1>3, FrameDraws, DrawKeeps DEF FrameRectTrap, Draw
<1>4. ASSUME NEW r \in Rectangles, PaintOval(r) \/ EraseOval(r)
      PROVE  GraphicsInv'
  BY <1>1, <1>4, OvalDraws, DrawKeeps DEF PaintOval, EraseOval, Draw
<1>5. ASSUME NEW r \in Rectangles, NEW pattern \in Patterns,
             FillRectTrap(r, pattern) \/ FillOval(r, pattern)
      PROVE  GraphicsInv'
  BY <1>1, <1>5, FillRectDraws, OvalDraws, ModesAre, DrawKeeps DEF FillRectTrap, FillOval, DrawWith
<1>6. ASSUME NEW p \in Points, LineTo(p) \/ Line(p)
      PROVE  GraphicsInv'
  <2>1. p \in Point /\ p \in [x : Int, y : Int] /\ p.x \in Int
    BY <1>1, PointsAreInt
  <2>2. /\ ThePort.pen_location \in [x : Int, y : Int] /\ ThePort.pen_location.x + p.x \in Int
        /\ PointPlus(ThePort.pen_location, p) \in Point
    <3>1. ThePort.pen_location \in [x : Int, y : Int]
      BY ThePortIs, PointsAreInt DEF GraphicsInv
    <3> QED
      BY <2>1, <3>1, PointPlusType
  <2> QED
    BY <1>6, <2>1, <2>2, LineToKeeps DEF LineTo, Line
<1> QED
  BY <1>1, <1>2, <1>3, <1>4, <1>5, <1>6, FrameRoundRectKeeps, DrawPictureKeeps DEF DrawingTraps

LEMMA NewRgnKeeps ==
  ASSUME GraphicsInv, UNCHANGED nativeVars, NewRgn
  PROVE  GraphicsInv'
<1>1. AllocateHandles(<<NoRegion>>) /\ UNCHANGED <<mem, ports, the_port, rect, pt>>
  BY DEF NewRgn, portVars
<1>2. PICK n \in Nat : n = Len(blocks)
  BY DEF GraphicsInv, HandlesOK
<1>3. HandlesOK' /\ Len(blocks') = n + 1
  <2>1. <<NoRegion>> \in Seq(RegionRecord) /\ Len(<<NoRegion>>) = 1
    BY RegionsAre
  <2> QED
    BY <1>1, <1>2, <2>1, Allocated DEF GraphicsInv
<1>4. \A q \in Ports : IsPort(ports[q], n) /\ ports[q] \in GrafPort(n + 1)
  BY <1>2, LargerPorts DEF GraphicsInv, PortsOK
<1>5. PortsOK'
  BY <1>1, <1>3, <1>4 DEF GraphicsInv, PortsOK, IsPort, ThePort
<1> QED
  BY <1>1, <1>3, <1>5, AppKept, NativeKept, MemoryIs DEF GraphicsInv

LEMMA OpenRgnKeeps ==
  ASSUME GraphicsInv, UNCHANGED nativeVars, OpenRgn
  PROVE  GraphicsInv'
<1>1. /\ AllocateHandles(<<NoRegion>>) /\ UNCHANGED <<mem, the_port, rect, pt>>
      /\ ports' = [ports EXCEPT ![the_port].region_save = Len(blocks) + 1]
  BY DEF OpenRgn, appVars
<1>2. PICK n \in Nat : n = Len(blocks)
  BY DEF GraphicsInv, HandlesOK
<1>3. HandlesOK' /\ Len(blocks') = n + 1
  <2>1. <<NoRegion>> \in Seq(RegionRecord) /\ Len(<<NoRegion>>) = 1
    BY RegionsAre
  <2> QED
    BY <1>1, <1>2, <2>1, Allocated DEF GraphicsInv
<1>4. \A q \in Ports : IsPort(ports[q], n) /\ ports[q] \in GrafPort(n + 1)
  BY <1>2, LargerPorts DEF GraphicsInv, PortsOK
<1>5. PICK port : port = [ThePort EXCEPT !.region_save = n + 1]
  OBVIOUS
<1>6. ports' = [ports EXCEPT ![the_port] = port]
  BY <1>1, <1>2, <1>5 DEF ThePort
<1>7. port \in GrafPort(n + 1) /\ OpenPortOK(port) /\ port.clip_region # 0
  <2>1. ThePort \in GrafPort(n + 1) /\ OpenPortOK(ThePort) /\ ThePort.clip_region # 0
    BY <1>4, ThePortIs DEF GraphicsInv, ThePort, PortsOK
  <2> QED
    BY <1>2, <1>5, <2>1 DEF GrafPort, OpenPortOK
<1>8. PortsOK'
  BY <1>1, <1>3, <1>4, <1>6, <1>7 DEF GraphicsInv, PortsOK, IsPort, ThePort
<1> QED
  BY <1>1, <1>3, <1>8, AppKept, NativeKept, MemoryIs DEF GraphicsInv

LEMMA CloseRgnKeeps ==
  ASSUME GraphicsInv, UNCHANGED nativeVars, NEW dst \in Handles, CloseRgn(dst)
  PROVE  GraphicsInv'
<1>1. /\ UNCHANGED <<mem, ports, the_port, table, rect, pt>> /\ ThePort.region_save # 0
      /\ blocks' = blocks \/ blocks' = [blocks EXCEPT ![dst] = RegionAt(ThePort.region_save)]
  BY DEF CloseRgn, CloseRgnWrites, portVars, appVars
<1>2. RegionAt(ThePort.region_save) \in RegionRecord
  <2>1. PICK h \in Nat : h = ThePort.region_save /\ 1 <= h /\ h <= MaxHandles
    BY <1>1, ThePortIs, InputAssumption DEF GraphicsInv, GrafPort, HandlesOK
  <2>2. \A i \in 0..4 : HighOf(h) + i \in 0..2*MaxHandles+4
    BY <2>1, InputAssumption DEF HighOf
  <2>3. \A i \in 0..4 : table[HighOf(h) + i] \in Int
    BY <2>2 DEF GraphicsInv, HandlesOK
  <2>4. HighOf(h) = HighOf(h) + 0
    BY <2>1 DEF HighOf
  <2>5. [top |-> table[HighOf(h) + 1], left |-> table[HighOf(h) + 2],
         bottom |-> table[HighOf(h) + 3], right |-> table[HighOf(h) + 4]] \in Box
    BY <2>3 DEF Box
  <2>6. table[HighOf(h)] \in Int
    BY <2>3, <2>4
  <2> QED
    BY <2>1, <2>5, <2>6, RegionsAre DEF RegionAt
<1>3. blocks' \in Seq(RegionRecord) /\ Len(blocks') = Len(blocks)
  <2>1. blocks \in Seq(RegionRecord) /\ dst \in 1..Len(blocks)
    BY DEF GraphicsInv, HandlesOK, Handles
  <2> QED
    BY <1>1, <1>2, <2>1
<1>4. HandlesOK'
  BY <1>1, <1>3 DEF GraphicsInv, HandlesOK
<1>5. PortsOK'
  BY <1>1, <1>3 DEF GraphicsInv, PortsOK, IsPort, ThePort
<1> QED
  BY <1>1, <1>4, <1>5, AppKept, NativeKept, MemoryIs DEF GraphicsInv

LEMMA RegionTrapsKeep ==
  ASSUME GraphicsInv, UNCHANGED nativeVars, RegionTraps
  PROVE  GraphicsInv'
<1>1. ASSUME NEW op, NEW h, NEW value, AnswersOfRegion(op, h, value)
      PROVE  GraphicsInv'
  <2>1. UNCHANGED <<mem, ports, the_port, blocks, rect, pt>> /\ UNCHANGED handleVars
    BY <1>1 DEF AnswersOfRegion, portVars, handleVars
  <2> QED
    BY <2>1, PortsKept, HandlesKept, AppKept, NativeKept, MemoryIs DEF GraphicsInv
<1>2. ASSUME NEW h \in Handles, NEW pattern, FillRgn(h, pattern)
      PROVE  GraphicsInv'
  <2>1. /\ UNCHANGED <<ports, the_port, blocks, rect, pt>> /\ UNCHANGED handleVars
        /\ mem' = mem \/ mem' = FillRect(mem, ThePortImage, Global(blocks[h].bounding_box),
                                         pattern, "Copy")
    BY <1>2 DEF FillRgn, portVars, handleVars, appVars
  <2>2. Sided(blocks[h].bounding_box)
    <3>1. blocks[h] \in RegionRecord
      BY DEF GraphicsInv, HandlesOK, Handles
    <3> QED
      BY <3>1, RectsAreSided DEF RegionRecord
  <2>3. mem' \in Memory
    BY <2>1, <2>2, FillRectDraws, ModesAre DEF GraphicsInv
  <2> QED
    BY <2>1, <2>3, PortsKept, HandlesKept, AppKept, NativeKept, MemoryIs DEF GraphicsInv
<1> QED
  BY <1>1, <1>2, NewRgnKeeps, OpenRgnKeeps, CloseRgnKeeps DEF RegionTraps, PtInRgn, RectInRgn

LEMMA ValidateRectType ==
  ASSUME NEW r \in Rect
  PROVE  ValidateRect(r) \in Rect
BY RectsAreSided DEF ValidateRect

LEMMA InsetRectType ==
  ASSUME NEW r, Sided(r), NEW dh \in Int, NEW dv \in Int
  PROVE  InsetRect(r, dh, dv) \in Rect
<1>1. r.top + dv \in Int /\ r.left + dh \in Int /\ r.bottom - dv \in Int /\ r.right - dh \in Int
  BY DEF Sided
<1>2. /\ Int16(r.top + dv) \in Coordinates /\ Int16(r.left + dh) \in Coordinates
      /\ Int16(r.bottom - dv) \in Coordinates /\ Int16(r.right - dh) \in Coordinates
  BY <1>1, Int16Is
<1>3. [top |-> Int16(r.top + dv), left |-> Int16(r.left + dh),
       bottom |-> Int16(r.bottom - dv), right |-> Int16(r.right - dh)] \in Rect
  BY <1>2 DEF Rect
<1> QED
  BY <1>3, ValidateRectType DEF InsetRect

LEMMA IntersectRectType ==
  ASSUME NEW r1 \in Rect, NEW r2 \in Rect
  PROVE  IntersectRect(r1, r2) \in Rect
<1>1. OverlapOf(r1, r2) \in Rect
  BY DEF OverlapOf, Rect, MAX, MIN
<1> QED
  BY <1>1, ValidateRectType DEF IntersectRect

LEMMA GeometryTrapsKeep ==
  ASSUME GraphicsInv, UNCHANGED nativeVars, GeometryTraps
  PROVE  GraphicsInv'
<1>1. /\ rect \in Rect /\ pt \in Point /\ pt \in [x : Int, y : Int] /\ Sided(rect)
      /\ ThePort.pen_location \in Point
      /\ Offset \in [x : Int, y : Int]
  <2>1. ThePort.port_bits.bounds.left \in Int /\ ThePort.port_bits.bounds.top \in Int
    BY ThePortIs, BitMapIs DEF GraphicsInv
  <2>2. Offset \in [x : Int, y : Int]
    BY <2>1 DEF Offset
  <2> QED
    BY <2>2, ThePortIs, PointsAreInt, RectsAreSided DEF GraphicsInv, AppOK
<1>2. /\ \A r \in Rectangles : r \in Rect
      /\ \A p \in Points : p \in Point /\ p \in [x : Int, y : Int] /\ p.x \in Int /\ p.y \in Int
  BY InputAssumption, PointsAreInt
<1>3. ASSUME NEW r \in Rectangles, SetRect(r) \/ SectRect(r) \/ EqualRectTrap(r)
      PROVE  GraphicsInv'
  BY <1>1, <1>2, <1>3, IntersectRectType, ComputesKeeps DEF SetRect, SectRect, EqualRectTrap
<1>4. ASSUME NEW p \in Points, InsetRectTrap(p) \/ OffsetRectTrap(p)
      PROVE  GraphicsInv'
  BY <1>1, <1>2, <1>4, InsetRectType, OffsetRectType, ComputesKeeps
     DEF InsetRectTrap, OffsetRectTrap
<1>5. ASSUME NEW p \in Points, SetPt(p) \/ AddPt(p) \/ EqualPt(p)
      PROVE  GraphicsInv'
  BY <1>1, <1>2, <1>5, PointPlusType, ComputesKeeps DEF SetPt, AddPt, EqualPt
<1>6. ASSUME NEW p \in Points, Pt2Rect(p)
      PROVE  GraphicsInv'
  <2>1. [top |-> MIN(pt.y, p.y), left |-> MIN(pt.x, p.x),
         bottom |-> MAX(pt.y, p.y), right |-> MAX(pt.x, p.x)] \in Rect
    BY <1>1, <1>2 DEF MIN, MAX, Rect, Point
  <2> QED
    BY <1>1, <1>6, <2>1, ComputesKeeps DEF Pt2Rect
<1>7. ASSUME PtInRect \/ GetPen \/ LocalToGlobalTrap
      PROVE  GraphicsInv'
  BY <1>1, <1>7, PointPlusType, ComputesKeeps DEF PtInRect, GetPen, LocalToGlobalTrap
<1>8. ASSUME GlobalToLocal
      PROVE  GraphicsInv'
  <2>1. pt.x - Offset.x \in Int /\ pt.y - Offset.y \in Int
    BY <1>1
  <2>2. [x |-> Int16(pt.x - Offset.x), y |-> Int16(pt.y - Offset.y)] \in Point
    BY <2>1, Int16Is DEF Point
  <2> QED
    BY <1>1, <1>8, <2>2, ComputesKeeps DEF GlobalToLocal
<1> QED
  BY <1>3, <1>4, <1>5, <1>6, <1>7, <1>8 DEF GeometryTraps
-----------------------------------------------------------------------------
(* what the Toolbox draws itself                                            *)
LEMMA ScreenFillDraws ==
  ASSUME ClipsOK, NEW m \in Memory, NEW r, Sided(r), NEW pattern, NEW mode \in Modes
  PROVE  FillRect(m, Screen, r, pattern, mode) \in Memory
         /\ FrameRect(m, Screen, r, pattern, mode) \in Memory
BY MemoryIs, ScreenIsImage, FillRectType, FrameRectType

LEMMA HiliteDraws ==
  ASSUME ClipsOK, NEW m \in Memory, NEW r, Sided(r)
  PROVE  Hilite(m, r) \in Memory
BY ScreenFillDraws, ModesAre DEF Hilite

LEMMA KeepsMostIs ==
  ASSUME GraphicsInv, KeepsMost
  PROVE  PortsOK' /\ HandlesOK' /\ AppOK'
<1>1. UNCHANGED <<ports, the_port, blocks, rect, pt>> /\ UNCHANGED handleVars
  BY DEF KeepsMost, portVars, handleVars, appVars
<1> QED
  BY <1>1, PortsKept, HandlesKept, AppKept DEF GraphicsInv

LEMMA MemoryStays ==
  ASSUME NEW m, m \in Memory, mem' = m
  PROVE  (mem \in Memory)'
BY DEF Memory, Byte, Bits

LEMMA ItemIsSided ==
  ASSUME NEW menu, menu.bounds \in Rect, NEW item \in Int
  PROVE  Sided(MenuItem(menu, item))
<1>1. Sided(menu.bounds)
  BY RectsAreSided
<1>2. MenuItemHeight \in Int
  BY ScreenAssumption
<1>3. menu.bounds.top + item * MenuItemHeight \in Int
  BY <1>1, <1>2 DEF Sided
<1>4. menu.bounds.top + item * MenuItemHeight + MenuItemHeight \in Int
  BY <1>2, <1>3
<1>5. PICK top \in Int, bottom \in Int :
        MenuItem(menu, item) = [menu.bounds EXCEPT !.top = top, !.bottom = bottom]
  BY <1>3, <1>4 DEF MenuItem
<1> QED
  BY <1>5 DEF Rect, Sided, Coordinates

LEMMA UnhoverDraws ==
  ASSUME ClipsOK, NEW m \in Memory, NEW menu, IsMenu(menu)
  PROVE  Unhover(m, menu) \in Memory
<1>1. CASE menu.hovered = <<>>
  BY <1>1 DEF Unhover
<1>2. CASE menu.hovered # <<>>
  <2>1. menu.hovered[1] \in Int
    BY <1>2 DEF IsMenu
  <2>2. Sided(MenuItem(menu, menu.hovered[1]))
    BY <2>1, ItemIsSided DEF IsMenu
  <2> QED
    BY <1>2, <2>2, HiliteDraws DEF Unhover
<1> QED
  BY <1>1, <1>2

LEMMA TempClipRectKeeps ==
  ASSUME GraphicsInv, NEW region, TempClipRect(region)
  PROVE  GraphicsInv'
<1>1. /\ saved' = Append(saved, clip) /\ clip' = SetClipRegion(Screen, region).clip
      /\ UNCHANGED <<mem, popup>> /\ KeepsMost
  BY DEF TempClipRect
<1>2. ClipsOK /\ PopupOK
  BY DEF GraphicsInv, NativeOK
<1>3. clip' = region \cap Whole
  BY <1>1, <1>2, ScreenIsImage DEF SetClipRegion, Screen, Image
<1>4. ClipsOK'
  <2>1. clip \in SUBSET Whole /\ saved \in Seq(SUBSET Whole)
    BY <1>2 DEF ClipsOK
  <2>2. saved' \in Seq(SUBSET Whole) /\ saved' # <<>>
    BY <1>1, <2>1
  <2>3. saved'[1] = IF saved = <<>> THEN clip ELSE saved[1]
    BY <1>1, <2>1
  <2>4. saved'[1] = Whole
    BY <1>2, <2>3 DEF ClipsOK
  <2>5. Whole' = Whole
    BY DEF Whole, ScreenPixels, Image
  <2> QED
    BY <1>3, <2>2, <2>4, <2>5 DEF ClipsOK
<1>5. PopupOK'
  BY <1>1, <1>2 DEF PopupOK, IsMenu
<1> QED
  BY <1>1, <1>4, <1>5, KeepsMostIs, MemoryIs DEF GraphicsInv, NativeOK

LEMMA EndTempClipRectKeeps ==
  ASSUME GraphicsInv, EndTempClipRect
  PROVE  GraphicsInv'
<1>1. /\ saved # <<>> /\ clip' = SetClipRegion(Screen, Last(saved)).clip
      /\ saved' = SubSeq(saved, 1, Len(saved) - 1)
      /\ UNCHANGED <<mem, popup>> /\ KeepsMost
  BY DEF EndTempClipRect, Restored
<1>2. ClipsOK /\ PopupOK
  BY DEF GraphicsInv, NativeOK
<1>3. clip' = Last(saved) \cap Whole
  BY <1>1, <1>2, ScreenIsImage DEF SetClipRegion, Screen, Image
<1>4. ClipsOK'
  <2>1. PICK n \in Nat : n = Len(saved) /\ n >= 1 /\ saved \in Seq(SUBSET Whole)
    BY <1>1, <1>2 DEF ClipsOK
  <2>2. Last(saved) = saved[n]
    BY <2>1 DEF Last
  <2>3. saved[1] = Whole
    BY <1>1, <1>2 DEF ClipsOK
  <2>4. saved' \in Seq(SUBSET Whole) /\ Len(saved') = n - 1
        /\ \A i \in 1..(n - 1) : saved'[i] = saved[i]
    BY <1>1, <2>1
  <2>5. Whole' = Whole
    BY DEF Whole, ScreenPixels, Image
  <2>6. CASE n = 1
    <3>1. saved' = <<>> /\ clip' = Whole
      BY <1>3, <2>2, <2>3, <2>4, <2>6
    <3> QED
      BY <2>4, <2>5, <3>1 DEF ClipsOK
  <2>7. CASE n > 1
    <3>1. saved' # <<>> /\ saved'[1] = Whole
      BY <2>3, <2>4, <2>7
    <3> QED
      BY <1>3, <2>4, <2>5, <3>1 DEF ClipsOK
  <2> QED
    BY <2>1, <2>6, <2>7
<1>5. PopupOK'
  BY <1>1, <1>2 DEF PopupOK, IsMenu
<1> QED
  BY <1>1, <1>4, <1>5, KeepsMostIs, MemoryIs DEF GraphicsInv, NativeOK

LEMMA OnScreenKeeps ==
  ASSUME GraphicsInv, NEW what, NEW drawn \in Memory, OnScreen(what, drawn)
  PROVE  GraphicsInv'
<1>1. mem' = drawn /\ UNCHANGED nativeVars /\ KeepsMost
  BY DEF OnScreen
<1> QED
  BY <1>1, KeepsMostIs, NativeKept, MemoryIs DEF GraphicsInv

LEMMA ScreenRectsKeep ==
  ASSUME GraphicsInv, NEW r \in ScreenRects, NEW pattern, NEW mode \in Modes,
         ScreenFillRect(r, pattern, mode) \/ ScreenFrameRect(r, pattern, mode)
  PROVE  GraphicsInv'
<1>1. Sided(r) /\ ClipsOK /\ mem \in Memory
  BY ScreenAssumption, RectsAreSided DEF GraphicsInv, NativeOK
<1> QED
  BY <1>1, ScreenFillDraws, OnScreenKeeps DEF ScreenFillRect, ScreenFrameRect

LEMMA MenuPopUpKeeps ==
  ASSUME GraphicsInv, NEW menu \in PopUps, MenuPopUp(menu)
  PROVE  GraphicsInv'
<1>1. menu.anchor \in Rect /\ menu.bounds \in Rect /\ Sided(menu.anchor) /\ Sided(menu.bounds)
  BY ScreenAssumption, RectsAreSided
<1>2. ClipsOK /\ mem \in Memory
  BY DEF GraphicsInv, NativeOK
<1>3. PICK hilited \in Memory : hilited = Hilite(mem, menu.anchor)
  BY <1>1, <1>2, HiliteDraws
<1>4. PICK filled \in Memory :
        filled = FillRect(hilited, Screen, menu.bounds, PopUpPattern, "Copy")
  BY <1>1, <1>2, ScreenFillDraws, ModesAre
<1>5. /\ mem' = FrameRect(filled, Screen, menu.bounds, HighLight, "Copy")
      /\ popup' = <<[anchor |-> menu.anchor, bounds |-> menu.bounds, items |-> menu.items,
                     hovered |-> <<>>, saved_bitmap |-> SavedBitmap(hilited, menu.bounds),
                     before |-> mem]>>
      /\ UNCHANGED <<clip, saved>> /\ KeepsMost
  BY <1>3, <1>4 DEF MenuPopUp
<1>6. mem' \in Memory
  BY <1>1, <1>2, <1>5, ScreenFillDraws, ModesAre
<1>7. PopupOK'
  <2>1. PICK open : open = [anchor |-> menu.anchor, bounds |-> menu.bounds, items |-> menu.items,
                            hovered |-> <<>>, saved_bitmap |-> SavedBitmap(hilited, menu.bounds),
                            before |-> mem]
    OBVIOUS
  <2>2. IsMenu(open)
    BY <1>1, <2>1 DEF IsMenu
  <2>3. popup'[1] = open
    BY <1>5, <2>1
  <2> QED
    BY <2>2, <2>3 DEF PopupOK, IsMenu
<1>8. ClipsOK'
  BY <1>2, <1>5 DEF ClipsOK
<1> QED
  BY <1>5, <1>6, <1>7, <1>8, KeepsMostIs, MemoryIs DEF GraphicsInv, NativeOK

LEMMA HoverKeeps ==
  ASSUME GraphicsInv, popup # <<>>, NEW drawn \in Memory, mem' = drawn,
         NEW hovered \in Seq(Int), popup' = <<[popup[1] EXCEPT !.hovered = hovered]>>,
         UNCHANGED <<clip, saved>>, KeepsMost
  PROVE  GraphicsInv'
<1>1. ClipsOK'
  BY DEF GraphicsInv, NativeOK, ClipsOK
<1>2. PICK menu : menu = popup[1] /\ IsMenu(menu)
  BY DEF GraphicsInv, NativeOK, PopupOK
<1>3. IsMenu([menu EXCEPT !.hovered = hovered])
  <2>1. PICK new : new = [anchor |-> menu.anchor, bounds |-> menu.bounds, items |-> menu.items,
                          hovered |-> hovered, saved_bitmap |-> menu.saved_bitmap,
                          before |-> menu.before]
    OBVIOUS
  <2>2. [menu EXCEPT !.hovered = hovered] = new
    <3>1. PICK a, b, c, d, e, g :
            /\ menu = [anchor |-> a, bounds |-> b, items |-> c, hovered |-> d,
                       saved_bitmap |-> e, before |-> g]
            /\ new = [anchor |-> a, bounds |-> b, items |-> c, hovered |-> hovered,
                      saved_bitmap |-> e, before |-> g]
      BY <1>2, <2>1 DEF IsMenu
    <3> QED
      BY <3>1
  <2>3. menu.anchor \in Rect /\ menu.bounds \in Rect
    BY <1>2 DEF IsMenu
  <2>4. IsMenu(new)
    BY <2>1, <2>3 DEF IsMenu
  <2> QED
    BY <2>2, <2>4
<1>4. popup'[1] = [menu EXCEPT !.hovered = hovered]
  BY <1>2
<1>5. PopupOK'
  BY <1>3, <1>4 DEF PopupOK, IsMenu
<1> QED
  BY <1>1, <1>5, KeepsMostIs, MemoryIs DEF GraphicsInv, NativeOK

LEMMA HoverMenuItemKeeps ==
  ASSUME GraphicsInv, popup # <<>>, NEW item \in Int, HoverMenuItem(item)
  PROVE  GraphicsInv'
<1>1. ClipsOK /\ IsMenu(popup[1]) /\ mem \in Memory
  BY DEF GraphicsInv, NativeOK, PopupOK
<1>2. Hilite(mem, MenuItem(popup[1], item)) \in Memory
  BY <1>1, ItemIsSided, HiliteDraws DEF IsMenu
<1>3. Unhover(Hilite(mem, MenuItem(popup[1], item)), popup[1]) \in Memory
  BY <1>1, <1>2, UnhoverDraws
<1>4. <<item>> \in Seq(Int)
  OBVIOUS
<1> QED
  BY <1>3, <1>4, HoverKeeps DEF HoverMenuItem

LEMMA HoverDisabledItemKeeps ==
  ASSUME GraphicsInv, HoverDisabledItem
  PROVE  GraphicsInv'
<1>1. ClipsOK /\ IsMenu(popup[1]) /\ mem \in Memory /\ popup # <<>>
  BY DEF GraphicsInv, NativeOK, PopupOK, HoverDisabledItem
<1>2. Unhover(mem, popup[1]) \in Memory
  BY <1>1, UnhoverDraws
<1>3. <<>> \in Seq(Int)
  OBVIOUS
<1> QED
  BY <1>1, <1>2, <1>3, HoverKeeps DEF HoverDisabledItem

LEMMA MenuCloseKeeps ==
  ASSUME GraphicsInv, MenuClose
  PROVE  GraphicsInv'
<1>1. ClipsOK /\ IsMenu(popup[1]) /\ mem \in Memory
  BY DEF GraphicsInv, NativeOK, PopupOK, MenuClose
<1>2. PICK m \in Memory : m = Unhover(mem, popup[1])
  BY <1>1, UnhoverDraws
<1>3. Sided(popup[1].bounds) /\ Sided(popup[1].anchor)
  BY <1>1, RectsAreSided DEF IsMenu
<1>4. PutBack(m, popup[1]) \in Memory
  BY <1>1, <1>3, MemoryIs, ScreenIsImage, CopyBitsType DEF PutBack
<1>5. Hilite(PutBack(m, popup[1]), popup[1].anchor) \in Memory
  BY <1>1, <1>3, <1>4, HiliteDraws
<1>6. /\ mem' = Hilite(PutBack(m, popup[1]), popup[1].anchor) /\ popup' = <<>>
      /\ UNCHANGED <<clip, saved>> /\ KeepsMost
  BY <1>2 DEF MenuClose
<1>7. ClipsOK' /\ PopupOK'
  BY <1>1, <1>6 DEF ClipsOK, PopupOK
<1> QED
  BY <1>5, <1>6, <1>7, KeepsMostIs, MemoryIs DEF GraphicsInv, NativeOK

LEMMA GraphicsStep == GraphicsInv /\ [Next]_vars => GraphicsInv'
<1> SUFFICES ASSUME GraphicsInv, [Next]_vars PROVE GraphicsInv'
  OBVIOUS
<1>1. CASE UNCHANGED vars
  <2>1. /\ UNCHANGED <<mem, ports, the_port, blocks, rect, pt>> /\ UNCHANGED handleVars
        /\ UNCHANGED nativeVars
    BY <1>1 DEF vars, quickDrawVars, portVars, appVars, handleVars
  <2> QED
    BY <2>1, PortsKept, HandlesKept, AppKept, NativeKept, MemoryIs DEF GraphicsInv
<1>2. CASE QuickDrawNext /\ UNCHANGED nativeVars
  BY <1>2, PortTrapsKeep, DrawingTrapsKeep, RegionTrapsKeep, GeometryTrapsKeep DEF QuickDrawNext
<1>3. CASE ScreenNext
  <2>1. ASSUME popup # <<>>, NEW item \in 0..popup[1].items-1, HoverMenuItem(item)
        PROVE  GraphicsInv'
    BY <2>1, HoverMenuItemKeeps
  <2>2. {"Copy", "XOr", "NotXOr"} = Modes
    BY DEF Modes
  <2> QED
    BY <1>3, <2>1, <2>2, TempClipRectKeeps, EndTempClipRectKeeps, ScreenRectsKeep,
       MenuPopUpKeeps, HoverDisabledItemKeeps, MenuCloseKeeps DEF ScreenNext
<1> QED
  BY <1>1, <1>2, <1>3 DEF Next

(* Every variable holds what the code's types say, the clip region never    *)
(* leaves the screen, and when the last TempClipRect is gone the whole      *)
(* screen can be drawn on again, however deep they were nested and whatever *)
(* was drawn, recorded or popped up in between.                             *)
THEOREM TheScreenStaysWellFormed == Spec => []ScreenStateOK
<1>1. Init => GraphicsInv
  BY GraphicsInit
<1>2. GraphicsInv /\ [Next]_vars => GraphicsInv'
  BY GraphicsStep
<1>3. GraphicsInv => ScreenStateOK
  <2> SUFFICES ASSUME GraphicsInv PROVE ScreenStateOK
    OBVIOUS
  <2>1. the_port \in Opened
    BY DEF GraphicsInv, PortsOK, Opened, ThePort
  <2>2. ASSUME NEW p \in Opened
        PROVE  /\ ports[p].port_bits.bounds \in Rect /\ ports[p].port_rect \in Rect
               /\ ports[p].pen_pattern \in Pattern /\ ports[p].pen_location \in Point
               /\ {ports[p].clip_region, ports[p].visible_region} \subseteq Handles
               /\ ports[p].region_save \in Handles \cup {0}
    <3>1. ports[p] \in GrafPort(Len(blocks)) /\ OpenPortOK(ports[p]) /\ ports[p].clip_region # 0
      BY DEF GraphicsInv, PortsOK, IsPort, Opened
    <3>2. Handles = 1..Len(blocks) /\ Len(blocks) \in Nat
      BY DEF Handles, GraphicsInv, HandlesOK
    <3> QED
      BY <3>1, <3>2, BitMapIs DEF GrafPort, OpenPortOK
  <2>3. DOMAIN table = 0..2*MaxHandles+4 /\ Len(blocks) <= MaxHandles
    BY DEF GraphicsInv, HandlesOK
  <2>4. rect \in Rect /\ pt \in Point
    BY DEF GraphicsInv, AppOK
  <2>5. \A c \in {clip} \cup ToSet(saved) : c \subseteq ScreenPixels(Image(ScreenBits))
    BY DEF GraphicsInv, NativeOK, ClipsOK, ToSet, Whole
  <2>6. ClipsAreUndone
    BY DEF GraphicsInv, NativeOK, ClipsOK, ClipsAreUndone, Whole
  <2> QED
    BY <2>1, <2>2, <2>3, <2>4, <2>5, <2>6 DEF ScreenStateOK, GraphicsTypeOK, GraphicsInv
<1> QED
  BY <1>1, <1>2, <1>3, PTL DEF Spec
-----------------------------------------------------------------------------
(* Coordinates                                                              *)
LEMMA SumsWrapOnce ==
  ASSUME NEW a \in Int, NEW b \in Int
  PROVE  /\ Int16(Int16(a) + b) = Int16(a + b)
         /\ Int16(Int16(a) - Int16(b)) = Int16(a - b)
<1>1. PICK j \in Int : Int16(a) = a + (2 * Half) * j
  BY Int16Is
<1>2. PICK k \in Int : Int16(b) = b + (2 * Half) * k
  BY Int16Is
<1>3. Int16(a) + b = (a + b) + (2 * Half) * j
  <2>1. (2 * Half) * j \in Int
    BY <1>1, HalfAssumption
  <2> QED
    BY <1>1, <2>1
<1>4. Int16(a) - Int16(b) = (a - b) + (2 * Half) * (j - k)
  <2>1. (2 * Half) * j \in Int /\ (2 * Half) * k \in Int
        /\ (2 * Half) * (j - k) = (2 * Half) * j - (2 * Half) * k
    BY <1>1, <1>2, HalfAssumption
  <2> QED
    BY <1>1, <1>2, <2>1
<1>5. a + b \in Int /\ a - b \in Int /\ j - k \in Int
  BY <1>1, <1>2
<1> QED
  BY <1>1, <1>3, <1>4, <1>5, Int16Absorbs

(* A side that SetOrigin moves: normalized first, then to the new origin.   *)
Moved(v, from, to) == Int16(Int16(v + -from) + to)

LEMMA MovedTogether ==
  ASSUME NEW a, NEW b, NEW from, NEW to, {a, b, from, to} \subseteq Int
  PROVE  /\ Moved(a, from, to) \in Int
         /\ Int16(Moved(a, from, to) - Moved(b, from, to)) = Int16(a - b)
         /\ Int16(Moved(a, from, to) + -Moved(b, from, to)) = Int16(a + -b)
<1>1. Moved(a, from, to) = Int16((a - from) + to) /\ Moved(b, from, to) = Int16((b - from) + to)
  <2>1. a + -from = a - from /\ b + -from = b - from /\ a - from \in Int /\ b - from \in Int
    OBVIOUS
  <2> QED
    BY <2>1, SumsWrapOnce DEF Moved
<1>2. (a - from) + to \in Int /\ (b - from) + to \in Int
  OBVIOUS
<1>3. ((a - from) + to) - ((b - from) + to) = a - b
  OBVIOUS
<1>4. Int16(Moved(a, from, to) - Moved(b, from, to)) = Int16(a - b)
  BY <1>1, <1>2, <1>3, SumsWrapOnce
<1>5. Moved(a, from, to) \in Int /\ Moved(b, from, to) \in Int
  BY <1>1, <1>2, Int16Is, CoordinatesAreInt
<1>6. /\ Moved(a, from, to) + -Moved(b, from, to) = Moved(a, from, to) - Moved(b, from, to)
      /\ a + -b = a - b
  BY <1>5
<1> QED
  BY <1>4, <1>5, <1>6

LEMMA MovedToOrigin ==
  ASSUME NEW from, NEW to, {from} \subseteq Int, to \in Coordinates
  PROVE  Moved(from, from, to) = to
<1>1. from + -from = 0
  OBVIOUS
<1>2. Int16(0) = 0
  BY Int16Is, CoordinatesAreInt
<1>3. to \in Int /\ 0 + to = to
  BY CoordinatesAreInt
<1> QED
  BY <1>1, <1>2, <1>3, Int16Is DEF Moved

LEMMA OriginsRename ==
  ASSUME NEW n, NEW port \in GrafPort(n), NEW origin \in Point
  PROVE  LET new == WithOrigin(port, origin)
         IN /\ new.port_rect.left = origin.x /\ new.port_rect.top = origin.y
            /\ LocalToGlobal(new, new.port_rect) = LocalToGlobal(port, port.port_rect)
            /\ SameSize(new.port_rect, port.port_rect)
            /\ SameSize(new.port_bits.bounds, port.port_bits.bounds)
            /\ new.port_bits.base_addr = port.port_bits.base_addr
<1>1. PICK pr \in Rect : pr = port.port_rect
  BY DEF GrafPort
<1>2. PICK pb \in Rect : pb = port.port_bits.bounds
  BY DEF GrafPort, BitMap
<1>3. PICK new : new = WithOrigin(port, origin)
  OBVIOUS
<1>5. PICK ox \in Int, oy \in Int :
        ox = origin.x /\ oy = origin.y /\ ox \in Coordinates /\ oy \in Coordinates
  BY CoordinatesAreInt DEF Point
<1>7. PICK nr : nr = [top |-> Moved(pr.top, pr.top, oy), left |-> Moved(pr.left, pr.left, ox),
                      bottom |-> Moved(pr.bottom, pr.top, oy), right |-> Moved(pr.right, pr.left, ox)]
  OBVIOUS
<1>8. PICK nb : nb = [top |-> Moved(pb.top, pr.top, oy), left |-> Moved(pb.left, pr.left, ox),
                      bottom |-> Moved(pb.bottom, pr.top, oy), right |-> Moved(pb.right, pr.left, ox)]
  OBVIOUS
<1>9. new.port_rect = nr /\ new.port_bits.bounds = nb
      /\ new.port_bits.base_addr = port.port_bits.base_addr
  <2>1. OffsetRect(NormalizeRect(pr), ox, oy) = nr
    BY <1>7 DEF OffsetRect, NormalizeRect, Moved
  <2>2. OffsetRect(OffsetRect(pb, -pr.left, -pr.top), ox, oy) = nb
    BY <1>8 DEF OffsetRect, Moved
  <2> QED
    BY <1>1, <1>2, <1>3, <1>5, <2>1, <2>2 DEF WithOrigin, GrafPort, BitMap
<1>10. /\ pr.top \in Int /\ pr.left \in Int /\ pr.bottom \in Int /\ pr.right \in Int
       /\ pb.top \in Int /\ pb.left \in Int /\ pb.bottom \in Int /\ pb.right \in Int
  BY CoordinatesAreInt DEF Rect
<1>11. nr.left = ox /\ nr.top = oy
  BY <1>5, <1>7, <1>10, MovedToOrigin
<1>12. /\ nr.top = Moved(pr.top, pr.top, oy) /\ nr.left = Moved(pr.left, pr.left, ox)
       /\ nr.bottom = Moved(pr.bottom, pr.top, oy) /\ nr.right = Moved(pr.right, pr.left, ox)
       /\ nb.top = Moved(pb.top, pr.top, oy) /\ nb.left = Moved(pb.left, pr.left, ox)
       /\ nb.bottom = Moved(pb.bottom, pr.top, oy) /\ nb.right = Moved(pb.right, pr.left, ox)
  BY <1>7, <1>8
<1>13. LocalToGlobal(new, nr) = LocalToGlobal(port, pr)
  <2>1. LocalToGlobal(new, nr) = OffsetRect(nr, -nb.left, -nb.top)
        /\ LocalToGlobal(port, pr) = OffsetRect(pr, -pb.left, -pb.top)
    BY <1>2, <1>9 DEF LocalToGlobal
  <2>2. /\ Int16(Moved(pr.top, pr.top, oy) + -Moved(pb.top, pr.top, oy)) = Int16(pr.top + -pb.top)
        /\ Int16(Moved(pr.bottom, pr.top, oy) + -Moved(pb.top, pr.top, oy)) = Int16(pr.bottom + -pb.top)
    BY <1>10, MovedTogether
  <2>3. /\ Int16(Moved(pr.left, pr.left, ox) + -Moved(pb.left, pr.left, ox)) = Int16(pr.left + -pb.left)
        /\ Int16(Moved(pr.right, pr.left, ox) + -Moved(pb.left, pr.left, ox)) = Int16(pr.right + -pb.left)
    BY <1>10, MovedTogether
  <2> QED
    BY <1>12, <2>1, <2>2, <2>3 DEF OffsetRect
<1>14. SameSize(nr, pr) /\ SameSize(nb, pb)
  <2>1. Int16(Moved(pr.bottom, pr.top, oy) - Moved(pr.top, pr.top, oy)) = Int16(pr.bottom - pr.top)
        /\ Int16(Moved(pb.bottom, pr.top, oy) - Moved(pb.top, pr.top, oy)) = Int16(pb.bottom - pb.top)
    BY <1>10, MovedTogether
  <2>2. Int16(Moved(pr.right, pr.left, ox) - Moved(pr.left, pr.left, ox)) = Int16(pr.right - pr.left)
        /\ Int16(Moved(pb.right, pr.left, ox) - Moved(pb.left, pr.left, ox)) = Int16(pb.right - pb.left)
    BY <1>10, MovedTogether
  <2> QED
    BY <1>12, <2>1, <2>2 DEF SameSize, RectHeight, RectWidth
<1> QED
  BY <1>1, <1>2, <1>3, <1>5, <1>9, <1>11, <1>13, <1>14

(* Rectangles as sets of pixels.                                            *)
LEMMA EmptyOrNot ==
  ASSUME NEW r, Sided(r), NEW x \in Int, NEW y \in Int
  PROVE  /\ InRect(ValidateRect(r), x, y) = InRect(r, x, y)
         /\ IsZeroRect(ValidateRect(r)) => ~InRect(r, x, y)
         /\ ~IsZeroRect(ValidateRect(r)) =>
              ValidateRect(r).left < ValidateRect(r).right
              /\ ValidateRect(r).top < ValidateRect(r).bottom
<1>1. CASE r.top >= r.bottom \/ r.left >= r.right
  <2>1. ValidateRect(r) = ZeroRect
    BY <1>1 DEF ValidateRect
  <2>2. ~InRect(r, x, y)
    BY <1>1 DEF InRect, Sided
  <2>3. ~InRect(ZeroRect, x, y)
    BY DEF InRect, ZeroRect
  <2> QED
    BY <2>1, <2>2, <2>3 DEF IsZeroRect, InRect
<1>2. CASE r.top < r.bottom /\ r.left < r.right
  <2>1. ValidateRect(r) = r
    BY <1>2 DEF ValidateRect, Sided
  <2>2. r # ZeroRect
    BY <1>2 DEF ZeroRect
  <2> QED
    BY <1>2, <2>1, <2>2 DEF IsZeroRect
<1> QED
  BY <1>1, <1>2 DEF Sided

LEMMA OffsetMovesPixels ==
  ASSUME NEW r \in Rect, NEW d \in Point, NEW x \in Int, NEW y \in Int,
         {r.left + d.x, r.right + d.x, r.top + d.y, r.bottom + d.y} \subseteq Coordinates
  PROVE  InRect(OffsetRect(r, d.x, d.y), x, y) = InRect(r, x - d.x, y - d.y)
<1>1. /\ r.left \in Int /\ r.right \in Int /\ r.top \in Int /\ r.bottom \in Int
      /\ d.x \in Int /\ d.y \in Int
  BY CoordinatesAreInt DEF Rect, Point
<1>2. /\ Int16(r.left + d.x) = r.left + d.x /\ Int16(r.right + d.x) = r.right + d.x
      /\ Int16(r.top + d.y) = r.top + d.y /\ Int16(r.bottom + d.y) = r.bottom + d.y
  <2>1. r.left + d.x \in Int /\ r.right + d.x \in Int /\ r.top + d.y \in Int /\ r.bottom + d.y \in Int
    BY <1>1
  <2> QED
    BY <2>1, Int16Is
<1> QED
  BY <1>1, <1>2 DEF OffsetRect, InRect

LEMMA InsetTakesTheEdge ==
  ASSUME NEW r \in Rect, NEW d \in Point, NEW x \in Int, NEW y \in Int, d.x >= 0, d.y >= 0,
         {r.left + d.x, r.right - d.x, r.top + d.y, r.bottom - d.y} \subseteq Coordinates
  PROVE  InRect(InsetRect(r, d.x, d.y), x, y) = Near(d, x, y, r)
<1>1. /\ r.left \in Int /\ r.right \in Int /\ r.top \in Int /\ r.bottom \in Int
      /\ d.x \in Int /\ d.y \in Int
  BY CoordinatesAreInt DEF Rect, Point
<1>2. /\ Int16(r.left + d.x) = r.left + d.x /\ Int16(r.right - d.x) = r.right - d.x
      /\ Int16(r.top + d.y) = r.top + d.y /\ Int16(r.bottom - d.y) = r.bottom - d.y
  <2>1. r.left + d.x \in Int /\ r.right - d.x \in Int /\ r.top + d.y \in Int /\ r.bottom - d.y \in Int
    BY <1>1
  <2> QED
    BY <2>1, Int16Is
<1>3. PICK inner : inner = [top |-> r.top + d.y, left |-> r.left + d.x,
                            bottom |-> r.bottom - d.y, right |-> r.right - d.x]
  OBVIOUS
<1>4. InsetRect(r, d.x, d.y) = ValidateRect(inner)
  BY <1>2, <1>3 DEF InsetRect
<1>5. Sided(inner)
  BY <1>1, <1>3 DEF Sided
<1>6. InRect(inner, x, y) = Near(d, x, y, r)
  <2>1. ASSUME InRect(inner, x, y)
        PROVE  Near(d, x, y, r)
    BY <1>1, <1>3, <2>1 DEF InRect, Near
  <2>2. ASSUME Near(d, x, y, r)
        PROVE  InRect(inner, x, y)
    <3>1. InRect(r, x + -d.x, y + -d.y) /\ InRect(r, x + d.x, y + d.y)
      BY <2>2 DEF Near
    <3> QED
      BY <1>1, <1>3, <3>1 DEF InRect
  <2>3. Near(d, x, y, r) \in BOOLEAN /\ InRect(inner, x, y) \in BOOLEAN
    BY DEF Near, InRect
  <2> QED
    BY <2>1, <2>2, <2>3
<1> QED
  BY <1>4, <1>5, <1>6, EmptyOrNot

LEMMA SectTakesTheCommon ==
  ASSUME NEW r \in Rect, NEW s \in Rect, NEW x \in Int, NEW y \in Int
  PROVE  LET sect == IntersectRect(r, s)
         IN /\ InRect(sect, x, y) = (InRect(r, x, y) /\ InRect(s, x, y))
            /\ IsZeroRect(sect) => ~(InRect(r, x, y) /\ InRect(s, x, y))
            /\ ~IsZeroRect(sect) => sect.left < sect.right /\ sect.top < sect.bottom
<1>1. Sided(r) /\ Sided(s)
  BY RectsAreSided
<1>2. PICK o : o = OverlapOf(r, s)
  OBVIOUS
<1>3. Sided(o)
  BY <1>1, <1>2 DEF OverlapOf, Sided, MAX, MIN
<1>4. InRect(o, x, y) = (InRect(r, x, y) /\ InRect(s, x, y))
  BY <1>1, <1>2 DEF OverlapOf, Sided, MAX, MIN, InRect
<1>5. IntersectRect(r, s) = ValidateRect(o)
  BY <1>2 DEF IntersectRect
<1>6. /\ InRect(ValidateRect(o), x, y) = InRect(o, x, y)
      /\ IsZeroRect(ValidateRect(o)) => ~InRect(o, x, y)
      /\ ~IsZeroRect(ValidateRect(o)) =>
           ValidateRect(o).left < ValidateRect(o).right
           /\ ValidateRect(o).top < ValidateRect(o).bottom
  BY <1>3, EmptyOrNot
<1> QED
  BY <1>4, <1>5, <1>6
(* which calls the actions are                                              *)
PortOps == {"SetPort", "OpenPort", "SetPortBits", "SetOrigin", "MoveTo", "Move", "PenSize",
            "PenMode", "PenPat", "PenNormal", "GetPort"}
DrawingOps == Shapes \cup {"DrawPicture", "LineTo", "FrameRoundRect"}
RegionOps == {"NewRgn", "OpenRgn", "CloseRgn", "PtInRgn", "RectInRgn", "FillRgn"}
GeometryOps == {"SetRect", "InsetRect", "OffsetRect", "SectRect", "EqualRect", "PtInRect", "SetPt",
                "AddPt", "EqualPt", "Pt2Rect", "GetPen", "LocalToGlobal", "GlobalToLocal"}
ScreenOps == {"clip", "unclip", "fill", "frame", "popup", "hover", "popdown"}

LEMMA PortOpsAre ==
  ASSUME PortTraps
  PROVE  /\ last'.op \in PortOps
         /\ last'.op = "SetOrigin" => \E p \in Points : SetOrigin(p)
BY DEF PortTraps, SetPort, OpenPort, SetPortBits, SetOrigin, MoveTo, Move, PenSize, PenMode,
       PenPat, PenNormal, GetPort, SetsPort, Call, PortOps

LEMMA DrawingOpsAre ==
  ASSUME DrawingTraps
  PROVE  last'.op \in DrawingOps
<1>1. ASSUME NEW r \in Rectangles,
             \/ PaintRect(r) \/ InverRoundRect(r) \/ FrameRectTrap(r) \/ EraseRect(r)
             \/ PaintOval(r) \/ EraseOval(r) \/ InverRect(r)
      PROVE  last'.op \in DrawingOps
  BY <1>1 DEF PaintRect, InverRoundRect, FrameRectTrap, EraseRect, PaintOval, EraseOval, InverRect,
              Draw, InPort, Call, DrawingOps, Shapes
<1>2. ASSUME NEW r \in Rectangles, NEW pattern, FillRectTrap(r, pattern) \/ FillOval(r, pattern)
      PROVE  last'.op \in DrawingOps
  BY <1>2 DEF FillRectTrap, FillOval, DrawWith, InPort, Call, DrawingOps, Shapes
<1>3. ASSUME NEW r \in Rectangles, FrameRoundRect(r)
      PROVE  last'.op \in DrawingOps
  BY <1>3 DEF FrameRoundRect, InPort, Call, DrawingOps, Shapes
<1>4. ASSUME NEW r \in Rectangles, NEW picture, DrawPicture(picture, r)
      PROVE  last'.op \in DrawingOps
  BY <1>4 DEF DrawPicture, Call, DrawingOps, Shapes
<1>5. ASSUME NEW p, LineTo(p) \/ Line(p)
      PROVE  last'.op \in DrawingOps
  BY <1>5 DEF LineTo, Line, InPort, Call, DrawingOps, Shapes
<1> QED
  BY <1>1, <1>2, <1>3, <1>4, <1>5 DEF DrawingTraps

LEMMA RegionOpsAre ==
  ASSUME RegionTraps
  PROVE  /\ last'.op \in RegionOps
         /\ last'.op = "CloseRgn" => \E h \in Handles : CloseRgn(h) /\ last'.dst = h
BY DEF RegionTraps, NewRgn, OpenRgn, CloseRgn, PtInRgn, RectInRgn, AnswersOfRegion, FillRgn, Call,
       RegionOps

LEMMA GeometryOpsAre ==
  ASSUME GeometryTraps
  PROVE  /\ last'.op \in GeometryOps
         /\ last'.op = "OffsetRect" => \E p \in Points : OffsetRectTrap(p) /\ last'.by = p
         /\ last'.op = "InsetRect" => \E p \in Points : InsetRectTrap(p) /\ last'.by = p
         /\ last'.op = "SectRect" => \E r \in Rectangles : SectRect(r) /\ last'.with = r
BY DEF GeometryTraps, SetRect, SectRect, EqualRectTrap, InsetRectTrap, OffsetRectTrap, SetPt, AddPt,
       EqualPt, Pt2Rect, PtInRect, GetPen, LocalToGlobalTrap, GlobalToLocal, Computes, Call,
       GeometryOps

LEMMA ScreenOpsAre ==
  ASSUME ScreenNext
  PROVE  /\ last'.op \in ScreenOps
         /\ last'.op \in {"fill", "frame"} =>
              \E r \in ScreenRects, pattern \in ScreenPatterns, mode \in Modes :
                ScreenFillRect(r, pattern, mode) \/ ScreenFrameRect(r, pattern, mode)
BY DEF ScreenNext, TempClipRect, EndTempClipRect, ScreenFillRect, ScreenFrameRect, OnScreen,
       MenuPopUp, HoverMenuItem, HoverDisabledItem, MenuClose, Call, ScreenOps, Modes

(* SetOrigin renames the pixels of its port and moves none.                 *)
LEMMA SetOriginStep ==
  ASSUME GraphicsInv, NEW origin \in Point, SetOrigin(origin)
  PROVE  LET port == ports'[the_port]
         IN /\ port.port_rect.left = last'.origin.x /\ port.port_rect.top = last'.origin.y
            /\ LocalToGlobal(port, port.port_rect) = LocalToGlobal(ThePort, ThePort.port_rect)
            /\ SameSize(port.port_rect, ThePort.port_rect)
            /\ SameSize(port.port_bits.bounds, ThePort.port_bits.bounds)
            /\ port.port_bits.base_addr = ThePort.port_bits.base_addr
<1>1. PICK port : port = WithOrigin(ThePort, origin)
  OBVIOUS
<1>2. ports'[the_port] = port
  BY <1>1 DEF SetOrigin, SetsPort, GraphicsInv, PortsOK
<1>3. last'.origin = origin
  BY DEF SetOrigin, SetsPort, Call
<1>4. ThePort \in GrafPort(Len(blocks))
  BY ThePortIs DEF GraphicsInv
<1> QED
  BY <1>1, <1>2, <1>3, <1>4, OriginsRename

LEMMA GeometryStep ==
  ASSUME GraphicsInv, GeometryTraps, NEW x \in Int, NEW y \in Int
  PROVE  /\ last'.op = "OffsetRect"
              /\ {rect.left + last'.by.x, rect.right + last'.by.x, rect.top + last'.by.y,
                  rect.bottom + last'.by.y} \subseteq Coordinates =>
              InRect(rect', x, y) = InRect(rect, x - last'.by.x, y - last'.by.y)
         /\ last'.op = "InsetRect" /\ last'.by.x >= 0 /\ last'.by.y >= 0
              /\ {rect.left + last'.by.x, rect.right - last'.by.x, rect.top + last'.by.y,
                  rect.bottom - last'.by.y} \subseteq Coordinates =>
              InRect(rect', x, y) = Near(last'.by, x, y, rect)
         /\ last'.op = "SectRect" =>
              /\ InRect(rect', x, y) = (InRect(rect, x, y) /\ InRect(last'.with, x, y))
              /\ answer' => ~(InRect(rect, x, y) /\ InRect(last'.with, x, y))
              /\ ~answer' => rect'.left < rect'.right /\ rect'.top < rect'.bottom
<1>1. rect \in Rect /\ Points \subseteq Point /\ Rectangles \subseteq Rect
  BY InputAssumption DEF GraphicsInv, AppOK
<1>2. ASSUME last'.op = "OffsetRect"
      PROVE  last'.by \in Point /\ rect' = OffsetRect(rect, last'.by.x, last'.by.y)
  BY <1>1, <1>2, GeometryOpsAre DEF OffsetRectTrap, Computes
<1>3. ASSUME last'.op = "InsetRect"
      PROVE  last'.by \in Point /\ rect' = InsetRect(rect, last'.by.x, last'.by.y)
  BY <1>1, <1>3, GeometryOpsAre DEF InsetRectTrap, Computes
<1>4. ASSUME last'.op = "SectRect"
      PROVE  /\ last'.with \in Rect /\ rect' = IntersectRect(rect, last'.with)
             /\ answer' = IsZeroRect(rect')
  BY <1>1, <1>4, GeometryOpsAre DEF SectRect, Computes
<1> QED
  BY <1>1, <1>2, <1>3, <1>4, OffsetMovesPixels, InsetTakesTheEdge, SectTakesTheCommon

(* Rectangles are sets of pixels for the traps that calculate with them, as *)
(* long as no side leaves 16 bits, and SetOrigin renames the pixels of its  *)
(* port without moving them, even where its coordinates wrap around.        *)
THEOREM CoordinatesNameThePixels == Spec => CoordinatesAreRight
<1>1. Spec => []GraphicsInv
  BY GraphicsInit, GraphicsStep, PTL DEF Spec
<1>2. /\ PortTraps => last'.op \in PortOps
      /\ DrawingTraps => last'.op \in DrawingOps
      /\ RegionTraps => last'.op \in RegionOps
      /\ GeometryTraps => last'.op \in GeometryOps
      /\ ScreenNext => last'.op \in ScreenOps
  BY PortOpsAre, DrawingOpsAre, RegionOpsAre, GeometryOpsAre, ScreenOpsAre
<1>3. ASSUME GraphicsInv, Next, last'.op = "SetOrigin"
      PROVE  LET port == ports'[the_port]
             IN /\ port.port_rect.left = last'.origin.x /\ port.port_rect.top = last'.origin.y
                /\ LocalToGlobal(port, port.port_rect) = LocalToGlobal(ThePort, ThePort.port_rect)
                /\ SameSize(port.port_rect, ThePort.port_rect)
                /\ SameSize(port.port_bits.bounds, ThePort.port_bits.bounds)
                /\ port.port_bits.base_addr = ThePort.port_bits.base_addr
  <2>1. PortTraps
    BY <1>2, <1>3 DEF Next, QuickDrawNext, DrawingOps, Shapes, RegionOps, GeometryOps, ScreenOps
  <2>2. PICK p \in Points : SetOrigin(p)
    BY <1>3, <2>1, PortOpsAre
  <2>3. p \in Point
    BY InputAssumption
  <2> QED
    BY <1>3, <2>2, <2>3, SetOriginStep
<1>4. ASSUME GraphicsInv, Next
      PROVE  last'.op \in {"OffsetRect", "InsetRect", "SectRect"} => \A x, y \in Coordinates :
             /\ last'.op = "OffsetRect"
                  /\ {rect.left + last'.by.x, rect.right + last'.by.x, rect.top + last'.by.y,
                      rect.bottom + last'.by.y} \subseteq Coordinates =>
                  InRect(rect', x, y) = InRect(rect, x - last'.by.x, y - last'.by.y)
             /\ last'.op = "InsetRect" /\ last'.by.x >= 0 /\ last'.by.y >= 0
                  /\ {rect.left + last'.by.x, rect.right - last'.by.x, rect.top + last'.by.y,
                      rect.bottom - last'.by.y} \subseteq Coordinates =>
                  InRect(rect', x, y) = Near(last'.by, x, y, rect)
             /\ last'.op = "SectRect" =>
                  /\ InRect(rect', x, y) = (InRect(rect, x, y) /\ InRect(last'.with, x, y))
                  /\ answer' => ~(InRect(rect, x, y) /\ InRect(last'.with, x, y))
                  /\ ~answer' => rect'.left < rect'.right /\ rect'.top < rect'.bottom
  <2> HAVE last'.op \in {"OffsetRect", "InsetRect", "SectRect"}
  <2> TAKE x, y \in Coordinates
  <2>1. GeometryTraps
    BY <1>2, <1>4 DEF Next, QuickDrawNext, PortOps, DrawingOps, Shapes, RegionOps, ScreenOps
  <2>2. x \in Int /\ y \in Int
    BY CoordinatesAreInt
  <2> QED
    BY <1>4, <2>1, <2>2, GeometryStep
<1>5. Spec => SetOriginMovesNothing
  BY <1>1, <1>3, PTL DEF Spec, SetOriginMovesNothing
<1>6. Spec => RectsArePixelSets
  BY <1>1, <1>4, PTL DEF Spec, RectsArePixelSets
<1> QED
  BY <1>5, <1>6 DEF CoordinatesAreRight
-----------------------------------------------------------------------------
(* The open region                                                          *)
Recorded ==
  framed # <<>> /\ ~halted =>
    /\ framed[1] \in Rect /\ ThePort.region_save # 0
    /\ RegionAt(ThePort.region_save) = Region(RegionSize, framed[1])

LEMMA StillRecorded ==
  ASSUME Recorded, UNCHANGED <<table, framed>>, ThePort'.region_save = ThePort.region_save,
         ~halted' => ~halted
  PROVE  Recorded'
<1>1. RegionAt(ThePort.region_save)' = RegionAt(ThePort.region_save)
  <2>1. PICK h : h = ThePort.region_save
    OBVIOUS
  <2>2. RegionAt(ThePort.region_save)' = Region(table'[HighOf(h)],
           [top |-> table'[HighOf(h) + 1], left |-> table'[HighOf(h) + 2],
            bottom |-> table'[HighOf(h) + 3], right |-> table'[HighOf(h) + 4]])
    BY <2>1 DEF RegionAt, HighOf, Region
  <2> QED
    BY <2>1, <2>2 DEF RegionAt
<1> QED
  BY <1>1 DEF Recorded, Region

LEMMA NothingRecorded == framed' = <<>> => Recorded'
BY DEF Recorded

(* the table of handles reaches to the end of the region that is recorded   *)
LEMMA Records ==
  ASSUME HandlesOK, NEW h \in 1..MaxHandles, NEW r \in Rect
  PROVE  LET t == WithRegionAt(h, r)
         IN Region(t[HighOf(h)], [top |-> t[HighOf(h) + 1], left |-> t[HighOf(h) + 2],
                                  bottom |-> t[HighOf(h) + 3], right |-> t[HighOf(h) + 4]])
            = Region(RegionSize, r)
<1>1. PICK halves : halves = <<RegionSize, r.top, r.left, r.bottom, r.right>>
  OBVIOUS
<1>2. PICK high \in Nat : high = HighOf(h) /\ \A i \in 0..4 : high + i \in 0..2*MaxHandles+4
  BY InputAssumption DEF HighOf
<1>3. PICK t : t = WithRegionAt(h, r)
  OBVIOUS
<1>4. t = [i \in 0..2*MaxHandles+4 |->
             IF i - high \in 0..4 THEN halves[i - high + 1] ELSE table[i]]
  BY <1>1, <1>2, <1>3 DEF WithRegionAt, HandlesOK
<1>5. \A i \in 0..4 : t[high + i] = halves[i + 1]
  <2>1. ASSUME NEW i \in 0..4
        PROVE  t[high + i] = halves[i + 1]
    <3>1. high + i \in 0..2*MaxHandles+4 /\ (high + i) - high = i
      BY <1>2
    <3> QED
      BY <1>4, <3>1
  <2> QED
    BY <2>1
<1>6. /\ t[high] = RegionSize /\ t[high + 1] = r.top /\ t[high + 2] = r.left
      /\ t[high + 3] = r.bottom /\ t[high + 4] = r.right
  <2>1. t[high + 0] = halves[1] /\ t[high + 1] = halves[2] /\ t[high + 2] = halves[3]
        /\ t[high + 3] = halves[4] /\ t[high + 4] = halves[5]
    BY <1>5
  <2>2. high + 0 = high
    OBVIOUS
  <2> QED
    BY <1>1, <2>1, <2>2
<1>7. r = [top |-> r.top, left |-> r.left, bottom |-> r.bottom, right |-> r.right]
  BY DEF Rect
<1> QED
  BY <1>2, <1>3, <1>6, <1>7

LEMMA PortSetStillRecords ==
  ASSUME GraphicsInv, Recorded, UNCHANGED <<table, framed, the_port>>, ~halted' => ~halted,
         NEW port, port.region_save = ThePort.region_save,
         UNCHANGED ports \/ ports' = [ports EXCEPT ![the_port] = port]
  PROVE  Recorded'
<1>1. ThePort'.region_save = ThePort.region_save
  BY DEF ThePort, GraphicsInv, PortsOK
<1> QED
  BY <1>1, StillRecorded

LEMMA PortTrapsRecord ==
  ASSUME GraphicsInv, Recorded, PortTraps
  PROVE  Recorded'
<1>1. ASSUME NEW p, SetPort(p) \/ OpenPort(p)
      PROVE  Recorded'
  BY <1>1, NothingRecorded DEF SetPort, OpenPort, Call
<1>2. ASSUME NEW f, NEW what, NEW port, SetsPort(f, what, port),
             what.op \notin {"FrameRoundRect", "OpenRgn", "NewRgn", "OpenPort", "SetPort"},
             port.region_save = ThePort.region_save
      PROVE  Recorded'
  <2>1. /\ UNCHANGED <<table, framed, the_port, halted>>
        /\ ports' = [ports EXCEPT ![the_port] = port]
    BY <1>2 DEF SetsPort, Call, handleVars
  <2> QED
    BY <1>2, <2>1, PortSetStillRecords
<1>3. ThePort \in GrafPort(Len(blocks))
  BY ThePortIs DEF GraphicsInv
<1>4. ASSUME NEW b, SetPortBits(b)
      PROVE  Recorded'
  BY <1>2, <1>3, <1>4 DEF SetPortBits, GrafPort
<1>5. ASSUME NEW p, SetOrigin(p)
      PROVE  Recorded'
  <2>1. WithOrigin(ThePort, p).region_save = ThePort.region_save
    BY <1>3 DEF WithOrigin, GrafPort
  <2> QED
    BY <1>2, <1>5, <2>1 DEF SetOrigin
<1>6. ASSUME NEW p, MoveTo(p) \/ Move(p) \/ PenSize(p) \/ PenMode(p) \/ PenPat(p) \/ PenNormal
      PROVE  Recorded'
  <2>1. \A v : /\ [ThePort EXCEPT !.pen_location = v].region_save = ThePort.region_save
               /\ [ThePort EXCEPT !.pen_size = v].region_save = ThePort.region_save
               /\ [ThePort EXCEPT !.pattern_mode = v].region_save = ThePort.region_save
               /\ [ThePort EXCEPT !.pen_pattern = v].region_save = ThePort.region_save
    BY <1>3 DEF GrafPort
  <2>2. CASE MoveTo(p)
    BY <1>2, <2>1, <2>2 DEF MoveTo
  <2>3. CASE Move(p)
    <3>1. PICK v : v = PointPlus(ThePort.pen_location, p)
      OBVIOUS
    <3>2. SetsPort({"ports"}, [op |-> "Move"], [ThePort EXCEPT !.pen_location = v])
      BY <2>3, <3>1 DEF Move
    <3> QED
      BY <1>2, <2>1, <3>2
  <2>4. CASE PenSize(p)
    BY <1>2, <2>1, <2>4 DEF PenSize
  <2>5. CASE PenMode(p)
    BY <1>2, <2>1, <2>5 DEF PenMode
  <2>6. CASE PenPat(p)
    BY <1>2, <2>1, <2>6 DEF PenPat
  <2>7. CASE PenNormal
    <3>1. PICK port : port = [ThePort EXCEPT !.pen_size = [x |-> 1, y |-> 1], !.pen_pattern = Black,
                                             !.pattern_mode = patCopy]
      OBVIOUS
    <3>2. port.region_save = ThePort.region_save
      BY <1>3, <3>1 DEF GrafPort
    <3>3. SetsPort({"ports"}, [op |-> "PenNormal"], port)
      BY <2>7, <3>1 DEF PenNormal
    <3> QED
      BY <1>2, <3>2, <3>3
  <2> QED
    BY <1>6, <2>2, <2>3, <2>4, <2>5, <2>6, <2>7
<1>7. ASSUME GetPort
      PROVE  Recorded'
  <2>1. UNCHANGED <<table, framed, the_port, halted, ports>>
    BY <1>7 DEF GetPort, Call, handleVars, portVars
  <2> QED
    BY <2>1, PortSetStillRecords
<1> QED
  BY <1>1, <1>4, <1>5, <1>6, <1>7 DEF PortTraps

LEMMA DrawsStillRecorded ==
  ASSUME GraphicsInv, Recorded, NEW f, NEW what, NEW drawn, NEW port, InPort(f, what, drawn, port),
         what.op \notin {"FrameRoundRect", "OpenRgn", "NewRgn", "OpenPort", "SetPort"},
         port.region_save = ThePort.region_save
  PROVE  Recorded'
<1>1. /\ UNCHANGED <<table, framed, the_port>> /\ ~halted
      /\ UNCHANGED ports \/ ports' = [ports EXCEPT ![the_port] = port]
  BY DEF InPort, Call, handleVars
<1> QED
  BY <1>1, PortSetStillRecords

LEMMA FrameRoundRectRecords ==
  ASSUME GraphicsInv, Recorded, NEW r \in Rect, FrameRoundRect(r)
  PROVE  Recorded'
<1>1. CASE ThePort.region_save = 0
  BY <1>1, DrawsStillRecorded DEF FrameRoundRect
<1>2. CASE ThePort.region_save # 0
  <2>1. /\ framed' = <<r>> /\ UNCHANGED <<ports, the_port>>
        /\ ~halted' => table' = WithRegionAt(ThePort.region_save, r)
    BY <1>2 DEF FrameRoundRect, Call, portVars
  <2>2. PICK h \in 1..MaxHandles : h = ThePort.region_save
    BY <1>2, ThePortIs, InputAssumption DEF GraphicsInv, GrafPort, HandlesOK
  <2>3. ~halted' => Region(table'[HighOf(h)],
                           [top |-> table'[HighOf(h) + 1], left |-> table'[HighOf(h) + 2],
                            bottom |-> table'[HighOf(h) + 3], right |-> table'[HighOf(h) + 4]])
                    = Region(RegionSize, r)
    BY <2>1, <2>2, Records DEF GraphicsInv
  <2>4. ThePort'.region_save = h
    BY <2>1, <2>2 DEF ThePort
  <2>5. ~halted' => RegionAt(ThePort.region_save)' = Region(RegionSize, r)
    BY <2>3, <2>4 DEF RegionAt, HighOf, Region
  <2> QED
    BY <1>2, <2>1, <2>2, <2>4, <2>5 DEF Recorded, Region
<1> QED
  BY <1>1, <1>2

LEMMA DrawingTrapsRecord ==
  ASSUME GraphicsInv, Recorded, DrawingTraps
  PROVE  Recorded'
<1>1. ASSUME NEW r \in Rectangles,
             \/ PaintRect(r) \/ InverRoundRect(r) \/ FrameRectTrap(r) \/ EraseRect(r)
             \/ PaintOval(r) \/ EraseOval(r) \/ InverRect(r)
      PROVE  Recorded'
  BY <1>1, DrawsStillRecorded
     DEF PaintRect, InverRoundRect, FrameRectTrap, EraseRect, PaintOval, EraseOval, InverRect, Draw
<1>2. ASSUME NEW r \in Rectangles, NEW pattern, FillRectTrap(r, pattern) \/ FillOval(r, pattern)
      PROVE  Recorded'
  BY <1>2, DrawsStillRecorded DEF FillRectTrap, FillOval, DrawWith
<1>3. ASSUME NEW r \in Rectangles, NEW picture, DrawPicture(picture, r)
      PROVE  Recorded'
  <2>1. UNCHANGED <<table, framed, the_port, ports>> /\ ~halted
    BY <1>3 DEF DrawPicture, Call, handleVars, portVars
  <2> QED
    BY <2>1, PortSetStillRecords
<1>4. ASSUME NEW p, LineTo(p) \/ Line(p)
      PROVE  Recorded'
  <2>1. ThePort \in GrafPort(Len(blocks))
    BY ThePortIs DEF GraphicsInv
  <2>2. \A to : [ThePort EXCEPT !.pen_location = to].region_save = ThePort.region_save
    BY <2>1 DEF GrafPort
  <2>3. CASE LineTo(p)
    BY <2>2, <2>3, DrawsStillRecorded DEF LineTo
  <2>4. CASE Line(p)
    <3>1. PICK to : to = PointPlus(ThePort.pen_location, p)
      OBVIOUS
    <3>2. InPort({"ports"}, [op |-> "LineTo", to |-> to], Stroke(ThePort.pen_location.x + p.x),
                 [ThePort EXCEPT !.pen_location = to])
      BY <2>4, <3>1 DEF Line
    <3> QED
      BY <2>2, <3>2, DrawsStillRecorded
  <2> QED
    BY <1>4, <2>3, <2>4
<1>5. \A r \in Rectangles : r \in Rect
  BY InputAssumption
<1> QED
  BY <1>1, <1>2, <1>3, <1>4, <1>5, FrameRoundRectRecords DEF DrawingTraps

LEMMA OtherTrapsRecord ==
  ASSUME GraphicsInv, Recorded, RegionTraps \/ GeometryTraps \/ ScreenNext
  PROVE  Recorded'
<1>1. CASE NewRgn \/ OpenRgn
  BY <1>1, NothingRecorded DEF NewRgn, OpenRgn, Call
<1>2. ASSUME UNCHANGED <<table, framed, the_port, ports>>, ~halted' => ~halted
      PROVE  Recorded'
  BY <1>2, PortSetStillRecords
<1>3. ASSUME NEW h, CloseRgn(h)
      PROVE  Recorded'
  BY <1>2, <1>3 DEF CloseRgn, Call, portVars
<1>4. ASSUME NEW op, NEW h, NEW value, AnswersOfRegion(op, h, value),
             op \in {"PtInRgn", "RectInRgn"}
      PROVE  Recorded'
  BY <1>2, <1>4 DEF AnswersOfRegion, Call, portVars, handleVars
<1>5. ASSUME NEW h, NEW pattern, FillRgn(h, pattern)
      PROVE  Recorded'
  BY <1>2, <1>5 DEF FillRgn, Call, portVars, handleVars
<1>6. CASE GeometryTraps
  <2>1. ASSUME NEW what, NEW r, NEW p, NEW a, Computes(what, r, p, a), what.op \in GeometryOps
        PROVE  Recorded'
    BY <1>2, <2>1 DEF Computes, Call, portVars, handleVars, GeometryOps
  <2> QED
    BY <1>6, <2>1 DEF GeometryTraps, SetRect, SectRect, EqualRectTrap, InsetRectTrap, OffsetRectTrap,
       SetPt, AddPt, EqualPt, Pt2Rect, PtInRect, GetPen, LocalToGlobalTrap, GlobalToLocal, GeometryOps
<1>7. CASE ScreenNext
  <2>1. UNCHANGED <<table, framed, the_port, ports, halted>>
    BY <1>7 DEF ScreenNext, TempClipRect, EndTempClipRect, ScreenFillRect, ScreenFrameRect, OnScreen,
       MenuPopUp, HoverMenuItem, HoverDisabledItem, MenuClose, Call, KeepsMost, portVars, handleVars
  <2> QED
    BY <1>2, <2>1
<1> QED
  BY <1>1, <1>3, <1>4, <1>5, <1>6, <1>7 DEF RegionTraps, PtInRgn, RectInRgn

(* CloseRgn gives its handle the rectangle that was framed last, however    *)
(* the handles, the ports and the open region were used before, unless a    *)
(* handle was allocated or the port changed in between.                     *)
THEOREM TheFramedRectangleIsKept == Spec => TheRegionIsRecorded
<1>1. Init => GraphicsInv /\ Recorded
  BY GraphicsInit DEF Init, QuickDrawInit, Recorded
<1>2. GraphicsInv /\ Recorded /\ [Next]_vars => (GraphicsInv /\ Recorded)'
  <2> SUFFICES ASSUME GraphicsInv, Recorded, [Next]_vars PROVE Recorded'
    BY GraphicsStep
  <2>1. CASE UNCHANGED vars
    <3>1. UNCHANGED <<table, framed, the_port, ports, halted>>
      BY <2>1 DEF vars, quickDrawVars, portVars, handleVars
    <3> QED
      BY <3>1, PortSetStillRecords
  <2> QED
    BY <2>1, PortTrapsRecord, DrawingTrapsRecord, OtherTrapsRecord DEF Next, QuickDrawNext
<1>3. ASSUME GraphicsInv, Recorded, Next
      PROVE  last'.op = "CloseRgn" /\ ~halted' /\ framed # <<>> =>
               blocks'[last'.dst] = Region(RegionSize, framed[1])
  <2> HAVE last'.op = "CloseRgn" /\ ~halted' /\ framed # <<>>
  <2>1. RegionTraps
    BY <1>3, PortOpsAre, DrawingOpsAre, GeometryOpsAre, ScreenOpsAre
       DEF Next, QuickDrawNext, PortOps, DrawingOps, Shapes, GeometryOps, ScreenOps
  <2>2. PICK h \in Handles : CloseRgn(h) /\ last'.dst = h
    BY <2>1, RegionOpsAre
  <2>3. blocks' = [blocks EXCEPT ![h] = RegionAt(ThePort.region_save)] /\ ~halted
    BY <2>2 DEF CloseRgn, CloseRgnWrites, Call
  <2> QED
    BY <1>3, <2>2, <2>3 DEF Recorded, Handles
<1> QED
  BY <1>1, <1>2, <1>3, PTL DEF Spec, TheRegionIsRecorded
-----------------------------------------------------------------------------
(* Pixels                                                                   *)
LEMMA RowMaskIs ==
  ASSUME NEW k \in Nat, NEW inset \in 0..(CHAR_BIT - 1), NEW length \in Nat, 0 < length,
         NEW b \in Bits
  PROVE  b \in RowMask(k, inset, length)
           <=> inset <= CHAR_BIT * k + b /\ CHAR_BIT * k + b < inset + length
<1>1. CHAR_BIT \in Nat \ {0} /\ b \in Int /\ 0 <= b /\ b < CHAR_BIT /\ inset \in Nat
  BY BitmapAssumption DEF Bits
<1>2. PICK ck \in Int : ck = CHAR_BIT * k
  BY <1>1
<1>3. k >= 1 => ck >= CHAR_BIT
  <2>1. k >= 1 => CHAR_BIT * 1 <= CHAR_BIT * k
    BY <1>1, Monotone
  <2> QED
    BY <1>1, <1>2, <2>1
<1>4. k = 0 => ck = 0
  BY <1>1, <1>2
<1>5. CASE inset # 0 /\ inset + length <= CHAR_BIT
  <2>1. RowMask(k, inset, length) = IF k = 0 THEN Mask(inset) \ Mask(inset + length) ELSE {}
    BY <1>1, <1>5 DEF RowMask
  <2> QED
    BY <1>1, <1>2, <1>3, <1>4, <1>5, <2>1 DEF Mask
<1>6. CASE inset # 0 /\ inset + length > CHAR_BIT /\ k = 0
  <2>1. RowMask(k, inset, length) = Mask(inset)
    BY <1>1, <1>6 DEF RowMask
  <2> QED
    BY <1>1, <1>2, <1>4, <1>6, <2>1 DEF Mask
<1>7. CASE inset = 0 \/ (inset + length > CHAR_BIT /\ k # 0)
  <2>1. PICK rest \in Nat :
          rest = IF inset = 0 THEN length ELSE length - (CHAR_BIT - inset)
    <3>1. inset # 0 => length - (CHAR_BIT - inset) \in Nat
      BY <1>1, <1>7
    <3> QED
      BY <3>1
  <2>2. PICK aligned \in Nat : aligned = IF inset = 0 THEN k ELSE k - 1
    BY <1>7
  <2>3. PICK q \in Int, t \in 0..(CHAR_BIT - 1) :
          q = rest \div CHAR_BIT /\ t = rest % CHAR_BIT /\ rest = CHAR_BIT * q + t
    <3>1. /\ rest \div CHAR_BIT \in Int /\ rest % CHAR_BIT \in 0..(CHAR_BIT - 1)
          /\ rest = CHAR_BIT * (rest \div CHAR_BIT) + (rest % CHAR_BIT)
      BY <1>1, Division
    <3> QED
      BY <3>1
  <2>4. RowMask(k, inset, length) = IF aligned < q THEN Bits
                                    ELSE IF aligned = q THEN Bits \ Mask(t) ELSE {}
    BY <1>1, <1>7, <2>1, <2>2, <2>3 DEF RowMask
  <2>5. PICK ca \in Int, cq \in Int : ca = CHAR_BIT * aligned /\ cq = CHAR_BIT * q
    BY <1>1
  <2>6. b \in RowMask(k, inset, length) <=> ca + b < rest
    <3>1. aligned < q => ca + CHAR_BIT <= cq
      <4>1. aligned + 1 <= q => CHAR_BIT * (aligned + 1) <= CHAR_BIT * q
        BY <1>1, Monotone
      <4> QED
        BY <1>1, <2>5, <4>1
    <3>2. q < aligned => cq + CHAR_BIT <= ca
      <4>1. q + 1 <= aligned => CHAR_BIT * (q + 1) <= CHAR_BIT * aligned
        BY <1>1, Monotone
      <4> QED
        BY <1>1, <2>5, <4>1
    <3>3. aligned = q => ca = cq
      BY <2>5
    <3> QED
      BY <1>1, <2>3, <2>4, <2>5, <3>1, <3>2, <3>3 DEF Mask
  <2>7. CASE inset = 0
    <3>1. ca = ck
      BY <1>2, <2>2, <2>5, <2>7
    <3>2. ck >= 0
      BY <1>1, <1>3, <1>4
    <3> QED
      BY <1>1, <1>2, <2>1, <2>6, <2>7, <3>1, <3>2
  <2>8. CASE inset # 0
    <3>1. ck = ca + CHAR_BIT
      <4>1. CHAR_BIT * k = CHAR_BIT * aligned + CHAR_BIT
        <5>1. k = aligned + 1
          BY <2>2, <2>8
        <5> QED
          BY <1>1, <5>1
      <4> QED
        BY <1>2, <2>5, <4>1
    <3>2. ck >= CHAR_BIT
      BY <1>3, <1>7, <2>8
    <3> QED
      BY <1>1, <1>2, <2>1, <2>6, <2>8, <3>1, <3>2
  <2> QED
    BY <2>7, <2>8
<1> QED
  BY <1>1, <1>5, <1>6, <1>7

LEMMA BytesOf ==
  ASSUME NEW width \in Int
  PROVE  /\ width <= CHAR_BIT * PixelWidthToBytes(width)
         /\ CHAR_BIT * PixelWidthToBytes(width) < width + CHAR_BIT
         /\ 0 < width => PixelWidthToBytes(width) \in Nat \ {0}
<1>1. CHAR_BIT \in Nat \ {0}
  BY BitmapAssumption
<1>2. PICK q \in Int, t \in 0..(CHAR_BIT - 1) :
        q = PixelWidthToBytes(width) /\ width + CHAR_BIT - 1 = CHAR_BIT * q + t
  <2>1. width + CHAR_BIT - 1 \in Int
    BY <1>1
  <2> QED
    BY <1>1, <2>1, Division DEF PixelWidthToBytes
<1>3. q <= 0 => CHAR_BIT * q <= 0
  <2>1. q <= 0 => CHAR_BIT * q <= CHAR_BIT * 0
    BY <1>1, Monotone
  <2> QED
    BY <1>1, <2>1
<1>4. CHAR_BIT * q \in Int
  BY <1>1
<1> QED
  BY <1>1, <1>2, <1>3, <1>4

(* where a bit lies from the beginning of a row                             *)
FromRow(img, row, i, b) ==
  CHAR_BIT * (i - img.base - PixelWidthToBytes(img.width) * row) + b

LEMMA PlaceInRow ==
  ASSUME NEW img, IsImage(img), 0 < img.width, NEW row \in Nat, NEW i \in Int, NEW b \in Bits
  PROVE  /\ FromRow(img, row, i, b) \in Int
         /\ i >= img.base /\ RowOf(img, i) = row =>
              ColumnOf(img, i, b) = FromRow(img, row, i, b)
         /\ 0 <= FromRow(img, row, i, b) /\ FromRow(img, row, i, b) < img.width =>
              i >= img.base /\ RowOf(img, i) = row
<1>1. PICK w \in Nat \ {0} :
        w = PixelWidthToBytes(img.width) /\ img.width <= CHAR_BIT * w /\ CHAR_BIT \in Nat \ {0}
  BY BytesOf, BitmapAssumption DEF IsImage
<1>2. b \in Int /\ 0 <= b /\ b < CHAR_BIT /\ img.base \in Int /\ img.width \in Int
  BY <1>1 DEF Bits, IsImage
<1>3. PICK d \in Int : d = i - img.base
  BY <1>2
<1>4. PICK u \in Int : u = d - w * row /\ w * row \in Nat
  BY <1>1
<1>5. PICK cu \in Int : cu = CHAR_BIT * u /\ FromRow(img, row, i, b) = cu + b
  BY <1>1, <1>2, <1>3, <1>4 DEF FromRow
<1>6. PICK q \in Int, t \in 0..(w - 1) : q = RowOf(img, i) /\ t = d % w /\ d = w * q + t
  <2>1. d \div w \in Int /\ d % w \in 0..(w - 1) /\ d = w * (d \div w) + (d % w)
    BY Division
  <2>2. RowOf(img, i) = d \div w
    BY <1>1, <1>3 DEF RowOf
  <2> QED
    BY <2>1, <2>2
<1>7. ASSUME RowOf(img, i) = row
      PROVE  ColumnOf(img, i, b) = cu + b
  <2>1. u = t
    BY <1>4, <1>6, <1>7
  <2>2. ColumnOf(img, i, b) = t * CHAR_BIT + b
    BY <1>1, <1>3, <1>6 DEF ColumnOf
  <2>3. t * CHAR_BIT = CHAR_BIT * t
    BY <1>1
  <2> QED
    BY <1>5, <2>1, <2>2, <2>3
<1>8. ASSUME 0 <= cu + b, cu + b < img.width
      PROVE  d >= 0 /\ RowOf(img, i) = row
  <2>1. 0 <= u
    <3>1. u <= -1 => CHAR_BIT * u <= CHAR_BIT * (-1)
      BY <1>1, Monotone
    <3>2. CHAR_BIT * (-1) = -CHAR_BIT
      BY <1>1
    <3> QED
      BY <1>1, <1>2, <1>5, <1>8, <3>1, <3>2
  <2>2. u <= w - 1
    <3>1. w <= u => CHAR_BIT * w <= CHAR_BIT * u
      BY <1>1, Monotone
    <3>2. CHAR_BIT * w \in Int
      BY <1>1
    <3> QED
      BY <1>1, <1>2, <1>5, <1>8, <3>1, <3>2
  <2>3. d = w * row + u /\ u \in 0..(w - 1)
    BY <1>1, <1>4, <2>1, <2>2
  <2>4. d \div w = row
    BY <1>1, <2>3, QuotientIs
  <2> QED
    BY <1>1, <1>3, <1>4, <2>1, <2>4 DEF RowOf
<1> QED
  BY <1>2, <1>3, <1>5, <1>7, <1>8
(* What a pixel shows after it was drawn on, in a byte that was `byte'.     *)
Becomes(mode, byte, b, pixel, ink) ==
  \/ mode = "Copy" /\ pixel \in ink
  \/ mode = "XOr" /\ ~(b \in byte <=> pixel \in ink)
  \/ mode = "NotXOr" /\ (b \in byte <=> pixel \in ink)
Pixel(img, i, b) == <<ColumnOf(img, i, b), RowOf(img, i)>>
(* the drawing m2 of m has drawn on the pixels P and on no others           *)
Paints(D, m, m2, img, P, ink, mode) ==
  /\ m2 \in [D -> Byte]
  /\ \A i \in D, b \in Bits :
       b \in m2[i] <=> IF i >= img.base /\ Pixel(img, i, b) \in P
                       THEN Becomes(mode, m[i], b, Pixel(img, i, b), ink) ELSE b \in m[i]

LEMMA InkIs ==
  ASSUME NEW byte \in Byte, NEW mask, NEW pattern, NEW mode \in Modes, NEW b \in Bits,
         NEW pixel, NEW ink, b \in pattern <=> pixel \in ink
  PROVE  b \in Ink(byte, mask, pattern, mode)
           <=> IF b \in mask THEN Becomes(mode, byte, b, pixel, ink) ELSE b \in byte
BY DEF Ink, Becomes, Modes, SymDiff

LEMMA PaintsNothing ==
  ASSUME NEW D, NEW m \in [D -> Byte], NEW img, NEW ink, NEW mode
  PROVE  Paints(D, m, m, img, {}, ink, mode)
BY DEF Paints

(* drawing on some pixels and then on others is drawing on all of them      *)
LEMMA PaintsBoth ==
  ASSUME NEW D, NEW m1, NEW m2, NEW m3, NEW img, NEW P, NEW Q, NEW ink, NEW mode, P \cap Q = {},
         Paints(D, m1, m2, img, P, ink, mode), Paints(D, m2, m3, img, Q, ink, mode)
  PROVE  Paints(D, m1, m3, img, P \cup Q, ink, mode)
<1>1. ASSUME NEW i \in D, NEW b \in Bits
      PROVE  b \in m3[i] <=> IF i >= img.base /\ Pixel(img, i, b) \in P \cup Q
                             THEN Becomes(mode, m1[i], b, Pixel(img, i, b), ink)
                             ELSE b \in m1[i]
  <2>1. PICK p : p = Pixel(img, i, b)
    OBVIOUS
  <2>2. b \in m2[i] <=> IF i >= img.base /\ p \in P
                        THEN Becomes(mode, m1[i], b, p, ink) ELSE b \in m1[i]
    BY <2>1 DEF Paints
  <2>3. b \in m3[i] <=> IF i >= img.base /\ p \in Q
                        THEN Becomes(mode, m2[i], b, p, ink) ELSE b \in m2[i]
    BY <2>1 DEF Paints
  <2>4. (b \in m2[i] <=> b \in m1[i]) =>
           (Becomes(mode, m2[i], b, p, ink) <=> Becomes(mode, m1[i], b, p, ink))
    BY DEF Becomes
  <2>5. CASE i >= img.base /\ p \in P
    BY <2>1, <2>2, <2>3, <2>5
  <2>6. CASE i >= img.base /\ p \in Q
    BY <2>1, <2>2, <2>3, <2>4, <2>6
  <2>7. CASE ~(i >= img.base) \/ (p \notin P /\ p \notin Q)
    BY <2>1, <2>2, <2>3, <2>7
  <2> QED
    BY <2>5, <2>6, <2>7
<1> QED
  BY <1>1 DEF Paints

(* so is drawing in many steps, each on pixels of its own                   *)
LEMMA PaintsMany ==
  ASSUME NEW D, NEW n \in Nat, NEW h, NEW parts, NEW P, NEW img, NEW ink, NEW mode,
         P = UNION {parts[k] : k \in 1..n}, h[0] \in [D -> Byte],
         \A k \in 1..n : h[k - 1] \in [D -> Byte] =>
                          Paints(D, h[k - 1], h[k], img, parts[k], ink, mode),
         \A j, k \in 1..n : j < k => parts[j] \cap parts[k] = {}
  PROVE  Paints(D, h[0], h[n], img, P, ink, mode)
<1> DEFINE Drawn(k) == UNION {parts[j] : j \in 1..k}
           S == {k \in 0..n : Paints(D, h[0], h[k], img, Drawn(k), ink, mode)}
<1>1. 0 \in S
  <2>1. Drawn(0) = {}
    OBVIOUS
  <2>2. Paints(D, h[0], h[0], img, {}, ink, mode)
    BY PaintsNothing
  <2> HIDE DEF Drawn
  <2> QED
    BY <2>1, <2>2
<1>2. ASSUME NEW k \in 1..n, k - 1 \in S
      PROVE  k \in S
  <2>1. Paints(D, h[0], h[k - 1], img, Drawn(k - 1), ink, mode)
    BY <1>2
  <2>2. Paints(D, h[k - 1], h[k], img, parts[k], ink, mode)
    BY <2>1 DEF Paints
  <2>3. Drawn(k - 1) \cap parts[k] = {}
    <3>1. \A j \in 1..(k - 1) : j \in 1..n /\ j < k
      OBVIOUS
    <3> QED
      BY <3>1
  <2>4. Drawn(k) = Drawn(k - 1) \cup parts[k]
    <3>1. \A j : j \in 1..k <=> j \in 1..(k - 1) \/ j = k
      OBVIOUS
    <3> QED
      BY <3>1
  <2> HIDE DEF Drawn
  <2>5. Paints(D, h[0], h[k], img, Drawn(k - 1) \cup parts[k], ink, mode)
    BY <2>1, <2>2, <2>3, PaintsBoth
  <2>6. PICK drawn : drawn = Drawn(k)
    OBVIOUS
  <2>7. Paints(D, h[0], h[k], img, drawn, ink, mode)
    BY <2>4, <2>5, <2>6
  <2> QED
    BY <2>6, <2>7
<1> HIDE DEF S
<1>3. n \in S
  BY <1>1, <1>2, LoopInduction
<1>4. PICK drawn : drawn = Drawn(n)
  OBVIOUS
<1>5. Paints(D, h[0], h[n], img, drawn, ink, mode)
  BY <1>3, <1>4 DEF S
<1> QED
  BY <1>4, <1>5

(* _FillRow draws on the pixels from start to end - 1 of the row            *)
LEMMA FillPixelsPaint ==
  ASSUME NEW D \in SUBSET Int, NEW m \in [D -> Byte], NEW img, IsImage(img), NEW row \in Nat,
         NEW start \in Int, NEW end \in Int, 0 <= start, start < end, end <= img.width,
         NEW pattern, NEW mode \in Modes, NEW ink,
         \A x \in Int : start <= x /\ x < end => (x % CHAR_BIT \in pattern <=> <<x, row>> \in ink)
  PROVE  Paints(D, m, FillPixels(m, img, row, start, end, pattern, mode), img,
                (start..end - 1) \X {row}, ink, mode)
<1>1. PICK w \in Nat \ {0} : w = PixelWidthToBytes(img.width) /\ CHAR_BIT \in Nat \ {0}
  BY BytesOf, BitmapAssumption DEF IsImage
<1>2. PICK q \in Int, inset \in 0..(CHAR_BIT - 1) :
        q = start \div CHAR_BIT /\ inset = start % CHAR_BIT /\ start = CHAR_BIT * q + inset
  <2>1. /\ start \div CHAR_BIT \in Int /\ start % CHAR_BIT \in 0..(CHAR_BIT - 1)
        /\ start = CHAR_BIT * (start \div CHAR_BIT) + (start % CHAR_BIT)
    BY <1>1, Division
  <2> QED
    BY <2>1
<1>3. PICK length \in Nat : length = end - start /\ 0 < length
  OBVIOUS
<1>4. inset \in Int /\ 0 <= inset /\ inset < CHAR_BIT /\ inset \in Nat
  BY <1>1, <1>2
<1>5. PICK wr \in Nat : wr = w * row
  BY <1>1
<1>6. PICK sb \in Int : sb = img.base + wr + q
  BY <1>2, <1>5 DEF IsImage
<1>7. PICK L \in Int : /\ L = PixelWidthToBytes(inset + end - start)
                       /\ inset + length <= CHAR_BIT * L
  <2>1. inset + end - start \in Int /\ inset + end - start = inset + length
    BY <1>3, <1>4
  <2>2. PixelWidthToBytes(inset + end - start) \in Int
    BY <2>1, PixelWidthType
  <2> QED
    BY <2>1, <2>2, BytesOf
<1>8. PICK m2 : m2 = FillPixels(m, img, row, start, end, pattern, mode)
  OBVIOUS
<1>9. m2 = [i \in D |-> IF i \in sb..(sb + L - 1)
                        THEN Ink(m[i], RowMask(i - sb, inset, length), pattern, mode)
                        ELSE m[i]]
  <2>1. row * PixelWidthToBytes(img.width) = wr
    BY <1>1, <1>5
  <2> QED
    BY <1>2, <1>3, <1>6, <1>7, <1>8, <2>1 DEF FillPixels
<1>10. m2 \in [D -> Byte]
  BY <1>8, FillPixelsType
<1>11. ASSUME NEW i \in D, NEW b \in Bits
       PROVE  b \in m2[i] <=> IF i >= img.base /\ Pixel(img, i, b) \in (start..end - 1) \X {row}
                              THEN Becomes(mode, m[i], b, Pixel(img, i, b), ink) ELSE b \in m[i]
  <2>1. PICK pos \in Int : pos = FromRow(img, row, i, b)
    <3>1. img.width \in Int
      BY DEF IsImage
    <3>2. 0 < img.width /\ i \in Int
      BY <3>1
    <3>3. FromRow(img, row, i, b) \in Int
      BY <3>2, PlaceInRow
    <3> QED
      BY <3>3
  <2>2. i >= img.base /\ Pixel(img, i, b) \in (start..end - 1) \X {row}
          <=> start <= pos /\ pos < end
    <3>1. i >= img.base /\ RowOf(img, i) = row => ColumnOf(img, i, b) = pos
      BY <2>1, PlaceInRow DEF IsImage
    <3>2. 0 <= pos /\ pos < img.width => i >= img.base /\ RowOf(img, i) = row
      BY <2>1, PlaceInRow DEF IsImage
    <3>3. Pixel(img, i, b) \in (start..end - 1) \X {row}
            <=> ColumnOf(img, i, b) \in start..end - 1 /\ RowOf(img, i) = row
      BY DEF Pixel
    <3>4. img.width \in Int
      BY DEF IsImage
    <3> QED
      BY <3>1, <3>2, <3>3, <3>4
  <2>3. b \in Int /\ 0 <= b /\ b < CHAR_BIT /\ i \in Int /\ img.base \in Int
    BY <1>1 DEF Bits, IsImage
  <2>4. PICK k \in Int : k = i - sb
    BY <2>3
  <2>5. PICK ck \in Int : ck = CHAR_BIT * k
    BY <1>1
  <2>6. pos = ck + b + (start - inset)
    <3>1. i - img.base - w * row = k + q
      BY <1>5, <1>6, <2>3, <2>4
    <3>2. CHAR_BIT * (k + q) = CHAR_BIT * k + CHAR_BIT * q
      BY <1>1
    <3>3. pos = CHAR_BIT * (k + q) + b
      BY <1>1, <2>1, <3>1 DEF FromRow
    <3>4. CHAR_BIT * q = start - inset /\ CHAR_BIT * q \in Int
      BY <1>1, <1>2, <1>4
    <3> QED
      BY <2>3, <2>5, <3>2, <3>3, <3>4
  <2>7. start <= pos /\ pos < end <=> inset <= ck + b /\ ck + b < inset + length
    BY <1>3, <1>4, <2>3, <2>6
  <2>8. k < 0 => ck + b < inset
    <3>1. k <= -1 => CHAR_BIT * k <= CHAR_BIT * (-1)
      BY <1>1, Monotone
    <3>2. CHAR_BIT * (-1) = -CHAR_BIT
      BY <1>1
    <3> QED
      BY <1>1, <1>4, <2>3, <2>5, <3>1, <3>2
  <2>9. k >= L => inset + length <= ck + b
    <3>1. L <= k => CHAR_BIT * L <= CHAR_BIT * k
      BY <1>1, Monotone
    <3>2. CHAR_BIT * L \in Int
      BY <1>1
    <3> QED
      BY <1>3, <1>4, <1>7, <2>3, <2>5, <3>1, <3>2
  <2>10. CASE start <= pos /\ pos < end
    <3>1. k \in Nat /\ i \in sb..(sb + L - 1)
      BY <1>4, <2>3, <2>4, <2>7, <2>8, <2>9, <2>10
    <3>2. b \in RowMask(k, inset, length)
      BY <1>2, <1>3, <2>5, <2>7, <2>10, <3>1, RowMaskIs
    <3>3. m2[i] = Ink(m[i], RowMask(k, inset, length), pattern, mode)
      BY <1>9, <2>4, <3>1
    <3>4. pos % CHAR_BIT = b
      <4>1. PICK v \in Int : pos = CHAR_BIT * v + b
        <5>1. i - img.base - wr \in Int
          BY <2>3
        <5>2. pos = CHAR_BIT * (i - img.base - wr) + b
          BY <1>1, <1>5, <2>1 DEF FromRow
        <5> QED
          BY <5>1, <5>2
      <4>2. b \in 0..(CHAR_BIT - 1)
        BY DEF Bits
      <4> QED
        BY <1>1, <4>1, <4>2, QuotientIs
    <3>5. Pixel(img, i, b) = <<pos, row>>
      BY <2>1, <2>2, <2>10, PlaceInRow DEF Pixel, IsImage
    <3>6. b \in pattern <=> Pixel(img, i, b) \in ink
      BY <2>10, <3>4, <3>5
    <3> QED
      BY <2>2, <2>10, <3>2, <3>3, <3>6, InkIs
  <2>11. CASE ~(start <= pos /\ pos < end)
    <3>1. CASE i \in sb..(sb + L - 1)
      <4>1. k \in Nat
        BY <2>3, <2>4, <3>1
      <4>2. b \notin RowMask(k, inset, length)
        BY <1>2, <1>3, <2>5, <2>7, <2>11, <4>1, RowMaskIs
      <4>3. m2[i] = Ink(m[i], RowMask(k, inset, length), pattern, mode)
        BY <1>9, <2>4, <3>1
      <4>4. b \in m2[i] <=> b \in m[i]
        BY <4>2, <4>3 DEF Ink, Modes, SymDiff
      <4> QED
        BY <2>2, <2>11, <4>4
    <3>2. CASE i \notin sb..(sb + L - 1)
      BY <1>9, <2>2, <2>11, <3>2
    <3> QED
      BY <3>1, <3>2
  <2> QED
    BY <2>10, <2>11
<1> QED
  BY <1>8, <1>10, <1>11 DEF Paints
(* FillRow draws on the pixels of the row that are in the clip region,      *)
(* however its ranges cut the row up.                                       *)
InRow(img, row, start, end) == {p \in img.clip : p[2] = row /\ start <= p[1] /\ p[1] < end}

LEMMA ClipPixels ==
  ASSUME NEW img, IsImage(img), NEW p \in img.clip
  PROVE  /\ p = <<p[1], p[2]>> /\ p[1] \in 0..img.width-1 /\ p[2] \in 0..img.height-1
         /\ p[1] \in Int /\ p[2] \in Int
BY DEF IsImage, ScreenPixels

LEMMA CutPaints ==
  ASSUME NEW D \in SUBSET Int, NEW m \in [D -> Byte], NEW img, IsImage(img), NEW row \in Int,
         NEW start \in Int, NEW end \in Int, NEW pattern, NEW mode \in Modes, NEW ink,
         \A x \in Int : <<x, row>> \in img.clip /\ start <= x /\ x < end =>
           (x % CHAR_BIT \in pattern <=> <<x, row>> \in ink),
         NEW range \in Ranges(Scanline(img, row))
  PROVE  Paints(D, m, Cut(m, img, row, start, end, range, pattern, mode), img,
                {p \in InRow(img, row, start, end) : range.start <= p[1] /\ p[1] < range.end},
                ink, mode)
<1>1. /\ range.start \in Int /\ range.end \in Int
      /\ \A x \in Int : range.start <= x /\ x < range.end => x \in Scanline(img, row)
  BY ScanlineIs, RangesPartition DEF IsImage
<1>2. \A x : x \in Scanline(img, row) => <<x, row>> \in img.clip /\ x \in 0..img.width-1
  BY ScanlineIs
<1>3. PICK Q : Q = {p \in InRow(img, row, start, end) : range.start <= p[1] /\ p[1] < range.end}
  OBVIOUS
<1>4. PICK s \in Int, e \in Int : s = MAX(start, range.start) /\ e = MIN(end, range.end)
  BY <1>1 DEF MAX, MIN
<1>5. \A x \in Int : s <= x /\ x < e <=>
        start <= x /\ x < end /\ range.start <= x /\ x < range.end
  BY <1>1, <1>4 DEF MAX, MIN
<1>6. \A p : p \in Q <=> \E x \in Int : p = <<x, row>> /\ s <= x /\ x < e
  <2>1. ASSUME NEW p \in Q
        PROVE  \E x \in Int : p = <<x, row>> /\ s <= x /\ x < e
    BY <1>3, <1>5, <2>1, ClipPixels DEF InRow
  <2>2. ASSUME NEW x \in Int, s <= x, x < e
        PROVE  <<x, row>> \in Q
    <3>1. <<x, row>> \in img.clip /\ start <= x /\ x < end /\ range.start <= x /\ x < range.end
      BY <1>1, <1>2, <1>5, <2>2
    <3> QED
      BY <1>3, <3>1 DEF InRow
  <2> QED
    BY <2>1, <2>2
<1>7. CASE s >= e
  <2>1. Q = {}
    BY <1>6, <1>7
  <2>2. Cut(m, img, row, start, end, range, pattern, mode) = m
    BY <1>4, <1>7 DEF Cut
  <2>3. Paints(D, m, m, img, Q, ink, mode)
    BY <2>1, PaintsNothing
  <2> QED
    BY <1>3, <2>2, <2>3
<1>8. CASE s < e
  <2>1. Cut(m, img, row, start, end, range, pattern, mode)
        = FillPixels(m, img, row, s, e, pattern, mode)
    BY <1>4, <1>8 DEF Cut
  <2>2. s \in Scanline(img, row) /\ e - 1 \in Scanline(img, row)
    BY <1>1, <1>5, <1>8
  <2>3. 0 <= s /\ e <= img.width
    <3>1. s \in 0..img.width-1 /\ e - 1 \in 0..img.width-1
      BY <1>2, <2>2
    <3>2. img.width \in Int
      BY DEF IsImage
    <3> QED
      BY <3>1, <3>2
  <2>4. row \in Nat
    <3>1. <<s, row>> \in img.clip
      BY <1>2, <2>2
    <3>2. <<s, row>>[2] \in 0..img.height-1
      BY <3>1, ClipPixels
    <3> QED
      BY <3>2
  <2>5. \A x \in Int : s <= x /\ x < e => (x % CHAR_BIT \in pattern <=> <<x, row>> \in ink)
    BY <1>1, <1>2, <1>5
  <2>6. Q = (s..e - 1) \X {row}
    <3>1. \A p : p \in (s..e - 1) \X {row} <=> \E x \in Int : p = <<x, row>> /\ s <= x /\ x < e
      OBVIOUS
    <3> QED
      BY <1>6, <3>1
  <2> QED
    BY <1>3, <1>8, <2>1, <2>3, <2>4, <2>5, <2>6, FillPixelsPaint
<1> QED
  BY <1>7, <1>8

LEMMA FillRowPaint ==
  ASSUME NEW D \in SUBSET Int, NEW m \in [D -> Byte], NEW img, IsImage(img), NEW row \in Int,
         NEW start \in Int, NEW end \in Int, NEW pattern, NEW mode \in Modes, NEW ink,
         \A x \in Int : <<x, row>> \in img.clip /\ start <= x /\ x < end =>
           (x % CHAR_BIT \in pattern <=> <<x, row>> \in ink)
  PROVE  Paints(D, m, FillRow(m, img, row, start, end, Scanline(img, row), pattern, mode), img,
                InRow(img, row, start, end), ink, mode)
<1>1. CASE ~InClipRows(img, row)
  <2>1. \A p \in img.clip : p[2] # row
    <3>1. SUFFICES ASSUME NEW p \in img.clip, p[2] = row PROVE FALSE
      OBVIOUS
    <3>2. row \in ClipRows(img)
      BY <3>1, ClipPixels, ClipRowsAre
    <3> QED
      BY <1>1, <3>2 DEF InClipRows
  <2>2. InRow(img, row, start, end) = {}
    BY <2>1 DEF InRow
  <2>3. FillRow(m, img, row, start, end, Scanline(img, row), pattern, mode) = m
    BY <1>1 DEF FillRow
  <2>4. PICK none : none = InRow(img, row, start, end)
    OBVIOUS
  <2>5. Paints(D, m, m, img, none, ink, mode)
    <3>1. none = {}
      BY <2>2, <2>4
    <3> QED
      BY <3>1, PaintsNothing
  <2> QED
    BY <2>3, <2>4, <2>5
<1>2. CASE InClipRows(img, row)
  <2> DEFINE columns == Scanline(img, row)
  <2>1. columns \in SUBSET (0..img.width-1) /\ IsFiniteSet(Ranges(columns))
    BY ScanlineIs
  <2>2. PICK list : list = SetToSeq(Ranges(columns))
    OBVIOUS
  <2>3. PICK n \in Nat : /\ DOMAIN list = 1..n /\ \A k \in 1..n : list[k] \in Ranges(columns)
                         /\ \A j, k \in 1..n : list[j] = list[k] => j = k
                         /\ \A range \in Ranges(columns) : \E k \in 1..n : list[k] = range
    BY <2>1, <2>2, ListOfSet
  <2>4. PICK loop : loop = [kind |-> "ranges", img |-> img, row |-> row, start |-> start,
                            end |-> end, list |-> list, pattern |-> pattern, mode |-> mode]
    OBVIOUS
  <2>5. PICK h : Runs(h, loop, n, m)
                 /\ FillRow(m, img, row, start, end, columns, pattern, mode) = h[n]
    BY <1>2, <2>2, <2>3, <2>4, RangesLoop
  <2>6. PICK parts : parts = [k \in 1..n |-> {p \in InRow(img, row, start, end) :
                                              list[k].start <= p[1] /\ p[1] < list[k].end}]
    OBVIOUS
  <2>7. h[0] = m
    BY <2>5 DEF Runs
  <2>8. ASSUME NEW k \in 1..n, h[k - 1] \in [D -> Byte]
        PROVE  Paints(D, h[k - 1], h[k], img, parts[k], ink, mode)
    <3>1. h[k] = Cut(h[k - 1], img, row, start, end, list[k], pattern, mode)
      BY <2>4, <2>5 DEF Runs, LoopStep
    <3>2. list[k] \in Ranges(columns)
      BY <2>3
    <3>3. parts[k] = {p \in InRow(img, row, start, end) :
                        list[k].start <= p[1] /\ p[1] < list[k].end}
      BY <2>6
    <3>4. Paints(D, h[k - 1], Cut(h[k - 1], img, row, start, end, list[k], pattern, mode), img,
                 {p \in InRow(img, row, start, end) : list[k].start <= p[1] /\ p[1] < list[k].end},
                 ink, mode)
      BY <2>8, <3>2, CutPaints
    <3> QED
      BY <3>1, <3>3, <3>4
  <2>9. ASSUME NEW j \in 1..n, NEW k \in 1..n, j < k
        PROVE  parts[j] \cap parts[k] = {}
    <3>1. SUFFICES ASSUME NEW p \in parts[j], p \in parts[k] PROVE FALSE
      OBVIOUS
    <3>2. /\ p \in InRow(img, row, start, end)
          /\ list[j].start <= p[1] /\ p[1] < list[j].end
          /\ list[k].start <= p[1] /\ p[1] < list[k].end
      BY <2>6, <3>1
    <3>3. PICK x \in Int : x = p[1]
      BY <3>2, ClipPixels DEF InRow
    <3>4. PICK r1 \in Ranges(columns), r2 \in Ranges(columns) : r1 = list[j] /\ r2 = list[k]
      BY <2>3
    <3>5. r1.start <= x /\ x < r1.end /\ r2.start <= x /\ x < r2.end
      BY <3>2, <3>3, <3>4
    <3>6. r1 = r2
      <4>1. img.width \in Int
        BY DEF IsImage
      <4> QED
        BY <2>1, <3>5, <4>1, RangesPartition
    <3>7. j = k
      BY <2>3, <3>4, <3>6
    <3> QED
      BY <2>9, <3>7
  <2>10. UNION {parts[k] : k \in 1..n} = InRow(img, row, start, end)
    <3>1. ASSUME NEW p \in InRow(img, row, start, end)
          PROVE  \E k \in 1..n : p \in parts[k]
      <4>1. p[1] \in columns
        BY ClipPixels, ScanlineIs DEF InRow
      <4>2. img.width \in Int
        BY DEF IsImage
      <4>3. PICK range \in Ranges(columns) : range.start <= p[1] /\ p[1] < range.end
        BY <2>1, <4>1, <4>2, RangesPartition
      <4>4. PICK k \in 1..n : list[k] = range
        BY <2>3
      <4> QED
        BY <2>6, <4>3, <4>4
    <3>2. \A k \in 1..n : parts[k] \subseteq InRow(img, row, start, end)
      BY <2>6
    <3> QED
      BY <3>1, <3>2
  <2>11. \A k \in 1..n : h[k - 1] \in [D -> Byte] =>
                            Paints(D, h[k - 1], h[k], img, parts[k], ink, mode)
    BY <2>8
  <2>12. \A j, k \in 1..n : j < k => parts[j] \cap parts[k] = {}
    BY <2>9
  <2>13. Paints(D, h[0], h[n], img, InRow(img, row, start, end), ink, mode)
    BY <2>7, <2>10, <2>11, <2>12, PaintsMany
  <2> QED
    BY <2>5, <2>7, <2>13
<1> QED
  BY <1>1, <1>2
(* The bits of a pattern that is rotated to begin at the left edge.         *)
LEMMA SwatchIs ==
  ASSUME NEW x \in Int, NEW left \in Int, NEW pattern \in Pattern, NEW k \in Nat
  PROVE  x % CHAR_BIT \in Swatch(pattern, k, left, {})
           <=> (x - MAX(0, left)) % CHAR_BIT \in pattern[k % PatternRows]
<1>1. CHAR_BIT \in Nat \ {0} /\ PatternRows \in Nat \ {0}
  BY BitmapAssumption
<1>2. PICK byte \in Byte : byte = pattern[k % PatternRows]
  <2>1. k % PatternRows \in 0..(PatternRows - 1)
    BY <1>1, Division
  <2> QED
    BY <2>1 DEF Pattern
<1>3. PICK a \in Int : a = MAX(0, left)
  BY DEF MAX
<1>4. PICK s \in 0..(CHAR_BIT - 1), qa \in Int : s = a % CHAR_BIT /\ a = CHAR_BIT * qa + s
  <2>1. a % CHAR_BIT \in 0..(CHAR_BIT - 1) /\ a \div CHAR_BIT \in Int
        /\ a = CHAR_BIT * (a \div CHAR_BIT) + (a % CHAR_BIT)
    BY <1>1, Division
  <2> QED
    BY <2>1
<1>5. Swatch(pattern, k, left, {}) = {(j + s) % CHAR_BIT : j \in byte}
  BY <1>2, <1>3, <1>4 DEF Swatch, RotateByteRight, PatternOffset
<1>6. \A j \in byte : j \in 0..(CHAR_BIT - 1)
  BY <1>2 DEF Byte, Bits
<1>7. ASSUME x % CHAR_BIT \in Swatch(pattern, k, left, {})
      PROVE  (x - a) % CHAR_BIT \in byte
  <2>1. PICK j \in byte : x % CHAR_BIT = (j + s) % CHAR_BIT
    BY <1>5, <1>7
  <2>2. j \in 0..(CHAR_BIT - 1) /\ j + s \in Int
    BY <1>1, <1>4, <1>6
  <2>3. PICK t \in Int, qx \in Int : t = x % CHAR_BIT /\ x = CHAR_BIT * qx + t
    <3>1. x % CHAR_BIT \in 0..(CHAR_BIT - 1) /\ x \div CHAR_BIT \in Int
          /\ x = CHAR_BIT * (x \div CHAR_BIT) + (x % CHAR_BIT)
      BY <1>1, Division
    <3>2. x % CHAR_BIT \in Int
      BY <3>1
    <3> QED
      BY <3>1, <3>2
  <2>4. PICK q2 \in Int : j + s = CHAR_BIT * q2 + t
    <3>1. (j + s) \div CHAR_BIT \in Int
          /\ j + s = CHAR_BIT * ((j + s) \div CHAR_BIT) + ((j + s) % CHAR_BIT)
      BY <1>1, <2>2, Division
    <3> QED
      BY <2>1, <2>3, <3>1
  <2>5. CHAR_BIT * (qx - q2 - qa) = CHAR_BIT * qx - CHAR_BIT * q2 - CHAR_BIT * qa
    BY <1>1
  <2>6. CHAR_BIT * qx \in Int /\ CHAR_BIT * q2 \in Int /\ CHAR_BIT * qa \in Int
    BY <1>1
  <2>7. j \in Int /\ s \in Int
    BY <1>1, <1>4, <2>2
  <2>8. x - a = CHAR_BIT * (qx - q2 - qa) + j
    BY <1>4, <2>3, <2>4, <2>5, <2>6, <2>7
  <2>9. (x - a) % CHAR_BIT = j
    <3>1. x - a \in Int /\ qx - q2 - qa \in Int
      OBVIOUS
    <3> QED
      BY <1>1, <2>2, <2>8, <3>1, QuotientIs
  <2> QED
    BY <2>9
<1>8. ASSUME (x - a) % CHAR_BIT \in byte
      PROVE  x % CHAR_BIT \in Swatch(pattern, k, left, {})
  <2>1. PICK j \in byte : j = (x - a) % CHAR_BIT
    BY <1>8
  <2>2. j \in 0..(CHAR_BIT - 1) /\ j + s \in Int /\ j \in Int /\ s \in Int
    BY <1>1, <1>4, <1>6
  <2>3. PICK v \in Int : x - a = CHAR_BIT * v + j
    <3>1. (x - a) \div CHAR_BIT \in Int
          /\ x - a = CHAR_BIT * ((x - a) \div CHAR_BIT) + ((x - a) % CHAR_BIT)
      BY <1>1, Division
    <3> QED
      BY <2>1, <3>1
  <2>4. PICK q2 \in Int, t \in 0..(CHAR_BIT - 1) :
          t = (j + s) % CHAR_BIT /\ j + s = CHAR_BIT * q2 + t
    <3>1. /\ (j + s) \div CHAR_BIT \in Int /\ (j + s) % CHAR_BIT \in 0..(CHAR_BIT - 1)
          /\ j + s = CHAR_BIT * ((j + s) \div CHAR_BIT) + ((j + s) % CHAR_BIT)
      BY <1>1, <2>2, Division
    <3> QED
      BY <3>1
  <2>5. CHAR_BIT * (v + qa + q2) = CHAR_BIT * v + CHAR_BIT * qa + CHAR_BIT * q2
    BY <1>1
  <2>6. CHAR_BIT * v \in Int /\ CHAR_BIT * q2 \in Int /\ CHAR_BIT * qa \in Int /\ t \in Int
    BY <1>1
  <2>7. x = CHAR_BIT * (v + qa + q2) + t
    <3>1. PICK cv \in Int, cq \in Int, ca \in Int :
            cv = CHAR_BIT * v /\ cq = CHAR_BIT * q2 /\ ca = CHAR_BIT * qa
      BY <2>6
    <3>2. x = cv + j + a /\ a = ca + s /\ j + s = cq + t
      BY <1>4, <2>2, <2>3, <2>4, <3>1
    <3>3. x = cv + ca + cq + t
      BY <2>2, <2>6, <3>2
    <3> QED
      BY <2>5, <3>1, <3>3
  <2>8. x % CHAR_BIT = t
    <3>1. v + qa + q2 \in Int
      OBVIOUS
    <3> QED
      BY <1>1, <2>7, <3>1, QuotientIs
  <2> QED
    BY <1>5, <2>1, <2>4, <2>8
<1> QED
  BY <1>2, <1>3, <1>7, <1>8

(* the pixels that a pattern shows black, which begins at the edge `left'   *)
(* with its row for row `first' of the image                                *)
Inked(pattern, left, first) ==
  {p \in Int \X Int : (p[1] - MAX(0, left)) % CHAR_BIT \in pattern[(p[2] - first) % PatternRows]}

(* FillRect draws on the pixels of its rows that are in the clip region      *)
RowsFrom(img, r) == {p \in img.clip : /\ r.left <= p[1] /\ p[1] < r.right
                                      /\ r.top <= p[2] /\ p[2] < r.top + RectHeight(r)}

LEMMA FillRectPaint ==
  ASSUME NEW D \in SUBSET Int, NEW m \in [D -> Byte], NEW img, IsImage(img), NEW r,
         r.top \in Int, r.left \in Int, r.right \in Int, RectHeight(r) \in Int,
         NEW pattern \in Pattern, NEW mode \in Modes
  PROVE  Paints(D, m, FillRect(m, img, r, pattern, mode), img, RowsFrom(img, r),
                Inked(pattern, r.left, r.top), mode)
<1>1. PICK n \in Nat : n = IF RectHeight(r) > 0 THEN RectHeight(r) ELSE 0
  OBVIOUS
<1>2. 1..RectHeight(r) = 1..n
  BY <1>1
<1>3. PICK loop : loop = [kind |-> "rect", img |-> img, r |-> r, pattern |-> pattern,
                          mode |-> mode]
  OBVIOUS
<1>4. PICK h : Runs(h, loop, n, m) /\ FillRect(m, img, r, pattern, mode) = h[n]
  BY <1>2, <1>3, RectLoop
<1>5. PICK ink : ink = Inked(pattern, r.left, r.top)
  OBVIOUS
<1>6. PICK parts : parts = [k \in 1..n |-> InRow(img, r.top + (k - 1), r.left, r.right)]
  OBVIOUS
<1>7. h[0] = m
  BY <1>4 DEF Runs
<1>8. ASSUME NEW k \in 1..n, h[k - 1] \in [D -> Byte]
      PROVE  Paints(D, h[k - 1], h[k], img, parts[k], ink, mode)
  <2>1. PICK row \in Int : row = r.top + (k - 1)
    OBVIOUS
  <2>2. h[k] = FillRow(h[k - 1], img, row, r.left, r.right, Scanline(img, row),
                       Swatch(pattern, k - 1, r.left, {}), mode)
    BY <1>3, <1>4, <2>1 DEF Runs, LoopStep, RowOfRect
  <2>3. ASSUME NEW x \in Int
        PROVE  x % CHAR_BIT \in Swatch(pattern, k - 1, r.left, {}) <=> <<x, row>> \in ink
    <3>1. k - 1 \in Nat /\ row - r.top = k - 1
      BY <2>1
    <3>2. <<x, row>> \in ink
            <=> (x - MAX(0, r.left)) % CHAR_BIT \in pattern[(row - r.top) % PatternRows]
      BY <1>5 DEF Inked
    <3> QED
      BY <3>1, <3>2, SwatchIs
  <2>4. parts[k] = InRow(img, row, r.left, r.right)
    BY <1>6, <2>1
  <2> QED
    BY <1>8, <2>2, <2>3, <2>4, FillRowPaint
<1>9. ASSUME NEW j \in 1..n, NEW k \in 1..n, j < k
      PROVE  parts[j] \cap parts[k] = {}
  <2>1. PICK y \in Int, z \in Int : y = r.top + (j - 1) /\ z = r.top + (k - 1) /\ y # z
    BY <1>9
  <2>2. parts[j] = InRow(img, y, r.left, r.right) /\ parts[k] = InRow(img, z, r.left, r.right)
    BY <1>6, <2>1
  <2> QED
    BY <2>1, <2>2 DEF InRow
<1>10. UNION {parts[k] : k \in 1..n} = RowsFrom(img, r)
  <2>1. ASSUME NEW k \in 1..n, NEW p \in parts[k]
        PROVE  p \in RowsFrom(img, r)
    <3>1. p \in InRow(img, r.top + (k - 1), r.left, r.right)
      BY <1>6, <2>1
    <3> QED
      BY <1>1, <3>1 DEF InRow, RowsFrom
  <2>2. ASSUME NEW p \in RowsFrom(img, r)
        PROVE  \E k \in 1..n : p \in parts[k]
    <3>1. p \in img.clip /\ r.left <= p[1] /\ p[1] < r.right
          /\ r.top <= p[2] /\ p[2] < r.top + RectHeight(r)
      BY <2>2 DEF RowsFrom
    <3>2. PICK y \in Int : y = p[2]
      BY <3>1, ClipPixels
    <3>3. PICK k \in 1..n : y = r.top + (k - 1)
      <4>1. y - r.top + 1 \in 1..n /\ y = r.top + ((y - r.top + 1) - 1)
        BY <1>1, <3>1, <3>2
      <4> QED
        BY <4>1
    <3>4. p \in InRow(img, r.top + (k - 1), r.left, r.right)
      BY <3>1, <3>2, <3>3 DEF InRow
    <3> QED
      BY <1>6, <3>4
  <2> QED
    BY <2>1, <2>2
<1>11. \A k \in 1..n : h[k - 1] \in [D -> Byte] =>
                          Paints(D, h[k - 1], h[k], img, parts[k], ink, mode)
  BY <1>8
<1>12. \A j, k \in 1..n : j < k => parts[j] \cap parts[k] = {}
  BY <1>9
<1>13. Paints(D, h[0], h[n], img, RowsFrom(img, r), ink, mode)
  BY <1>7, <1>10, <1>11, <1>12, PaintsMany
<1> QED
  BY <1>4, <1>5, <1>7, <1>13
(* a row of a frame, and the two ends of a row                              *)
LEMMA FrameFillPaint ==
  ASSUME NEW D \in SUBSET Int, NEW m \in [D -> Byte], NEW img, IsImage(img), NEW r,
         r.top \in Int, r.left \in Int, NEW row \in Int, r.top <= row, NEW start \in Int,
         NEW end \in Int, NEW pattern \in Pattern, NEW mode \in Modes
  PROVE  Paints(D, m, FrameFill(m, img, r, pattern, mode, row, start, end), img,
                InRow(img, row, start, end), Inked(pattern, r.left, 0), mode)
<1>1. PICK swatch : swatch = Swatch(pattern, row, r.left, {})
  OBVIOUS
<1>2. PICK ink : ink = Inked(pattern, r.left, 0)
  OBVIOUS
<1>3. MAX(r.top, row) = row
  BY DEF MAX
<1>4. FrameFill(m, img, r, pattern, mode, row, start, end)
      = FillRow(m, img, row, start, end, Scanline(img, row), swatch, mode)
  BY <1>1, <1>3 DEF FrameFill
<1>5. ASSUME NEW x \in Int, <<x, row>> \in img.clip
      PROVE  x % CHAR_BIT \in swatch <=> <<x, row>> \in ink
  <2>1. <<x, row>>[2] \in 0..img.height-1
    BY <1>5, ClipPixels
  <2>2. row \in Nat /\ row - 0 = row
    BY <2>1
  <2>3. <<x, row>> \in ink
          <=> (x - MAX(0, r.left)) % CHAR_BIT \in pattern[(row - 0) % PatternRows]
    BY <1>2 DEF Inked
  <2> QED
    BY <1>1, <2>2, <2>3, SwatchIs
<1> QED
  BY <1>2, <1>4, <1>5, FillRowPaint

LEMMA FrameSidesPaint ==
  ASSUME NEW D \in SUBSET Int, NEW m \in [D -> Byte], NEW img, IsImage(img), NEW r,
         r.top \in Int, r.left \in Int, r.right \in Int, r.right - r.left >= 2, NEW row \in Int,
         r.top <= row, NEW pattern \in Pattern, NEW mode \in Modes
  PROVE  Paints(D, m, FrameSides(m, img, r, pattern, mode, row), img,
                InRow(img, row, r.left, r.left + 1) \cup InRow(img, row, r.right - 1, r.right),
                Inked(pattern, r.left, 0), mode)
<1>1. PICK m1 : m1 = FrameFill(m, img, r, pattern, mode, row, r.left, r.left + 1)
  OBVIOUS
<1>2. PICK m2 : m2 = FrameSides(m, img, r, pattern, mode, row)
  OBVIOUS
<1>3. PICK ink : ink = Inked(pattern, r.left, 0)
  OBVIOUS
<1>4. r.left + 1 \in Int /\ r.right - 1 \in Int
  OBVIOUS
<1>5. PICK P : P = InRow(img, row, r.left, r.left + 1)
  OBVIOUS
<1>6. PICK Q : Q = InRow(img, row, r.right - 1, r.right)
  OBVIOUS
<1>7. Paints(D, m, m1, img, P, ink, mode)
  BY <1>1, <1>3, <1>4, <1>5, FrameFillPaint
<1>8. m1 \in [D -> Byte]
  BY <1>7 DEF Paints
<1>9. m2 = FrameFill(m1, img, r, pattern, mode, row, r.right - 1, r.right)
  BY <1>1, <1>2 DEF FrameSides
<1>10. Paints(D, m1, m2, img, Q, ink, mode)
  BY <1>3, <1>4, <1>6, <1>8, <1>9, FrameFillPaint
<1>11. P \cap Q = {}
  <2>1. SUFFICES ASSUME NEW p \in P, p \in Q PROVE FALSE
    OBVIOUS
  <2>2. p[1] \in Int
    BY <1>5, <2>1, ClipPixels DEF InRow
  <2>3. p[1] < r.left + 1 /\ r.right - 1 <= p[1]
    BY <1>5, <1>6, <2>1 DEF InRow
  <2> QED
    BY <2>2, <2>3
<1>12. Paints(D, m, m2, img, P \cup Q, ink, mode)
  BY <1>7, <1>10, <1>11, PaintsBoth
<1> QED
  BY <1>2, <1>3, <1>5, <1>6, <1>12

(* FrameRect draws on the border, once on every pixel of it                 *)
LEMMA FrameRectPaint ==
  ASSUME NEW D \in SUBSET Int, NEW m \in [D -> Byte], NEW img, IsImage(img), NEW r,
         r.top \in Int, r.left \in Int, r.bottom \in Int, r.right \in Int,
         r.right - r.left >= 2, r.bottom - r.top >= 2, NEW pattern \in Pattern,
         NEW mode \in Modes
  PROVE  Paints(D, m, FrameRect(m, img, r, pattern, mode), img,
                {p \in img.clip : OnBorder(r, p[1], p[2])}, Inked(pattern, r.left, 0), mode)
<1>1. PICK n \in Nat : n = r.bottom - r.top - 2
  OBVIOUS
<1>2. 1..(r.bottom - 1) - (r.top + 1) = 1..n
  BY <1>1
<1>3. PICK loop : loop = [kind |-> "frame", img |-> img, r |-> r, pattern |-> pattern,
                          mode |-> mode]
  OBVIOUS
<1>4. PICK base : base = FrameFill(m, img, r, pattern, mode, r.top, r.left, r.right)
  OBVIOUS
<1>5. PICK h : /\ Runs(h, loop, n, base)
               /\ FrameRect(m, img, r, pattern, mode)
                  = FrameFill(h[n], img, r, pattern, mode, r.bottom - 1, r.left, r.right)
  BY <1>2, <1>3, <1>4, FrameLoop
<1>6. PICK ink : ink = Inked(pattern, r.left, 0)
  OBVIOUS
<1>7. \A p \in img.clip : p[1] \in Int /\ p[2] \in Int
  BY ClipPixels
<1>8. PICK top \in Int, left \in Int, bottom \in Int, right \in Int :
        top = r.top /\ left = r.left /\ bottom = r.bottom /\ right = r.right
  OBVIOUS
<1>9. right - left >= 2 /\ bottom - top >= 2 /\ n = bottom - top - 2
  BY <1>1, <1>8
<1>10. PICK parts : parts = [k \in 1..n |-> InRow(img, top + k, left, left + 1)
                                            \cup InRow(img, top + k, right - 1, right)]
  OBVIOUS
<1>11. PICK First, Sides, Final, m2 :
         /\ First = InRow(img, top, left, right) /\ Sides = UNION {parts[k] : k \in 1..n}
         /\ Final = InRow(img, bottom - 1, left, right)
         /\ m2 = FrameRect(m, img, r, pattern, mode)
  OBVIOUS
<1>12. h[0] = base
  BY <1>5 DEF Runs
<1>13. Paints(D, m, h[0], img, First, ink, mode)
  <2>1. Paints(D, m, FrameFill(m, img, r, pattern, mode, r.top, r.left, r.right), img,
               InRow(img, r.top, r.left, r.right), Inked(pattern, r.left, 0), mode)
    BY FrameFillPaint
  <2> QED
    BY <1>4, <1>6, <1>8, <1>11, <1>12, <2>1
<1>14. h[0] \in [D -> Byte]
  BY <1>13 DEF Paints
<1>15. ASSUME NEW k \in 1..n, h[k - 1] \in [D -> Byte]
       PROVE  Paints(D, h[k - 1], h[k], img, parts[k], ink, mode)
  <2>1. PICK row \in Int : row = top + k /\ r.top <= row
    BY <1>8
  <2>2. h[k] = FrameSides(h[k - 1], img, r, pattern, mode, row)
    BY <1>3, <1>5, <1>8, <2>1 DEF Runs, LoopStep
  <2>3. parts[k] = InRow(img, row, r.left, r.left + 1) \cup InRow(img, row, r.right - 1, r.right)
    BY <1>8, <1>10, <2>1
  <2>4. Paints(D, h[k - 1], FrameSides(h[k - 1], img, r, pattern, mode, row), img,
               InRow(img, row, r.left, r.left + 1) \cup InRow(img, row, r.right - 1, r.right),
               Inked(pattern, r.left, 0), mode)
    BY <1>15, <2>1, FrameSidesPaint
  <2> QED
    BY <1>6, <2>2, <2>3, <2>4
<1>16. ASSUME NEW k \in 1..n, NEW p \in parts[k]
       PROVE  /\ p \in img.clip /\ p[1] \in Int /\ p[2] = top + k
              /\ p[1] = left \/ p[1] = right - 1
  <2>1. p \in InRow(img, top + k, left, left + 1) \/ p \in InRow(img, top + k, right - 1, right)
    BY <1>10, <1>16
  <2>2. /\ p \in img.clip /\ p[2] = top + k
        /\ \/ left <= p[1] /\ p[1] < left + 1
           \/ right - 1 <= p[1] /\ p[1] < right
    BY <2>1 DEF InRow
  <2> QED
    BY <1>7, <2>2
<1>17. ASSUME NEW j \in 1..n, NEW k \in 1..n, j < k
       PROVE  parts[j] \cap parts[k] = {}
  <2>1. top + j # top + k
    BY <1>8, <1>17
  <2> QED
    BY <1>16, <2>1
<1>18. Paints(D, h[0], h[n], img, Sides, ink, mode)
  <2>1. \A j, k \in 1..n : j < k => parts[j] \cap parts[k] = {}
    BY <1>17
  <2>2. \A k \in 1..n : h[k - 1] \in [D -> Byte] =>
                          Paints(D, h[k - 1], h[k], img, parts[k], ink, mode)
    BY <1>15
  <2> QED
    BY <1>11, <1>14, <2>1, <2>2, PaintsMany
<1>19. Paints(D, h[n], m2, img, Final, ink, mode)
  <2>1. h[n] \in [D -> Byte]
    BY <1>18 DEF Paints
  <2>2. bottom - 1 \in Int /\ r.top <= bottom - 1
    BY <1>8, <1>9
  <2>3. m2 = FrameFill(h[n], img, r, pattern, mode, bottom - 1, left, right)
    BY <1>5, <1>8, <1>11
  <2> QED
    BY <1>6, <1>8, <1>11, <2>1, <2>2, <2>3, FrameFillPaint
<1>20. \A p : /\ p \in First => p[2] = top
              /\ p \in Sides => p[2] \in Int /\ top < p[2] /\ p[2] < bottom - 1
              /\ p \in Final => p[2] = bottom - 1
  <2>1. ASSUME NEW p \in Sides
        PROVE  p[2] \in Int /\ top < p[2] /\ p[2] < bottom - 1
    <3>1. PICK k \in 1..n : p \in parts[k]
      BY <1>11
    <3> QED
      BY <1>9, <1>16, <3>1
  <2> QED
    BY <1>11, <2>1 DEF InRow
<1>21. First \cap Sides = {} /\ (First \cup Sides) \cap Final = {}
  BY <1>9, <1>20
<1>22. ASSUME NEW p
       PROVE  p \in (First \cup Sides) \cup Final
                <=> p \in {q \in img.clip : OnBorder(r, q[1], q[2])}
  <2>1. ASSUME p \in img.clip
        PROVE  p \in (First \cup Sides) \cup Final <=> OnBorder(r, p[1], p[2])
    <3>1. p[1] \in Int /\ p[2] \in Int
      BY <1>7, <2>1
    <3>2. /\ p \in First <=> p[2] = top /\ left <= p[1] /\ p[1] < right
          /\ p \in Final <=> p[2] = bottom - 1 /\ left <= p[1] /\ p[1] < right
      BY <1>11, <2>1 DEF InRow
    <3>3. p \in Sides <=> /\ top < p[2] /\ p[2] < bottom - 1
                          /\ p[1] = left \/ p[1] = right - 1
      <4>1. p \in Sides => \E k \in 1..n : p \in parts[k]
        BY <1>11
      <4>2. ASSUME top < p[2], p[2] < bottom - 1, p[1] = left \/ p[1] = right - 1
            PROVE  p \in Sides
        <5>1. PICK k \in 1..n : p[2] = top + k
          <6>1. p[2] - top \in 1..n /\ p[2] = top + (p[2] - top)
            BY <1>9, <3>1, <4>2
          <6> QED
            BY <6>1
        <5>2. \/ left <= p[1] /\ p[1] < left + 1
              \/ right - 1 <= p[1] /\ p[1] < right
          BY <4>2
        <5>3. p \in parts[k]
          BY <1>10, <2>1, <5>1, <5>2 DEF InRow
        <5> QED
          BY <1>11, <5>3
      <4> QED
        BY <1>16, <1>20, <4>1, <4>2
    <3>4. OnBorder(r, p[1], p[2])
            <=> /\ left <= p[1] /\ p[1] < right /\ top <= p[2] /\ p[2] < bottom
                /\ p[1] = left \/ p[1] = right - 1 \/ p[2] = top \/ p[2] = bottom - 1
      BY <1>8 DEF OnBorder, InRect
    <3> QED
      BY <1>9, <3>1, <3>2, <3>3, <3>4
  <2>2. p \in (First \cup Sides) \cup Final => p \in img.clip
    <3>1. p \in Sides => \E k \in 1..n : p \in parts[k]
      BY <1>11
    <3> QED
      BY <1>11, <1>16, <3>1 DEF InRow
  <2> QED
    BY <2>1, <2>2
<1>23. PICK All : All = (First \cup Sides) \cup Final
  OBVIOUS
<1>24. Paints(D, m, m2, img, All, ink, mode)
  <2>1. Paints(D, m, h[n], img, First \cup Sides, ink, mode)
    BY <1>13, <1>18, <1>21, PaintsBoth
  <2> QED
    BY <1>19, <1>21, <1>23, <2>1, PaintsBoth
<1>25. All = {q \in img.clip : OnBorder(r, q[1], q[2])}
  BY <1>22, <1>23
<1> QED
  BY <1>6, <1>11, <1>24, <1>25
(* What paints the pixels a shape covers draws the shape.                    *)
LEMMA DrawnIs ==
  ASSUME NEW D \in SUBSET Int, mem \in [D -> Byte], NEW img, IsImage(img), NEW d, NEW mode \in Modes,
         mode = d.mode, d.rect.top \in Int, NEW first \in Int,
         first = IF d.shape = "frame" THEN 0 ELSE d.rect.top,
         Paints(D, mem, mem', img, {p \in img.clip : Covers(d.shape, d.rect, p[1], p[2])},
                Inked(d.pattern, d.rect.left, first), mode)
  PROVE  DrawnAs(img, d)
<1>1. PICK ink : ink = Inked(d.pattern, d.rect.left, first)
  OBVIOUS
<1>2. PICK P : P = {p \in img.clip : Covers(d.shape, d.rect, p[1], p[2])}
  OBVIOUS
<1>3. Paints(D, mem, mem', img, P, ink, mode)
  BY <1>1, <1>2
<1>4. ASSUME NEW i \in DOMAIN mem, NEW b \in Bits
      PROVE  (b \in mem'[i]) =
               IF Visible(img, i, b)
                  /\ Covers(d.shape, d.rect, ColumnOf(img, i, b), RowOf(img, i))
               THEN Colour(d, ColumnOf(img, i, b), RowOf(img, i), b \in mem[i])
               ELSE b \in mem[i]
  <2>1. i \in D
    OBVIOUS
  <2>2. PICK p : p = Pixel(img, i, b)
    OBVIOUS
  <2>3. PICK x, y : x = ColumnOf(img, i, b) /\ y = RowOf(img, i)
    OBVIOUS
  <2>4. p = <<x, y>> /\ p[1] = x /\ p[2] = y
    BY <2>2, <2>3 DEF Pixel
  <2>5. b \in mem'[i] <=> IF i >= img.base /\ p \in P
                          THEN Becomes(mode, mem[i], b, p, ink) ELSE b \in mem[i]
    BY <1>3, <2>1, <2>2 DEF Paints
  <2>6. Visible(img, i, b) /\ Covers(d.shape, d.rect, x, y)
          <=> i >= img.base /\ p \in P
    BY <1>2, <2>3, <2>4 DEF Visible
  <2>7. CASE i >= img.base /\ p \in P
    <3>1. x \in Int /\ y \in Int
      BY <1>2, <2>4, <2>7, ClipPixels
    <3>2. PICK e, T : e = (x - MAX(0, d.rect.left)) % CHAR_BIT /\ T = d.pattern[(y - first) % PatternRows]
      OBVIOUS
    <3>3. p \in ink <=> e \in T
      BY <1>1, <2>4, <3>1, <3>2 DEF Inked
    <3>4. y - first = IF d.shape = "frame" THEN y ELSE y - d.rect.top
      BY <3>1
    <3>5. d.mode = mode
      OBVIOUS
    <3>6. b \in mem'[i] <=> Becomes(mode, mem[i], b, p, ink)
      BY <2>5, <2>7
    <3>7. (b \in mem'[i]) = Colour(d, x, y, b \in mem[i])
      <4>1. CASE mode = "Copy"
        <5>1. Colour(d, x, y, b \in mem[i]) = (e \in T)
          BY <3>2, <3>4, <3>5, <4>1 DEF Colour
        <5>2. b \in mem'[i] <=> e \in T
          BY <3>3, <3>6, <4>1 DEF Becomes
        <5> QED
          BY <5>1, <5>2
      <4>2. CASE mode = "XOr"
        <5>1. Colour(d, x, y, b \in mem[i]) = ((b \in mem[i]) # (e \in T))
          BY <3>2, <3>4, <3>5, <4>2 DEF Colour
        <5>2. b \in mem'[i] <=> ~(b \in mem[i] <=> e \in T)
          BY <3>3, <3>6, <4>2 DEF Becomes
        <5> QED
          BY <5>1, <5>2
      <4>3. CASE mode = "NotXOr"
        <5>1. Colour(d, x, y, b \in mem[i]) = ((b \in mem[i]) = (e \in T))
          BY <3>2, <3>4, <3>5, <4>3 DEF Colour
        <5>2. b \in mem'[i] <=> (b \in mem[i] <=> e \in T)
          BY <3>3, <3>6, <4>3 DEF Becomes
        <5> QED
          BY <5>1, <5>2
      <4> QED
        BY <4>1, <4>2, <4>3 DEF Modes
    <3> QED
      BY <2>3, <2>6, <2>7, <3>7
  <2>8. CASE ~(i >= img.base /\ p \in P)
    BY <2>3, <2>5, <2>6, <2>8
  <2> QED
    BY <2>7, <2>8
<1> QED
  BY <1>4 DEF DrawnAs

LEMMA RectIsDrawn ==
  ASSUME GraphicsInv, NEW img, IsImage(img), NEW shape \in {"fill", "frame"}, NEW r \in Rect,
         RectHeight(r) = r.bottom - r.top, NEW pattern \in Pattern, NEW mode \in Modes,
         Proper(shape, r),
         mem' = IF shape = "fill" THEN FillRect(mem, img, r, pattern, mode)
                ELSE FrameRect(mem, img, r, pattern, mode)
  PROVE  DrawnAs(img, [shape |-> shape, rect |-> r, pattern |-> pattern, mode |-> mode])
<1>1. r.top \in Int /\ r.left \in Int /\ r.bottom \in Int /\ r.right \in Int
  BY CoordinatesAreInt DEF Rect
<1>2. PICK D \in SUBSET Int : D = 0..MemorySize-1 /\ mem \in [D -> Byte]
  BY MemoryIs DEF GraphicsInv
<1>3. PICK first \in Int : first = IF shape = "frame" THEN 0 ELSE r.top
  BY <1>1
<1>4. PICK ink : ink = Inked(pattern, r.left, first)
  OBVIOUS
<1>5. PICK P : P = {p \in img.clip : Covers(shape, r, p[1], p[2])}
  OBVIOUS
<1>6. Paints(D, mem, mem', img, P, ink, mode)
  <2>1. CASE shape = "fill"
    <3>1. P = RowsFrom(img, r)
      <4>1. RectHeight(r) \in Int /\ r.top + RectHeight(r) = r.bottom
        BY <1>1
      <4> QED
        BY <1>1, <1>5, <2>1, <4>1 DEF Covers, InRect, RowsFrom
    <3>2. mem' = FillRect(mem, img, r, pattern, mode) /\ first = r.top /\ RectHeight(r) \in Int
      BY <1>1, <1>3, <2>1
    <3> QED
      BY <1>1, <1>2, <1>4, <3>1, <3>2, FillRectPaint
  <2>2. CASE shape = "frame"
    <3>1. P = {p \in img.clip : OnBorder(r, p[1], p[2])}
      BY <1>5, <2>2 DEF Covers
    <3>2. mem' = FrameRect(mem, img, r, pattern, mode) /\ first = 0
      BY <1>3, <2>2
    <3>3. r.right - r.left >= 2 /\ r.bottom - r.top >= 2
      BY <2>2 DEF Proper
    <3> QED
      BY <1>1, <1>2, <1>4, <3>1, <3>2, <3>3, FrameRectPaint
  <2> QED
    BY <2>1, <2>2
<1>7. PICK d : d = [shape |-> shape, rect |-> r, pattern |-> pattern, mode |-> mode]
  OBVIOUS
<1>8. d.shape = shape /\ d.rect = r /\ d.pattern = pattern /\ d.mode = mode
  BY <1>7
<1>9. /\ P = {p \in img.clip : Covers(d.shape, d.rect, p[1], p[2])}
      /\ ink = Inked(d.pattern, d.rect.left, first)
      /\ first = IF d.shape = "frame" THEN 0 ELSE d.rect.top
      /\ d.rect.top \in Int
  BY <1>1, <1>3, <1>4, <1>5, <1>8
<1> QED
  BY <1>2, <1>6, <1>7, <1>8, <1>9, DrawnIs

LEMMA DrawingIs ==
  ASSUME GraphicsInv, NEW shape \in {"fill", "frame"}, NEW r \in ScreenRects,
         NEW pattern \in ScreenPatterns, NEW mode \in Modes, Proper(shape, r),
         mem' = IF shape = "fill" THEN FillRect(mem, Screen, r, pattern, mode)
                ELSE FrameRect(mem, Screen, r, pattern, mode)
  PROVE  DrawnAs(Screen, [shape |-> shape, rect |-> r, pattern |-> pattern, mode |-> mode])
<1>1. r \in Rect /\ pattern \in Pattern /\ RectHeight(r) = r.bottom - r.top
  BY ScreenAssumption
<1>2. IsImage(Screen)
  BY ScreenIsImage DEF GraphicsInv, NativeOK
<1> QED
  BY <1>1, <1>2, RectIsDrawn

(* What the Toolbox fills and frames on the screen changes the pixels of    *)
(* the rectangle or of its border that are in the clip region, as the       *)
(* pattern and the mode say, and no other bit of memory.                    *)
THEOREM TheToolboxDrawsWithinTheClip == Spec => ScreenDrawsWithinClip
<1>1. Spec => []GraphicsInv
  BY GraphicsInit, GraphicsStep, PTL DEF Spec
<1>2. ASSUME GraphicsInv, Next
      PROVE  last'.op \in {"fill", "frame"} /\ Proper(last'.op, last'.rect) =>
               DrawnAs(Screen, [shape |-> last'.op, rect |-> last'.rect,
                                pattern |-> last'.pattern, mode |-> last'.mode])
  <2>1. SUFFICES ASSUME last'.op \in {"fill", "frame"}, Proper(last'.op, last'.rect)
                 PROVE  DrawnAs(Screen, [shape |-> last'.op, rect |-> last'.rect,
                                         pattern |-> last'.pattern, mode |-> last'.mode])
    OBVIOUS
  <2>2. ScreenNext
    BY <1>2, <2>1, PortOpsAre, DrawingOpsAre, RegionOpsAre, GeometryOpsAre
       DEF Next, QuickDrawNext, PortOps, DrawingOps, Shapes, RegionOps, GeometryOps
  <2>3. PICK r \in ScreenRects, pattern \in ScreenPatterns, mode \in Modes :
          ScreenFillRect(r, pattern, mode) \/ ScreenFrameRect(r, pattern, mode)
    BY <2>1, <2>2, ScreenOpsAre
  <2>4. CASE ScreenFillRect(r, pattern, mode)
    <3>1. /\ last' = [op |-> "fill", rect |-> r, pattern |-> pattern, mode |-> mode]
          /\ mem' = FillRect(mem, Screen, r, pattern, mode)
      BY <2>4 DEF ScreenFillRect, OnScreen, Call
    <3>2. last'.op = "fill" /\ last'.rect = r /\ last'.pattern = pattern /\ last'.mode = mode
      BY <3>1
    <3> QED
      BY <1>2, <2>1, <3>1, <3>2, DrawingIs
  <2>5. CASE ScreenFrameRect(r, pattern, mode)
    <3>1. /\ last' = [op |-> "frame", rect |-> r, pattern |-> pattern, mode |-> mode]
          /\ mem' = FrameRect(mem, Screen, r, pattern, mode)
      BY <2>5 DEF ScreenFrameRect, OnScreen, Call
    <3>2. last'.op = "frame" /\ last'.rect = r /\ last'.pattern = pattern /\ last'.mode = mode
      BY <3>1
    <3> QED
      BY <1>2, <2>1, <3>1, <3>2, DrawingIs
  <2> QED
    BY <2>3, <2>4, <2>5
<1> QED
  BY <1>1, <1>2, PTL DEF Spec, ScreenDrawsWithinClip
-----------------------------------------------------------------------------
(* Copying                                                                  *)
LEMMA QuotientOfNat ==
  ASSUME NEW n \in Nat, NEW w \in Nat \ {0}
  PROVE  n \div w \in Nat
<1>1. PICK q \in Int, t \in 0..(w - 1) : q = n \div w /\ n = w * q + t
  <2>1. n \div w \in Int /\ n % w \in 0..(w - 1) /\ n = w * (n \div w) + (n % w)
    BY Division
  <2> QED
    BY <2>1
<1>2. q <= -1 => w * q <= w * (-1)
  BY Monotone
<1>3. w * (-1) = -w /\ w * q \in Int
  OBVIOUS
<1> QED
  BY <1>1, <1>2, <1>3

LEMMA CopyMaskIs ==
  ASSUME NEW k \in Nat, NEW inset \in 0..(CHAR_BIT - 1), NEW length \in Nat, 0 < length,
         NEW b \in Bits, CHAR_BIT * k < inset + length
  PROVE  b \in CopyMask(k, inset, length)
           <=> inset <= CHAR_BIT * k + b /\ CHAR_BIT * k + b < inset + length
<1>1. CHAR_BIT \in Nat \ {0} /\ b \in Int /\ 0 <= b /\ b < CHAR_BIT /\ inset \in Nat
      /\ inset < CHAR_BIT
  BY BitmapAssumption DEF Bits
<1>2. PICK ck \in Int : ck = CHAR_BIT * k
  BY <1>1
<1>3. PICK first \in Nat, rest \in Nat :
        first = MIN(length, CHAR_BIT - inset) /\ rest = length - first
  <2>1. /\ MIN(length, CHAR_BIT - inset) \in Nat
        /\ length - MIN(length, CHAR_BIT - inset) \in Nat
    BY <1>1 DEF MIN
  <2> QED
    BY <2>1
<1>4. k >= 1 => ck >= CHAR_BIT
  <2>1. k >= 1 => CHAR_BIT * 1 <= CHAR_BIT * k
    BY <1>1, Monotone
  <2> QED
    BY <1>1, <1>2, <2>1
<1>5. CASE k = 0
  <2>1. ck = 0
    BY <1>1, <1>2, <1>5
  <2>2. CopyMask(k, inset, length) = Mask(inset) \ Mask(inset + first)
    <3>1. rest \div CHAR_BIT >= 0
      BY <1>1, QuotientOfNat
    <3> QED
      BY <1>1, <1>3, <1>5, <3>1 DEF CopyMask
  <2>3. b \in CopyMask(k, inset, length) <=> inset <= b /\ b < inset + first
    BY <1>1, <1>3, <2>2 DEF Mask
  <2>4. b < inset + first <=> b < inset + length
    BY <1>1, <1>3 DEF MIN
  <2> QED
    BY <1>1, <1>2, <2>1, <2>3, <2>4
<1>6. CASE k # 0
  <2>1. ck >= CHAR_BIT /\ inset + length = CHAR_BIT + rest /\ ck < CHAR_BIT + rest
    <3>1. length > CHAR_BIT - inset
      BY <1>1, <1>2, <1>4, <1>6
    <3> QED
      BY <1>1, <1>2, <1>3, <1>4, <1>6, <3>1 DEF MIN
  <2>2. PICK q \in Int, t \in 0..(CHAR_BIT - 1) :
          q = rest \div CHAR_BIT /\ t = rest % CHAR_BIT /\ rest = CHAR_BIT * q + t
    <3>1. /\ rest \div CHAR_BIT \in Int /\ rest % CHAR_BIT \in 0..(CHAR_BIT - 1)
          /\ rest = CHAR_BIT * (rest \div CHAR_BIT) + (rest % CHAR_BIT)
      BY <1>1, Division
    <3> QED
      BY <3>1
  <2>3. CopyMask(k, inset, length) = IF k <= q THEN Bits ELSE Bits \ Mask(t)
    BY <1>3, <1>6, <2>2 DEF CopyMask
  <2>4. PICK cq \in Int : cq = CHAR_BIT * q
    BY <1>1
  <2>5. CASE k <= q
    <3>1. ck <= cq
      BY <1>1, <1>2, <2>4, <2>5, Monotone
    <3> QED
      BY <1>1, <1>2, <2>1, <2>2, <2>3, <2>4, <2>5, <3>1
  <2>6. CASE k > q
    <3>1. cq + CHAR_BIT <= ck
      <4>1. CHAR_BIT * (q + 1) <= CHAR_BIT * k
        BY <1>1, <2>6, Monotone
      <4>2. CHAR_BIT * (q + 1) = CHAR_BIT * q + CHAR_BIT
        BY <1>1
      <4> QED
        BY <1>2, <2>4, <4>1, <4>2
    <3>2. k <= q + 1
      <4>1. q + 2 <= k => CHAR_BIT * (q + 2) <= CHAR_BIT * k
        BY <1>1, Monotone
      <4>2. CHAR_BIT * (q + 2) = CHAR_BIT * q + CHAR_BIT + CHAR_BIT
        BY <1>1
      <4> QED
        BY <1>1, <1>2, <2>1, <2>2, <2>4, <4>1, <4>2
    <3>3. ck = cq + CHAR_BIT
      <4>1. k = q + 1
        BY <2>6, <3>2
      <4>2. CHAR_BIT * (q + 1) = CHAR_BIT * q + CHAR_BIT
        BY <1>1
      <4> QED
        BY <1>2, <2>4, <4>1, <4>2
    <3>4. b \in CopyMask(k, inset, length) <=> b < t
      <4>1. CopyMask(k, inset, length) = Bits \ Mask(t) /\ t \in Int
        BY <1>1, <2>3, <2>6
      <4> QED
        BY <1>1, <4>1 DEF Mask
    <3> QED
      BY <1>1, <1>2, <2>1, <2>2, <2>4, <3>3, <3>4
  <2> QED
    BY <2>5, <2>6
<1> QED
  BY <1>5, <1>6

(* bit u of a buffer                                                        *)
BitAt(src, u, junk) == (u % CHAR_BIT) \in ByteAt(src, u \div CHAR_BIT, junk)

LEMMA BitInByte ==
  ASSUME NEW src, NEW junk, NEW i \in Int, NEW b \in Bits
  PROVE  BitAt(src, CHAR_BIT * i + b, junk) <=> b \in ByteAt(src, i, junk)
<1>1. CHAR_BIT \in Nat \ {0} /\ b \in 0..(CHAR_BIT - 1)
  BY BitmapAssumption DEF Bits
<1>2. PICK u \in Int : u = CHAR_BIT * i + b
  BY <1>1
<1>3. u \div CHAR_BIT = i /\ u % CHAR_BIT = b
  BY <1>1, <1>2, QuotientIs
<1> QED
  BY <1>2, <1>3 DEF BitAt

LEMMA BytesAreBits ==
  ASSUME NEW E, NEW src \in [E -> Byte], NEW junk \in Byte, NEW i
  PROVE  ByteAt(src, i, junk) \in SUBSET Bits
BY DEF ByteAt, Byte

(* two bytes shifted together                                               *)
LEMMA NeighboursAre ==
  ASSUME NEW E, NEW src \in [E -> Byte], NEW junk \in Byte, NEW i \in Int,
         NEW left \in 1..(CHAR_BIT - 1), NEW b \in Bits
  PROVE  b \in ShiftLeft(ByteAt(src, i, junk), left)
                 \cup ShiftRight(ByteAt(src, i + 1, junk), CHAR_BIT - left)
           <=> BitAt(src, CHAR_BIT * i + (b + left), junk)
<1>1. CHAR_BIT \in Nat \ {0} /\ b \in Int /\ 0 <= b /\ b < CHAR_BIT /\ left \in Int
  BY BitmapAssumption DEF Bits
<1>2. PICK lower, upper : lower = ByteAt(src, i, junk) /\ upper = ByteAt(src, i + 1, junk)
  OBVIOUS
<1>3. \A k : k \in lower \/ k \in upper => k \in Int /\ 0 <= k /\ k < CHAR_BIT
  BY <1>1, <1>2, BytesAreBits DEF Bits
<1>4. b \in ShiftLeft(lower, left) <=> b + left \in lower
  BY <1>1, <1>3 DEF ShiftLeft
<1>5. b \in ShiftRight(upper, CHAR_BIT - left) <=> b + left - CHAR_BIT \in upper
  <2>1. b \in ShiftRight(upper, CHAR_BIT - left)
          <=> \E k \in upper : k + (CHAR_BIT - left) < CHAR_BIT /\ b = k + (CHAR_BIT - left)
    BY DEF ShiftRight
  <2> QED
    BY <1>1, <1>3, <2>1
<1>6. CASE b + left < CHAR_BIT
  <2>1. b + left \in Bits
    BY <1>1, <1>6 DEF Bits
  <2>2. BitAt(src, CHAR_BIT * i + (b + left), junk) <=> b + left \in lower
    BY <1>2, <2>1, BitInByte
  <2>3. b + left - CHAR_BIT \notin upper
    BY <1>1, <1>3, <1>6
  <2> QED
    BY <1>2, <1>4, <1>5, <2>2, <2>3
<1>7. CASE b + left >= CHAR_BIT
  <2>1. PICK c \in Bits : c = b + left - CHAR_BIT
    BY <1>1, <1>7 DEF Bits
  <2>2. CHAR_BIT * i + (b + left) = CHAR_BIT * (i + 1) + c
    <3>1. CHAR_BIT * (i + 1) = CHAR_BIT * i + CHAR_BIT /\ CHAR_BIT * i \in Int
      BY <1>1
    <3> QED
      BY <1>1, <2>1, <3>1
  <2>3. BitAt(src, CHAR_BIT * (i + 1) + c, junk) <=> c \in upper
    <3>1. i + 1 \in Int
      OBVIOUS
    <3> QED
      BY <1>2, <3>1, BitInByte
  <2>4. b + left \notin lower
    BY <1>1, <1>3, <1>7
  <2> QED
    BY <1>2, <1>4, <1>5, <2>1, <2>2, <2>3, <2>4
<1> QED
  BY <1>1, <1>6, <1>7

(* the bits that are brought over a byte                                    *)
LEMMA ShiftedIs ==
  ASSUME NEW E, NEW src \in [E -> Byte], NEW junk \in Byte, NEW at \in Int, NEW k \in Nat,
         NEW src_inset \in 0..(CHAR_BIT - 1), NEW inset \in 0..(CHAR_BIT - 1), NEW b \in Bits,
         inset <= CHAR_BIT * k + b
  PROVE  b \in Shifted(src, at, src_inset, inset, k, junk)
           <=> BitAt(src, CHAR_BIT * at + src_inset + (CHAR_BIT * k + b - inset), junk)
<1>1. CHAR_BIT \in Nat \ {0} /\ b \in Int /\ 0 <= b /\ b < CHAR_BIT
      /\ src_inset \in Int /\ inset \in Int
      /\ 0 <= src_inset /\ src_inset < CHAR_BIT /\ 0 <= inset /\ inset < CHAR_BIT
  BY BitmapAssumption DEF Bits
<1>2. PICK left \in 0..(CHAR_BIT - 1) : left = (src_inset - inset) % CHAR_BIT
  <2>1. src_inset - inset \in Int
    BY <1>1
  <2> QED
    BY <1>1, <2>1, Division
<1>3. left = IF src_inset >= inset THEN src_inset - inset ELSE src_inset - inset + CHAR_BIT
  <2>1. src_inset >= inset => (src_inset - inset) % CHAR_BIT = src_inset - inset
    <3>1. src_inset >= inset => /\ src_inset - inset \in 0..(CHAR_BIT - 1)
                               /\ src_inset - inset = CHAR_BIT * 0 + (src_inset - inset)
      BY <1>1
    <3> QED
      BY <1>1, <3>1, QuotientIs
  <2>2. src_inset < inset => (src_inset - inset) % CHAR_BIT = src_inset - inset + CHAR_BIT
    <3>1. src_inset < inset =>
            /\ src_inset - inset + CHAR_BIT \in 0..(CHAR_BIT - 1)
            /\ src_inset - inset = CHAR_BIT * (-1) + (src_inset - inset + CHAR_BIT)
      BY <1>1
    <3> QED
      BY <1>1, <3>1, QuotientIs
  <2> QED
    BY <1>1, <1>2, <2>1, <2>2
<1>4. PICK u \in Int : u = CHAR_BIT * at + src_inset + (CHAR_BIT * k + b - inset)
  BY <1>1
<1>5. CHAR_BIT * (at + k) = CHAR_BIT * at + CHAR_BIT * k
      /\ CHAR_BIT * (at + k - 1) = CHAR_BIT * at + CHAR_BIT * k - CHAR_BIT
      /\ CHAR_BIT * at \in Int /\ CHAR_BIT * k \in Int
  BY <1>1
<1>6. at + k \in Int /\ at + k - 1 \in Int /\ (at + k - 1) + 1 = at + k
  OBVIOUS
<1>7. CASE src_inset = inset
  <2>1. left = 0
    BY <1>1, <1>3, <1>7
  <2>2. Shifted(src, at, src_inset, inset, k, junk) = ByteAt(src, at + k, junk)
    BY <1>1, <1>2, <1>7, <2>1 DEF Shifted
  <2>3. u = CHAR_BIT * (at + k) + b
    BY <1>1, <1>4, <1>5, <1>7
  <2> QED
    BY <1>4, <1>6, <2>2, <2>3, BitInByte
<1>8. CASE src_inset > inset
  <2>1. left \in 1..(CHAR_BIT - 1) /\ left = src_inset - inset
    BY <1>1, <1>3, <1>8
  <2>2. Shifted(src, at, src_inset, inset, k, junk)
        = ShiftLeft(ByteAt(src, at + k, junk), left)
            \cup ShiftRight(ByteAt(src, (at + k) + 1, junk), CHAR_BIT - left)
    BY <1>1, <1>2, <1>8, <2>1 DEF Shifted
  <2>3. u = CHAR_BIT * (at + k) + (b + left)
    BY <1>1, <1>4, <1>5, <2>1
  <2> QED
    BY <1>4, <1>6, <2>1, <2>2, <2>3, NeighboursAre
<1>9. CASE src_inset < inset
  <2>1. left \in 1..(CHAR_BIT - 1) /\ left = src_inset - inset + CHAR_BIT
    BY <1>1, <1>3, <1>9
  <2>2. u = CHAR_BIT * (at + k - 1) + (b + left)
    BY <1>1, <1>4, <1>5, <2>1
  <2>3. CASE k = 0
    <3>1. Shifted(src, at, src_inset, inset, k, junk)
          = ShiftRight(ByteAt(src, at, junk), CHAR_BIT - left)
      BY <1>1, <1>2, <1>9, <2>1, <2>3 DEF Shifted
    <3>2. (at + k - 1) + 1 = at /\ at + k - 1 \in Int
      BY <2>3
    <3>3. b \in ShiftLeft(ByteAt(src, at + k - 1, junk), left)
                  \cup ShiftRight(ByteAt(src, at, junk), CHAR_BIT - left)
            <=> BitAt(src, CHAR_BIT * (at + k - 1) + (b + left), junk)
      BY <2>1, <3>2, NeighboursAre
    <3>4. b \notin ShiftLeft(ByteAt(src, at + k - 1, junk), left)
      <4>1. SUFFICES ASSUME NEW c \in ByteAt(src, at + k - 1, junk), b = c - left
                     PROVE  FALSE
        BY DEF ShiftLeft
      <4>2. c \in Int /\ c < CHAR_BIT
        BY <1>1, <4>1, BytesAreBits DEF Bits
      <4>3. CHAR_BIT * k = 0
        BY <1>1, <2>3
      <4> QED
        BY <1>1, <2>1, <4>1, <4>2, <4>3
    <3> QED
      BY <1>4, <2>2, <3>1, <3>3, <3>4
  <2>4. CASE k # 0
    <3>1. Shifted(src, at, src_inset, inset, k, junk)
          = ShiftLeft(ByteAt(src, at + k - 1, junk), left)
              \cup ShiftRight(ByteAt(src, (at + k - 1) + 1, junk), CHAR_BIT - left)
      BY <1>1, <1>2, <1>9, <2>1, <2>4 DEF Shifted
    <3> QED
      BY <1>4, <1>6, <2>1, <2>2, <3>1, NeighboursAre
  <2> QED
    BY <2>3, <2>4
<1> QED
  BY <1>1, <1>7, <1>8, <1>9

(* bitarray_copy brings `length' bits over and leaves the others alone       *)
BitFrom(i, b, dst_at, dst_offset) == CHAR_BIT * (i - dst_at) + b - dst_offset

LEMMA BitarrayCopyIs ==
  ASSUME NEW D \in SUBSET Int, NEW m \in [D -> Byte], NEW E, NEW src \in [E -> Byte],
         NEW junk \in Byte, NEW src_at \in Int, NEW src_offset \in Int, NEW length \in Nat,
         0 < length, NEW dst_at \in Int, NEW dst_offset \in Int, NEW i \in D, NEW b \in Bits
  PROVE  b \in BitarrayCopy(src, src_at, src_offset, length, m, dst_at, dst_offset, junk)[i]
           <=> IF 0 <= BitFrom(i, b, dst_at, dst_offset) /\ BitFrom(i, b, dst_at, dst_offset) < length
               THEN BitAt(src, CHAR_BIT * src_at + src_offset + BitFrom(i, b, dst_at, dst_offset), junk)
               ELSE b \in m[i]
<1>1. CHAR_BIT \in Nat \ {0} /\ b \in Int /\ 0 <= b /\ b < CHAR_BIT
  BY BitmapAssumption DEF Bits
<1>2. PICK qd \in Int, inset \in 0..(CHAR_BIT - 1) :
        /\ qd = dst_offset \div CHAR_BIT /\ inset = dst_offset % CHAR_BIT
        /\ dst_offset = CHAR_BIT * qd + inset
  <2>1. /\ dst_offset \div CHAR_BIT \in Int /\ dst_offset % CHAR_BIT \in 0..(CHAR_BIT - 1)
        /\ dst_offset = CHAR_BIT * (dst_offset \div CHAR_BIT) + (dst_offset % CHAR_BIT)
    BY <1>1, Division
  <2> QED
    BY <2>1
<1>3. PICK qs \in Int, turn \in 0..(CHAR_BIT - 1) :
        /\ qs = src_offset \div CHAR_BIT /\ turn = src_offset % CHAR_BIT
        /\ src_offset = CHAR_BIT * qs + turn
  <2>1. /\ src_offset \div CHAR_BIT \in Int /\ src_offset % CHAR_BIT \in 0..(CHAR_BIT - 1)
        /\ src_offset = CHAR_BIT * (src_offset \div CHAR_BIT) + (src_offset % CHAR_BIT)
    BY <1>1, Division
  <2> QED
    BY <2>1
<1>4. inset \in Int /\ 0 <= inset /\ inset < CHAR_BIT /\ inset \in Nat
      /\ turn \in Int /\ 0 <= turn /\ turn < CHAR_BIT
  BY <1>1, <1>2, <1>3
<1>5. PICK first \in Int, at \in Int : first = dst_at + qd /\ at = src_at + qs
  BY <1>2, <1>3
<1>6. PICK L \in Int, cl \in Int : /\ L = PixelWidthToBytes(inset + length) /\ cl = CHAR_BIT * L
                                   /\ inset + length <= cl /\ cl < inset + length + CHAR_BIT
  <2>1. inset + length \in Int
    BY <1>4
  <2>2. PixelWidthToBytes(inset + length) \in Int
    BY <2>1, PixelWidthType
  <2>3. CHAR_BIT * PixelWidthToBytes(inset + length) \in Int
    BY <1>1, <2>2
  <2> QED
    BY <2>1, <2>2, <2>3, BytesOf
<1>7. PICK k \in Int, ck \in Int : k = i - first /\ ck = CHAR_BIT * k
  <2>1. i - first \in Int /\ CHAR_BIT * (i - first) \in Int
    BY <1>1, <1>5
  <2> QED
    BY <2>1
<1>8. PICK t \in Int : t = BitFrom(i, b, dst_at, dst_offset) /\ t = ck + b - inset
  <2>1. i - dst_at = k + qd
    <3>1. i \in Int /\ qd \in Int
      BY <1>2
    <3>2. first \in Int /\ first = dst_at + qd /\ k = i - first
      BY <1>5, <1>7
    <3> QED
      BY <3>1, <3>2
  <2>2. CHAR_BIT * (k + qd) = ck + CHAR_BIT * qd /\ CHAR_BIT * qd \in Int
    BY <1>1, <1>2, <1>7
  <2>3. ck + b - inset \in Int
        /\ BitFrom(i, b, dst_at, dst_offset) = CHAR_BIT * (k + qd) + b - dst_offset
    BY <1>1, <1>4, <2>1 DEF BitFrom
  <2>4. CHAR_BIT * (k + qd) + b - dst_offset = ck + b - inset
    BY <1>1, <1>2, <1>4, <2>2
  <2> QED
    BY <2>3, <2>4
<1>9. PICK m2 : m2 = BitarrayCopy(src, src_at, src_offset, length, m, dst_at, dst_offset, junk)
  OBVIOUS
<1>10. m2[i] = IF i \in first..(first + L - 1)
               THEN (m[i] \ CopyMask(k, inset, length))
                    \cup (Shifted(src, at, turn, inset, k, junk) \cap CopyMask(k, inset, length))
               ELSE m[i]
  <2>1. m2 = [j \in D |-> IF j \in first..(first + L - 1)
                          THEN (m[j] \ CopyMask(j - first, inset, length))
                               \cup (Shifted(src, at, turn, inset, j - first, junk)
                                     \cap CopyMask(j - first, inset, length))
                          ELSE m[j]]
    BY <1>2, <1>3, <1>5, <1>6, <1>9 DEF BitarrayCopy
  <2> QED
    BY <1>7, <2>1
<1>11. CASE i \in first..(first + L - 1)
  <2>1. k \in Nat /\ k <= L - 1
    BY <1>5, <1>6, <1>7, <1>11
  <2>2. ck < inset + length
    <3>1. CHAR_BIT * k <= CHAR_BIT * (L - 1)
      BY <1>1, <1>6, <2>1, Monotone
    <3>2. CHAR_BIT * (L - 1) = cl - CHAR_BIT
      BY <1>1, <1>6
    <3> QED
      BY <1>1, <1>4, <1>6, <1>7, <3>1, <3>2
  <2>3. b \in CopyMask(k, inset, length) <=> 0 <= t /\ t < length
    <3>1. b \in CopyMask(k, inset, length)
            <=> inset <= CHAR_BIT * k + b /\ CHAR_BIT * k + b < inset + length
      BY <1>2, <1>7, <2>1, <2>2, CopyMaskIs
    <3> QED
      BY <1>1, <1>4, <1>7, <1>8, <3>1
  <2>4. 0 <= t => (b \in Shifted(src, at, turn, inset, k, junk)
                     <=> BitAt(src, CHAR_BIT * src_at + src_offset + t, junk))
    <3>1. 0 <= t => inset <= CHAR_BIT * k + b
      BY <1>1, <1>4, <1>7, <1>8
    <3>2. 0 <= t => (b \in Shifted(src, at, turn, inset, k, junk)
                       <=> BitAt(src, CHAR_BIT * at + turn + (CHAR_BIT * k + b - inset), junk))
      BY <1>2, <1>3, <1>5, <2>1, <3>1, ShiftedIs
    <3>3. CHAR_BIT * at + turn + (CHAR_BIT * k + b - inset)
          = CHAR_BIT * src_at + src_offset + t
      <4>1. CHAR_BIT * at = CHAR_BIT * src_at + CHAR_BIT * qs
            /\ CHAR_BIT * src_at \in Int /\ CHAR_BIT * qs \in Int
        <5>1. CHAR_BIT * (src_at + qs) = CHAR_BIT * src_at + CHAR_BIT * qs
              /\ CHAR_BIT * src_at \in Int /\ CHAR_BIT * qs \in Int
          BY <1>1, <1>3
        <5> QED
          BY <1>5, <5>1
      <4> QED
        BY <1>1, <1>3, <1>4, <1>7, <1>8, <4>1
    <3> QED
      BY <3>2, <3>3
  <2> QED
    BY <1>8, <1>9, <1>10, <1>11, <2>3, <2>4
<1>12. CASE i \notin first..(first + L - 1)
  <2>1. k < 0 \/ k >= L
    BY <1>5, <1>6, <1>7, <1>12
  <2>2. k < 0 => t < 0
    <3>1. k < 0 => CHAR_BIT * k <= CHAR_BIT * (-1)
      <4>1. k < 0 => k <= -1
        OBVIOUS
      <4> QED
        BY <1>1, <4>1, Monotone
    <3>2. CHAR_BIT * (-1) = -CHAR_BIT
      BY <1>1
    <3> QED
      BY <1>1, <1>4, <1>7, <1>8, <3>1, <3>2
  <2>3. k >= L => t >= length
    <3>1. L <= k => CHAR_BIT * L <= CHAR_BIT * k
      BY <1>1, <1>6, <1>7, Monotone
    <3> QED
      BY <1>1, <1>4, <1>6, <1>7, <1>8, <3>1
  <2> QED
    BY <1>8, <1>9, <1>10, <1>12, <2>1, <2>2, <2>3
<1> QED
  BY <1>8, <1>11, <1>12

(* CopyBits brings the pixels that are 1 in the source                      *)
Carried(src, src_width, src_rect, dst_rect, junk) ==
  {p \in Int \X Int :
     BitAt(src, CHAR_BIT * (PixelWidthToBytes(src_width) * (p[2] - dst_rect.top + src_rect.top))
                  + (src_rect.left + (p[1] - dst_rect.left)), junk)}

LEMMA CopyPixelsPaint ==
  ASSUME NEW D \in SUBSET Int, NEW m \in [D -> Byte], NEW img, IsImage(img), NEW E,
         NEW src \in [E -> Byte], NEW junk \in Byte, NEW src_width \in Int, NEW src_rect,
         Sided(src_rect), NEW dst_rect, Sided(dst_rect), NEW y \in Nat,
         NEW start \in Int, NEW end \in Int, 0 <= start, start < end, end <= img.width
  PROVE  Paints(D, m, BitarrayCopy(src, PixelWidthToBytes(src_width)
                                          * (y - dst_rect.top + src_rect.top),
                                   src_rect.left + (start - dst_rect.left), end - start,
                                   m, img.base + PixelWidthToBytes(img.width) * y, start, junk),
                img, (start..end - 1) \X {y}, Carried(src, src_width, src_rect, dst_rect, junk),
                "Copy")
<1>1. CHAR_BIT \in Nat \ {0} /\ img.base \in Int /\ img.width \in Int /\ 0 < img.width
  <2>1. img.width \in Int
    BY DEF IsImage
  <2> QED
    BY <2>1, BitmapAssumption DEF IsImage
<1>2. src_rect.top \in Int /\ src_rect.left \in Int /\ dst_rect.top \in Int /\ dst_rect.left \in Int
  BY DEF Sided
<1>3. PICK v \in Int : v = PixelWidthToBytes(src_width)
  BY PixelWidthType
<1>4. PICK z \in Int : z = y - dst_rect.top + src_rect.top
  BY <1>2
<1>5. PICK src_at \in Int : src_at = v * z
  BY <1>3, <1>4
<1>6. PICK src_offset \in Int : src_offset = src_rect.left + (start - dst_rect.left)
  BY <1>2
<1>7. PICK w \in Int : w = PixelWidthToBytes(img.width)
  BY <1>1, PixelWidthType
<1>8. PICK dst_at \in Int : dst_at = img.base + w * y
  BY <1>1, <1>7
<1>9. PICK length \in Nat : length = end - start /\ 0 < length
  OBVIOUS
<1>10. PICK m2 : m2 = BitarrayCopy(src, src_at, src_offset, length, m, dst_at, start, junk)
  OBVIOUS
<1>11. PICK ink : ink = Carried(src, src_width, src_rect, dst_rect, junk)
  OBVIOUS
<1>12. m2 \in [D -> Byte]
  BY <1>10, BitarrayCopyType
<1>13. ASSUME NEW i \in D, NEW b \in Bits
       PROVE  b \in m2[i] <=> IF i >= img.base /\ Pixel(img, i, b) \in (start..end - 1) \X {y}
                              THEN Becomes("Copy", m[i], b, Pixel(img, i, b), ink) ELSE b \in m[i]
  <2>1. PICK pos \in Int : pos = FromRow(img, y, i, b)
    <3>1. FromRow(img, y, i, b) \in Int
      BY <1>1, PlaceInRow
    <3> QED
      BY <3>1
  <2>2. i >= img.base /\ Pixel(img, i, b) \in (start..end - 1) \X {y}
          <=> start <= pos /\ pos < end
    <3>1. i >= img.base /\ RowOf(img, i) = y => ColumnOf(img, i, b) = pos
      BY <1>1, <2>1, PlaceInRow
    <3>2. 0 <= pos /\ pos < img.width => i >= img.base /\ RowOf(img, i) = y
      BY <1>1, <2>1, PlaceInRow
    <3>3. Pixel(img, i, b) \in (start..end - 1) \X {y}
            <=> ColumnOf(img, i, b) \in start..end - 1 /\ RowOf(img, i) = y
      BY DEF Pixel
    <3> QED
      BY <1>1, <3>1, <3>2, <3>3
  <2>3. pos = CHAR_BIT * (i - dst_at) + b
    <3>1. i - img.base - w * y = i - dst_at
      <4>1. PICK wy \in Int : wy = w * y
        BY <1>7
      <4>2. i \in Int
        OBVIOUS
      <4> QED
        BY <1>1, <1>8, <4>1, <4>2
    <3> QED
      BY <1>7, <2>1, <3>1 DEF FromRow
  <2>4. PICK t \in Int : t = pos - start
    OBVIOUS
  <2>5. t = CHAR_BIT * (i - dst_at) + b - start
    <3>1. CHAR_BIT * (i - dst_at) \in Int /\ b \in Int
      <4>1. i - dst_at \in Int
        OBVIOUS
      <4> QED
        BY <1>1, <4>1 DEF Bits
    <3> QED
      BY <2>3, <2>4, <3>1
  <2>6. b \in m2[i] <=> IF 0 <= t /\ t < length
                        THEN BitAt(src, CHAR_BIT * src_at + src_offset + t, junk)
                        ELSE b \in m[i]
    <3>1. b \in BitarrayCopy(src, src_at, src_offset, length, m, dst_at, start, junk)[i]
            <=> IF 0 <= t /\ t < length THEN BitAt(src, CHAR_BIT * src_at + src_offset + t, junk)
                ELSE b \in m[i]
      <4>1. t = BitFrom(i, b, dst_at, start)
        BY <2>5 DEF BitFrom
      <4>2. 0 < length
        BY <1>9
      <4>3. b \in BitarrayCopy(src, src_at, src_offset, length, m, dst_at, start, junk)[i]
            <=> IF 0 <= BitFrom(i, b, dst_at, start) /\ BitFrom(i, b, dst_at, start) < length
                THEN BitAt(src, CHAR_BIT * src_at + src_offset + BitFrom(i, b, dst_at, start), junk)
                ELSE b \in m[i]
        BY <4>2, BitarrayCopyIs
      <4> QED
        BY <4>1, <4>3
    <3> QED
      BY <1>10, <3>1
  <2>7. 0 <= t /\ t < length <=> start <= pos /\ pos < end
    BY <1>9, <2>4
  <2>8. CASE start <= pos /\ pos < end
    <3>1. Pixel(img, i, b) = <<pos, y>>
      BY <1>1, <2>1, <2>2, <2>8, PlaceInRow DEF Pixel
    <3>2. <<pos, y>> \in ink
            <=> BitAt(src, CHAR_BIT * src_at + (src_rect.left + (pos - dst_rect.left)), junk)
      BY <1>3, <1>4, <1>5, <1>11 DEF Carried
    <3>3. CHAR_BIT * src_at + src_offset + t
          = CHAR_BIT * src_at + (src_rect.left + (pos - dst_rect.left))
      <4>1. PICK u \in Int : u = CHAR_BIT * src_at
        BY <1>1
      <4> QED
        BY <1>2, <1>6, <2>4, <4>1
    <3> QED
      BY <2>2, <2>6, <2>7, <2>8, <3>1, <3>2, <3>3 DEF Becomes
  <2>9. CASE ~(start <= pos /\ pos < end)
    BY <2>2, <2>6, <2>7, <2>9
  <2> QED
    BY <2>8, <2>9
<1>14. Paints(D, m, m2, img, (start..end - 1) \X {y}, ink, "Copy")
  BY <1>12, <1>13 DEF Paints
<1> QED
  BY <1>3, <1>4, <1>5, <1>6, <1>7, <1>8, <1>9, <1>10, <1>11, <1>14

LEMMA CopyPartPaint ==
  ASSUME NEW D \in SUBSET Int, NEW m \in [D -> Byte], NEW img, IsImage(img), NEW E,
         NEW src \in [E -> Byte], NEW junk \in Byte, NEW src_width \in Int, NEW src_rect,
         Sided(src_rect), NEW dst_rect, Sided(dst_rect), NEW y \in Int,
         NEW range \in Ranges(Scanline(img, y))
  PROVE  Paints(D, m, CopyPart(m, img, src, src_width, src_rect, dst_rect, junk, y, range), img,
                {p \in InRow(img, y, dst_rect.left, dst_rect.right) :
                   range.start <= p[1] /\ p[1] < range.end},
                Carried(src, src_width, src_rect, dst_rect, junk), "Copy")
<1>1. /\ range.start \in Int /\ range.end \in Int
      /\ \A x \in Int : range.start <= x /\ x < range.end => x \in Scanline(img, y)
  BY ScanlineIs, RangesPartition DEF IsImage
<1>2. \A x : x \in Scanline(img, y) => <<x, y>> \in img.clip /\ x \in 0..img.width-1
  BY ScanlineIs
<1>3. PICK Q : Q = {p \in InRow(img, y, dst_rect.left, dst_rect.right) :
                      range.start <= p[1] /\ p[1] < range.end}
  OBVIOUS
<1>4. PICK left \in Int, right \in Int : left = dst_rect.left /\ right = dst_rect.right
  BY DEF Sided
<1>5. PICK s \in Int, e \in Int : s = MAX(range.start, left) /\ e = MIN(range.end, right)
  BY <1>1 DEF MAX, MIN
<1>6. \A x \in Int : s <= x /\ x < e <=>
        left <= x /\ x < right /\ range.start <= x /\ x < range.end
  BY <1>1, <1>5 DEF MAX, MIN
<1>7. \A p : p \in Q <=> \E x \in Int : p = <<x, y>> /\ s <= x /\ x < e
  <2>1. ASSUME NEW p \in Q
        PROVE  \E x \in Int : p = <<x, y>> /\ s <= x /\ x < e
    BY <1>3, <1>4, <1>6, <2>1, ClipPixels DEF InRow
  <2>2. ASSUME NEW x \in Int, s <= x, x < e
        PROVE  <<x, y>> \in Q
    <3>1. <<x, y>> \in img.clip /\ left <= x /\ x < right /\ range.start <= x /\ x < range.end
      BY <1>1, <1>2, <1>6, <2>2
    <3> QED
      BY <1>3, <1>4, <3>1 DEF InRow
  <2> QED
    BY <2>1, <2>2
<1>8. PICK ink : ink = Carried(src, src_width, src_rect, dst_rect, junk)
  OBVIOUS
<1>9. CASE s >= e
  <2>1. Q = {}
    BY <1>7, <1>9
  <2>2. CopyPart(m, img, src, src_width, src_rect, dst_rect, junk, y, range) = m
    BY <1>4, <1>5, <1>9 DEF CopyPart
  <2>3. Paints(D, m, m, img, Q, ink, "Copy")
    BY <2>1, PaintsNothing
  <2> QED
    BY <1>3, <1>8, <2>2, <2>3
<1>10. CASE s < e
  <2>1. PICK m2 : m2 = BitarrayCopy(src, PixelWidthToBytes(src_width)
                                          * (y - dst_rect.top + src_rect.top),
                                   src_rect.left + (s - dst_rect.left), e - s,
                                   m, img.base + PixelWidthToBytes(img.width) * y, s, junk)
    OBVIOUS
  <2>2. CopyPart(m, img, src, src_width, src_rect, dst_rect, junk, y, range) = m2
    BY <1>4, <1>5, <1>10, <2>1 DEF CopyPart
  <2>3. s \in Scanline(img, y) /\ e - 1 \in Scanline(img, y)
    BY <1>1, <1>6, <1>10
  <2>4. 0 <= s /\ e <= img.width
    <3>1. s \in 0..img.width-1 /\ e - 1 \in 0..img.width-1
      BY <1>2, <2>3
    <3>2. img.width \in Int
      BY DEF IsImage
    <3> QED
      BY <3>1, <3>2
  <2>5. y \in Nat
    <3>1. <<s, y>> \in img.clip
      BY <1>2, <2>3
    <3>2. <<s, y>>[2] \in 0..img.height-1
      BY <3>1, ClipPixels
    <3> QED
      BY <3>2
  <2>6. Q = (s..e - 1) \X {y}
    <3>1. \A p : p \in (s..e - 1) \X {y} <=> \E x \in Int : p = <<x, y>> /\ s <= x /\ x < e
      OBVIOUS
    <3> QED
      BY <1>7, <3>1
  <2>7. Paints(D, m, BitarrayCopy(src, PixelWidthToBytes(src_width)
                                          * (y - dst_rect.top + src_rect.top),
                                   src_rect.left + (s - dst_rect.left), e - s,
                                   m, img.base + PixelWidthToBytes(img.width) * y, s, junk),
               img, (s..e - 1) \X {y}, Carried(src, src_width, src_rect, dst_rect, junk), "Copy")
    BY <1>10, <2>4, <2>5, CopyPixelsPaint
  <2>8. Paints(D, m, m2, img, Q, ink, "Copy")
    BY <1>8, <2>1, <2>6, <2>7
  <2> QED
    BY <1>3, <1>8, <2>2, <2>8
<1> QED
  BY <1>9, <1>10

LEMMA CopyRowPaint ==
  ASSUME NEW D \in SUBSET Int, NEW m \in [D -> Byte], NEW img, IsImage(img), NEW E,
         NEW src \in [E -> Byte], NEW junk \in Byte, NEW src_width \in Int, NEW src_rect,
         Sided(src_rect), NEW dst_rect, Sided(dst_rect), NEW y \in Int
  PROVE  Paints(D, m, CopyRow(m, img, src, src_width, src_rect, dst_rect, junk, y), img,
                InRow(img, y, dst_rect.left, dst_rect.right),
                Carried(src, src_width, src_rect, dst_rect, junk), "Copy")
<1> DEFINE columns == Scanline(img, y)
<1>1. columns \in SUBSET (0..img.width-1) /\ IsFiniteSet(Ranges(columns))
  BY ScanlineIs
<1>2. PICK list : list = SetToSeq(Ranges(columns))
  OBVIOUS
<1>3. PICK n \in Nat : /\ DOMAIN list = 1..n /\ \A k \in 1..n : list[k] \in Ranges(columns)
                       /\ \A j, k \in 1..n : list[j] = list[k] => j = k
                       /\ \A range \in Ranges(columns) : \E k \in 1..n : list[k] = range
  BY <1>1, <1>2, ListOfSet
<1>4. PICK loop : loop = [kind |-> "parts", img |-> img, src |-> src, src_width |-> src_width,
                          src_rect |-> src_rect, dst_rect |-> dst_rect, junk |-> junk,
                          y |-> y, list |-> list]
  OBVIOUS
<1>5. PICK h : Runs(h, loop, n, m)
               /\ CopyRow(m, img, src, src_width, src_rect, dst_rect, junk, y) = h[n]
  BY <1>2, <1>3, <1>4, PartsLoop
<1>6. PICK row : row = InRow(img, y, dst_rect.left, dst_rect.right)
  OBVIOUS
<1>7. PICK parts : parts = [k \in 1..n |-> {p \in row : list[k].start <= p[1]
                                                        /\ p[1] < list[k].end}]
  OBVIOUS
<1>8. PICK ink : ink = Carried(src, src_width, src_rect, dst_rect, junk)
  OBVIOUS
<1>9. h[0] = m
  BY <1>5 DEF Runs
<1>10. ASSUME NEW k \in 1..n, h[k - 1] \in [D -> Byte]
       PROVE  Paints(D, h[k - 1], h[k], img, parts[k], ink, "Copy")
  <2>1. h[k] = CopyPart(h[k - 1], img, src, src_width, src_rect, dst_rect, junk, y, list[k])
    BY <1>4, <1>5 DEF Runs, LoopStep
  <2>2. list[k] \in Ranges(columns)
    BY <1>3
  <2>3. parts[k] = {p \in InRow(img, y, dst_rect.left, dst_rect.right) :
                      list[k].start <= p[1] /\ p[1] < list[k].end}
    BY <1>6, <1>7
  <2>4. Paints(D, h[k - 1],
               CopyPart(h[k - 1], img, src, src_width, src_rect, dst_rect, junk, y, list[k]), img,
               {p \in InRow(img, y, dst_rect.left, dst_rect.right) :
                  list[k].start <= p[1] /\ p[1] < list[k].end},
               Carried(src, src_width, src_rect, dst_rect, junk), "Copy")
    BY <1>10, <2>2, CopyPartPaint
  <2> QED
    BY <1>8, <2>1, <2>3, <2>4
<1>11. ASSUME NEW j \in 1..n, NEW k \in 1..n, j < k
       PROVE  parts[j] \cap parts[k] = {}
  <2>1. SUFFICES ASSUME NEW p \in parts[j], p \in parts[k] PROVE FALSE
    OBVIOUS
  <2>2. /\ p \in row
        /\ list[j].start <= p[1] /\ p[1] < list[j].end
        /\ list[k].start <= p[1] /\ p[1] < list[k].end
    BY <1>7, <2>1
  <2>3. PICK x \in Int : x = p[1]
    BY <1>6, <2>2, ClipPixels DEF InRow
  <2>4. PICK s1 \in Ranges(columns), s2 \in Ranges(columns) : s1 = list[j] /\ s2 = list[k]
    BY <1>3
  <2>5. s1.start <= x /\ x < s1.end /\ s2.start <= x /\ x < s2.end
    BY <2>2, <2>3, <2>4
  <2>6. s1 = s2
    <3>1. img.width \in Int
      BY DEF IsImage
    <3> QED
      BY <1>1, <2>5, <3>1, RangesPartition
  <2>7. j = k
    BY <1>3, <2>4, <2>6
  <2> QED
    BY <1>11, <2>7
<1>12. UNION {parts[k] : k \in 1..n} = row
  <2>1. ASSUME NEW p \in row
        PROVE  \E k \in 1..n : p \in parts[k]
    <3>1. p[1] \in columns
      BY <1>6, ClipPixels, ScanlineIs DEF InRow
    <3>2. img.width \in Int
      BY DEF IsImage
    <3>3. PICK range \in Ranges(columns) : range.start <= p[1] /\ p[1] < range.end
      BY <1>1, <3>1, <3>2, RangesPartition
    <3>4. PICK k \in 1..n : list[k] = range
      BY <1>3
    <3> QED
      BY <1>7, <3>3, <3>4
  <2>2. \A k \in 1..n : parts[k] \subseteq row
    BY <1>7
  <2> QED
    BY <2>1, <2>2
<1>13. \A k \in 1..n : h[k - 1] \in [D -> Byte] =>
                          Paints(D, h[k - 1], h[k], img, parts[k], ink, "Copy")
  BY <1>10
<1>14. \A j, k \in 1..n : j < k => parts[j] \cap parts[k] = {}
  BY <1>11
<1>15. Paints(D, h[0], h[n], img, row, ink, "Copy")
  BY <1>9, <1>12, <1>13, <1>14, PaintsMany
<1> QED
  BY <1>5, <1>6, <1>8, <1>9, <1>15

LEMMA CopyBitsPaint ==
  ASSUME NEW D \in SUBSET Int, NEW m \in [D -> Byte], NEW img, IsImage(img), NEW E,
         NEW src \in [E -> Byte], NEW junk \in Byte, NEW src_width \in Int, NEW src_rect,
         Sided(src_rect), NEW dst_rect, Sided(dst_rect)
  PROVE  Paints(D, m, CopyBits(m, img, src, src_width, src_rect, dst_rect, junk), img,
                {p \in img.clip : InRect(dst_rect, p[1], p[2])},
                Carried(src, src_width, src_rect, dst_rect, junk), "Copy")
<1>1. PICK rows : rows = RowsOf(img, dst_rect)
  OBVIOUS
<1>2. rows \in SUBSET Int /\ IsFiniteSet(rows)
  <2>1. rows \in SUBSET ClipRows(img)
    BY <1>1 DEF RowsOf
  <2>2. IsFiniteSet(rows)
    BY <2>1, ClipRowsAre, FS_Subset
  <2>3. ClipRows(img) \in SUBSET (0..img.height-1) /\ 0..img.height-1 \subseteq Int
    BY ClipRowsAre DEF IsImage
  <2> QED
    BY <2>1, <2>2, <2>3
<1>3. PICK list : list = SetToSeq(rows)
  OBVIOUS
<1>4. PICK n \in Nat : /\ DOMAIN list = 1..n /\ \A k \in 1..n : list[k] \in rows
                       /\ \A j, k \in 1..n : list[j] = list[k] => j = k
                       /\ \A y \in rows : \E k \in 1..n : list[k] = y
  BY <1>2, <1>3, ListOfSet
<1>5. PICK loop : loop = [kind |-> "copy", img |-> img, src |-> src, src_width |-> src_width,
                          src_rect |-> src_rect, dst_rect |-> dst_rect, junk |-> junk,
                          list |-> list]
  OBVIOUS
<1>6. PICK h : Runs(h, loop, n, m)
               /\ CopyBits(m, img, src, src_width, src_rect, dst_rect, junk) = h[n]
  BY <1>1, <1>3, <1>4, <1>5, CopyLoop
<1>7. PICK P : P = {p \in img.clip : InRect(dst_rect, p[1], p[2])}
  OBVIOUS
<1>8. PICK parts : parts = [k \in 1..n |-> InRow(img, list[k], dst_rect.left, dst_rect.right)]
  OBVIOUS
<1>9. PICK ink : ink = Carried(src, src_width, src_rect, dst_rect, junk)
  OBVIOUS
<1>10. h[0] = m
  BY <1>6 DEF Runs
<1>11. ASSUME NEW k \in 1..n, h[k - 1] \in [D -> Byte]
       PROVE  Paints(D, h[k - 1], h[k], img, parts[k], ink, "Copy")
  <2>1. h[k] = CopyRow(h[k - 1], img, src, src_width, src_rect, dst_rect, junk, list[k])
    BY <1>5, <1>6 DEF Runs, LoopStep
  <2>2. list[k] \in Int
    BY <1>2, <1>4
  <2>3. parts[k] = InRow(img, list[k], dst_rect.left, dst_rect.right)
    BY <1>8
  <2>4. Paints(D, h[k - 1],
               CopyRow(h[k - 1], img, src, src_width, src_rect, dst_rect, junk, list[k]), img,
               InRow(img, list[k], dst_rect.left, dst_rect.right),
               Carried(src, src_width, src_rect, dst_rect, junk), "Copy")
    BY <1>11, <2>2, CopyRowPaint
  <2> QED
    BY <1>9, <2>1, <2>3, <2>4
<1>12. ASSUME NEW j \in 1..n, NEW k \in 1..n, j < k
       PROVE  parts[j] \cap parts[k] = {}
  <2>1. list[j] # list[k]
    BY <1>4, <1>12
  <2> QED
    BY <1>8, <2>1 DEF InRow
<1>13. UNION {parts[k] : k \in 1..n} = P
  <2>1. ASSUME NEW k \in 1..n, NEW p \in parts[k]
        PROVE  p \in P
    <3>1. p \in InRow(img, list[k], dst_rect.left, dst_rect.right)
      BY <1>8, <2>1
    <3>2. dst_rect.top <= list[k] /\ list[k] < dst_rect.bottom
      BY <1>1, <1>4 DEF RowsOf
    <3> QED
      BY <1>7, <3>1, <3>2 DEF InRow, InRect
  <2>2. ASSUME NEW p \in P
        PROVE  \E k \in 1..n : p \in parts[k]
    <3>1. /\ p \in img.clip /\ dst_rect.left <= p[1] /\ p[1] < dst_rect.right
          /\ dst_rect.top <= p[2] /\ p[2] < dst_rect.bottom
      BY <1>7, <2>2 DEF InRect
    <3>2. p[2] \in rows
      BY <1>1, <3>1 DEF RowsOf, ClipRows
    <3>3. PICK k \in 1..n : list[k] = p[2]
      BY <1>4, <3>2
    <3> QED
      BY <1>8, <3>1, <3>3 DEF InRow
  <2> QED
    BY <2>1, <2>2
<1>14. \A k \in 1..n : h[k - 1] \in [D -> Byte] =>
                          Paints(D, h[k - 1], h[k], img, parts[k], ink, "Copy")
  BY <1>11
<1>15. \A j, k \in 1..n : j < k => parts[j] \cap parts[k] = {}
  BY <1>12
<1>16. Paints(D, h[0], h[n], img, P, ink, "Copy")
  BY <1>10, <1>13, <1>14, <1>15, PaintsMany
<1> QED
  BY <1>6, <1>7, <1>9, <1>10, <1>16

-----------------------------------------------------------------------------
(* Pop-up menus: the pixels they cover are kept, and put back.               *)

(* A rectangle with a border, whose sizes are 16 bits wide.                  *)
Fits(r) ==
  /\ RectWidth(r) = r.right - r.left /\ RectHeight(r) = r.bottom - r.top
  /\ RectWidth(r) >= 2 /\ RectHeight(r) >= 2

(* such a rectangle moved to the origin                                      *)
LEMMA Normalized ==
  ASSUME NEW r \in Rect, Fits(r)
  PROVE  /\ NormalizeRect(r) = [top |-> 0, left |-> 0, bottom |-> RectHeight(r),
                                right |-> RectWidth(r)]
         /\ Sided(r) /\ Sided(NormalizeRect(r))
         /\ RectWidth(r) \in Nat /\ RectHeight(r) \in Nat
<1>1. Sided(r)
  BY RectsAreSided
<1>2. r.top \in Int /\ r.left \in Int /\ r.bottom \in Int /\ r.right \in Int
  BY <1>1 DEF Sided
<1>3. r.right - r.left \in Int /\ r.bottom - r.top \in Int
  BY <1>2
<1>4. RectWidth(r) \in Coordinates /\ RectHeight(r) \in Coordinates
  BY <1>3, Int16Is DEF RectWidth, RectHeight
<1>5. RectWidth(r) \in Nat /\ RectHeight(r) \in Nat
  BY <1>2, <1>3 DEF Fits
<1>6. /\ Int16(0) = 0 /\ Int16(RectWidth(r)) = RectWidth(r)
      /\ Int16(RectHeight(r)) = RectHeight(r)
  BY <1>4, <1>5, Int16Is, CoordinatesAreInt
<1>7. /\ r.top + -r.top = 0 /\ r.left + -r.left = 0
      /\ r.bottom + -r.top = RectHeight(r) /\ r.right + -r.left = RectWidth(r)
  BY <1>2 DEF Fits
<1>8. NormalizeRect(r) = [top |-> 0, left |-> 0, bottom |-> RectHeight(r),
                          right |-> RectWidth(r)]
  BY <1>6, <1>7 DEF NormalizeRect, OffsetRect
<1>9. Sided(NormalizeRect(r))
  BY <1>5, <1>8 DEF Sided
<1> QED
  BY <1>1, <1>5, <1>8, <1>9

(* where the bit of a pixel is, counted from the start of the image          *)
LEMMA BitOfPixel ==
  ASSUME NEW img, IsImage(img), NEW i \in Int, NEW b \in Bits, i >= img.base,
         Pixel(img, i, b) \in ScreenPixels(img)
  PROVE  /\ RowOf(img, i) \in Nat /\ ColumnOf(img, i, b) \in Nat
         /\ CHAR_BIT * (PixelWidthToBytes(img.width) * RowOf(img, i)) + ColumnOf(img, i, b)
              = CHAR_BIT * (i - img.base) + b
<1>1. PICK x, y : x = ColumnOf(img, i, b) /\ y = RowOf(img, i)
  OBVIOUS
<1>2. x \in 0..img.width-1 /\ y \in 0..img.height-1 /\ img.width \in Int /\ img.height \in Int
      /\ img.base \in Int
  BY <1>1 DEF Pixel, ScreenPixels, IsImage
<1>3. x \in Nat /\ y \in Nat /\ 0 < img.width
  BY <1>2
<1>4. x = FromRow(img, y, i, b)
  BY <1>1, <1>3, PlaceInRow
<1>5. PICK w \in Int, v \in Int : w = PixelWidthToBytes(img.width) /\ v = w * y
  BY <1>2, <1>3, PixelWidthType
<1>6. CHAR_BIT \in Int /\ b \in Int
  BY BitmapAssumption DEF Bits
<1>7. PICK d \in Int : d = i - img.base
  BY <1>2
<1>8. x = CHAR_BIT * (d - v) + b
  BY <1>4, <1>5, <1>7 DEF FromRow
<1>9. CHAR_BIT * (d - v) = CHAR_BIT * d - CHAR_BIT * v
  BY <1>5, <1>6, <1>7
<1>10. CHAR_BIT * d \in Int /\ CHAR_BIT * v \in Int
  BY <1>5, <1>6, <1>7
<1>11. CHAR_BIT * v + x = CHAR_BIT * d + b
  BY <1>6, <1>8, <1>9, <1>10
<1> QED
  BY <1>1, <1>3, <1>5, <1>7, <1>11

(* every pixel of an image has a bit                                         *)
LEMMA PixelHasBit ==
  ASSUME NEW img, IsImage(img), NEW x \in Nat, x < img.width, NEW y \in Nat, y < img.height
  PROVE  \E j \in Int, c \in Bits :
           /\ j >= img.base /\ Pixel(img, j, c) = <<x, y>>
           /\ j - img.base \in 0..PixelWidthToBytes(img.width) * img.height - 1
           /\ CHAR_BIT * (PixelWidthToBytes(img.width) * y) + x = CHAR_BIT * (j - img.base) + c
<1>1. img.width \in Int /\ img.height \in Int /\ img.base \in Int /\ 0 < img.width
  BY DEF IsImage
<1>2. PICK w \in Nat \ {0} :
        w = PixelWidthToBytes(img.width) /\ img.width <= CHAR_BIT * w /\ CHAR_BIT \in Nat \ {0}
  BY <1>1, BytesOf, BitmapAssumption
<1>3. PICK q \in Int, c \in 0..(CHAR_BIT - 1) : x = CHAR_BIT * q + c
  <2>1. x \in Int /\ CHAR_BIT \in Nat \ {0}
    BY <1>2
  <2>2. x \div CHAR_BIT \in Int /\ x % CHAR_BIT \in 0..(CHAR_BIT - 1)
        /\ x = CHAR_BIT * (x \div CHAR_BIT) + (x % CHAR_BIT)
    BY <2>1, Division
  <2> QED
    BY <2>2
<1>4. c \in Bits /\ c \in Int
  BY <1>2, <1>3 DEF Bits
<1>5. CHAR_BIT * q \in Int /\ CHAR_BIT * w \in Int
  BY <1>2, <1>3
<1>6. 0 <= q
  <2>1. q <= -1 => CHAR_BIT * q <= CHAR_BIT * (-1)
    BY <1>2, <1>3, Monotone
  <2>2. CHAR_BIT * (-1) = -CHAR_BIT
    BY <1>2
  <2> QED
    BY <1>2, <1>3, <1>5, <2>1, <2>2
<1>7. q <= w - 1
  <2>1. w <= q => CHAR_BIT * w <= CHAR_BIT * q
    BY <1>2, <1>3, Monotone
  <2> QED
    BY <1>1, <1>2, <1>3, <1>5, <2>1
<1>8. PICK v \in Nat : v = w * y
  BY <1>2
<1>9. PICK j \in Int : j = img.base + (v + q)
  BY <1>1, <1>3, <1>8
<1>10. j - img.base = v + q /\ j >= img.base
  BY <1>1, <1>3, <1>6, <1>8, <1>9
<1>11. v + q <= w * img.height - 1
  <2>1. w * (y + 1) <= w * img.height
    BY <1>1, <1>2, Monotone
  <2>2. w * (y + 1) = v + w
    BY <1>2, <1>8
  <2>3. w * img.height \in Int
    BY <1>1, <1>2
  <2> QED
    BY <1>2, <1>3, <1>7, <1>8, <2>1, <2>2, <2>3
<1>12. FromRow(img, y, j, c) = x
  <2>1. FromRow(img, y, j, c) = CHAR_BIT * (j - img.base - v) + c
    BY <1>2, <1>8 DEF FromRow
  <2>2. j - img.base - v = q
    BY <1>1, <1>3, <1>8, <1>9
  <2> QED
    BY <1>3, <2>1, <2>2
<1>13. RowOf(img, j) = y /\ ColumnOf(img, j, c) = x
  BY <1>1, <1>4, <1>10, <1>12, PlaceInRow
<1>14. CHAR_BIT * v + x = CHAR_BIT * (v + q) + c
  <2>1. CHAR_BIT * (v + q) = CHAR_BIT * v + CHAR_BIT * q /\ CHAR_BIT * v \in Int
    BY <1>2, <1>3, <1>8
  <2> QED
    BY <1>3, <1>4, <1>5, <2>1
<1>15. j - img.base \in 0..w * img.height - 1
  BY <1>1, <1>2, <1>3, <1>6, <1>8, <1>10, <1>11
<1>16. Pixel(img, j, c) = <<x, y>>
  BY <1>13 DEF Pixel
<1> QED
  BY <1>2, <1>4, <1>8, <1>10, <1>14, <1>15, <1>16

(* The pixel of the screen that a bit of memory is, whether it is one that   *)
(* filling a rectangle changes, and whether it lies in the rectangle.        *)
Place(i, b) == Pixel(Image(ScreenBits), i, b)
OnTheScreen(i, b) == i >= ScreenBits.base_addr /\ Place(i, b) \in Whole
Lit(r, i, b) == i >= ScreenBits.base_addr /\ Place(i, b) \in RowsFrom(Image(ScreenBits), r)
Under(r, i, b) == OnTheScreen(i, b) /\ InRect(r, Place(i, b)[1], Place(i, b)[2])

(* The pixels that a bitmap kept of rectangle r.                             *)
Kept(bitmap, r) == Carried(bitmap, RectWidth(r), NormalizeRect(r), r, {})
Bitmaps(r) == [0..PixelWidthToBytes(RectWidth(r)) * RectHeight(r) - 1 -> Byte]

LEMMA WholeScreen ==
  ASSUME clip = Whole
  PROVE  /\ Screen = Image(ScreenBits) /\ IsImage(Screen) /\ Screen.clip = Whole
         /\ ScreenPixels(Screen) = Whole
         /\ Screen.base = ScreenBits.base_addr /\ ScreenBits.base_addr \in Nat
<1>1. ScreenBits \in BitMap
  BY PortAssumption
<1>2. ScreenBits.base_addr \in Nat /\ IsImage(Image(ScreenBits)) /\ Image(ScreenBits).clip = Whole
  BY <1>1, BitMapIs DEF Whole
<1>3. Image(ScreenBits) = [base |-> Image(ScreenBits).base, width |-> Image(ScreenBits).width,
                           height |-> Image(ScreenBits).height, clip |-> Image(ScreenBits).clip]
  BY DEF Image
<1>4. Screen = Image(ScreenBits)
  BY <1>2, <1>3 DEF Screen
<1>5. Image(ScreenBits).base = ScreenBits.base_addr
  BY DEF Image
<1> QED
  BY <1>2, <1>4, <1>5 DEF Whole

(* what a menu saves is the pixels that it will cover                        *)
LEMMA SavedIs ==
  ASSUME clip = Whole, NEW m \in Memory, NEW r \in Rect, Fits(r)
  PROVE  /\ SavedBitmap(m, r) \in Bitmaps(r)
         /\ \A i \in 0..MemorySize-1, b \in Bits :
              Under(r, i, b) => (Place(i, b) \in Kept(SavedBitmap(m, r), r) <=> b \in m[i])
<1>1. PICK img : img = Screen
  OBVIOUS
<1>2. /\ img = Image(ScreenBits) /\ IsImage(img) /\ img.clip = Whole /\ ScreenPixels(img) = Whole
      /\ img.base = ScreenBits.base_addr /\ img.base \in Nat
  BY <1>1, WholeScreen
<1>3. PICK w, h : w = RectWidth(r) /\ h = RectHeight(r)
  OBVIOUS
<1>4. PICK norm : norm = NormalizeRect(r)
  OBVIOUS
<1>5. /\ norm = [top |-> 0, left |-> 0, bottom |-> h, right |-> w]
      /\ Sided(r) /\ Sided(norm) /\ w \in Nat /\ h \in Nat
      /\ w = r.right - r.left /\ h = r.bottom - r.top
  BY <1>3, <1>4, Normalized DEF Fits
<1>6. r.top \in Int /\ r.left \in Int /\ r.bottom \in Int /\ r.right \in Int
  BY <1>5 DEF Sided
<1>7. PICK D : D = 0..PixelWidthToBytes(w) * h - 1
  OBVIOUS
<1>8. PixelWidthToBytes(w) \in Int /\ D \in SUBSET Int
  BY <1>5, <1>7, PixelWidthType
<1>9. PICK blank : blank = [i \in D |-> {}]
  OBVIOUS
<1>10. blank \in [D -> Byte] /\ {} \in Byte
  BY <1>9 DEF Byte
<1>11. PICK bm : bm = [base |-> 0, width |-> w, height |-> h, clip |-> (0..w-1) \X (0..h-1)]
  OBVIOUS
<1>12. /\ bm.base = 0 /\ bm.width = w /\ bm.height = h /\ bm.clip = (0..w-1) \X (0..h-1)
       /\ IsImage(bm)
  BY <1>5, <1>11 DEF IsImage, ScreenPixels
<1>13. PICK E : E = 0..MemorySize-1-img.base
  OBVIOUS
<1>14. PICK src : src = [i \in E |-> m[i + img.base]]
  OBVIOUS
<1>15. MemorySize \in Int /\ m \in [0..MemorySize-1 -> Byte]
  BY InputAssumption DEF Memory
<1>16. src \in [E -> Byte]
  <2>1. ASSUME NEW i \in E
        PROVE  m[i + img.base] \in Byte
    <3>1. i + img.base \in 0..MemorySize-1
      BY <1>2, <1>13, <1>15, <2>1
    <3> QED
      BY <1>15, <3>1
  <2> QED
    BY <1>14, <2>1
<1>17. PICK kept : kept = SavedBitmap(m, r)
  OBVIOUS
<1>18. kept = CopyBits(blank, bm, src, img.width, r, norm, {})
  BY <1>1, <1>2, <1>3, <1>4, <1>7, <1>9, <1>11, <1>13, <1>14, <1>17 DEF SavedBitmap
<1>19. img.width \in Int
  BY <1>2 DEF IsImage
<1>20. PICK P, ink : /\ P = {p \in bm.clip : InRect(norm, p[1], p[2])}
                     /\ ink = Carried(src, img.width, r, norm, {})
  OBVIOUS
<1>21. Paints(D, blank, kept, bm, P, ink, "Copy")
  <2>1. Paints(D, blank, CopyBits(blank, bm, src, img.width, r, norm, {}), bm,
               {p \in bm.clip : InRect(norm, p[1], p[2])},
               Carried(src, img.width, r, norm, {}), "Copy")
    BY <1>5, <1>8, <1>10, <1>12, <1>16, <1>19, CopyBitsPaint
  <2> QED
    BY <1>18, <1>20, <2>1
<1>22. kept \in [D -> Byte]
  BY <1>21 DEF Paints
<1>23. ASSUME NEW i \in 0..MemorySize-1, NEW b \in Bits, Under(r, i, b)
       PROVE  Place(i, b) \in Kept(kept, r) <=> b \in m[i]
  <2>1. PICK x, y : x = ColumnOf(img, i, b) /\ y = RowOf(img, i)
    OBVIOUS
  <2>2. Place(i, b) = <<x, y>> /\ Place(i, b)[1] = x /\ Place(i, b)[2] = y
    BY <1>2, <2>1 DEF Place, Pixel
  <2>3. i \in Int /\ i >= img.base /\ Pixel(img, i, b) \in ScreenPixels(img) /\ InRect(r, x, y)
    BY <1>2, <1>15, <1>23, <2>2 DEF Under, OnTheScreen, Place
  <2>4. PICK v : v = PixelWidthToBytes(img.width) * y
    OBVIOUS
  <2>5. x \in Nat /\ y \in Nat /\ CHAR_BIT * v + x = CHAR_BIT * (i - img.base) + b
    BY <1>2, <2>1, <2>3, <2>4, BitOfPixel
  <2>6. PICK dx, dy : dx = x - r.left /\ dy = y - r.top
    OBVIOUS
  <2>7. dx \in Nat /\ dx < w /\ dy \in Nat /\ dy < h
    BY <1>5, <1>6, <2>3, <2>5, <2>6 DEF InRect
  <2>8. PICK j \in Int, c \in Bits :
          /\ j >= bm.base /\ Pixel(bm, j, c) = <<dx, dy>>
          /\ j - bm.base \in 0..PixelWidthToBytes(bm.width) * bm.height - 1
          /\ CHAR_BIT * (PixelWidthToBytes(bm.width) * dy) + dx = CHAR_BIT * (j - bm.base) + c
    BY <1>12, <2>7, PixelHasBit
  <2>9. j - bm.base = j
    BY <1>12, <2>8
  <2>10. j \in D /\ CHAR_BIT * (PixelWidthToBytes(w) * dy) + dx = CHAR_BIT * j + c
    BY <1>7, <1>12, <2>8, <2>9
  <2>11. Place(i, b) \in Kept(kept, r)
           <=> BitAt(kept, CHAR_BIT * (PixelWidthToBytes(w) * (y - r.top + norm.top))
                             + (norm.left + (x - r.left)), {})
    BY <1>3, <1>4, <2>2, <2>5 DEF Kept, Carried
  <2>12. y - r.top + norm.top = dy /\ norm.left + (x - r.left) = dx
    BY <1>5, <2>6, <2>7
  <2>13. Place(i, b) \in Kept(kept, r) <=> BitAt(kept, CHAR_BIT * j + c, {})
    BY <2>10, <2>11, <2>12
  <2>14. BitAt(kept, CHAR_BIT * j + c, {}) <=> c \in kept[j]
    <3>1. BitAt(kept, CHAR_BIT * j + c, {}) <=> c \in ByteAt(kept, j, {})
      BY <2>8, BitInByte
    <3>2. ByteAt(kept, j, {}) = kept[j]
      BY <1>22, <2>10 DEF ByteAt
    <3> QED
      BY <3>1, <3>2
  <2>15. c \in kept[j] <=> <<dx, dy>> \in ink
    <3>1. PICK q : q = <<dx, dy>>
      OBVIOUS
    <3>2. q \in P
      BY <1>5, <1>12, <1>20, <2>7, <3>1 DEF InRect
    <3>3. Pixel(bm, j, c) = q /\ j >= bm.base /\ c \in Bits
      BY <2>8, <3>1
    <3>4. c \in kept[j] <=> Becomes("Copy", blank[j], c, q, ink)
      BY <1>21, <2>10, <3>2, <3>3 DEF Paints
    <3>5. Becomes("Copy", blank[j], c, q, ink) <=> q \in ink
      BY DEF Becomes
    <3> QED
      BY <3>1, <3>4, <3>5
  <2>16. <<dx, dy>> \in ink
           <=> BitAt(src, CHAR_BIT * (PixelWidthToBytes(img.width) * (dy - norm.top + r.top))
                            + (r.left + (dx - norm.left)), {})
    BY <1>20, <2>7 DEF Carried
  <2>17. dy - norm.top + r.top = y /\ r.left + (dx - norm.left) = x
    BY <1>5, <1>6, <2>5, <2>6
  <2>18. <<dx, dy>> \in ink <=> BitAt(src, CHAR_BIT * (i - img.base) + b, {})
    BY <2>4, <2>5, <2>16, <2>17
  <2>19. BitAt(src, CHAR_BIT * (i - img.base) + b, {}) <=> b \in m[i]
    <3>1. PICK at \in Int : at = i - img.base /\ at + img.base = i /\ at \in E
      BY <1>2, <1>13, <1>15, <1>23, <2>3
    <3>2. BitAt(src, CHAR_BIT * at + b, {}) <=> b \in ByteAt(src, at, {})
      BY <3>1, BitInByte
    <3>3. ByteAt(src, at, {}) = m[i]
      BY <1>14, <3>1 DEF ByteAt
    <3> QED
      BY <3>1, <3>2, <3>3
  <2> QED
    BY <2>13, <2>14, <2>15, <2>18, <2>19
<1>24. Bitmaps(r) = [D -> Byte]
  BY <1>3, <1>7 DEF Bitmaps
<1> QED
  BY <1>17, <1>22, <1>23, <1>24

(* highlighting inverts the pixels of the rectangle                          *)
LEMMA HiliteFlips ==
  ASSUME clip = Whole, NEW m \in Memory, NEW r, Sided(r), NEW i \in 0..MemorySize-1,
         NEW b \in Bits
  PROVE  b \in Hilite(m, r)[i] <=> ~(b \in m[i] <=> Lit(r, i, b))
<1>1. PICK img : img = Image(ScreenBits)
  OBVIOUS
<1>2. img = Screen /\ IsImage(img) /\ img.base = ScreenBits.base_addr
  BY <1>1, WholeScreen
<1>3. PICK D \in SUBSET Int : D = 0..MemorySize-1 /\ m \in [D -> Byte]
  BY MemoryIs
<1>4. r.top \in Int /\ r.left \in Int /\ r.right \in Int /\ RectHeight(r) \in Int
  BY SizesAreInt DEF Sided
<1>5. PICK m2 : m2 = Hilite(m, r)
  OBVIOUS
<1>6. m2 = FillRect(m, img, r, Black, "XOr")
  BY <1>2, <1>5 DEF Hilite, HighLight
<1>7. PICK p : p = Pixel(img, i, b)
  OBVIOUS
<1>8. PICK ink : ink = Inked(Black, r.left, r.top)
  OBVIOUS
<1>9. Paints(D, m, m2, img, RowsFrom(img, r), ink, "XOr")
  <2>1. Paints(D, m, FillRect(m, img, r, Black, "XOr"), img, RowsFrom(img, r),
               Inked(Black, r.left, r.top), "XOr")
    BY <1>2, <1>3, <1>4, PatternsAre, ModesAre, FillRectPaint
  <2> QED
    BY <1>6, <1>8, <2>1
<1>10. Lit(r, i, b) <=> i >= img.base /\ p \in RowsFrom(img, r)
  BY <1>1, <1>2, <1>7 DEF Lit, Place
<1>11. b \in m2[i] <=> IF i >= img.base /\ p \in RowsFrom(img, r)
                       THEN Becomes("XOr", m[i], b, p, ink) ELSE b \in m[i]
  BY <1>3, <1>7, <1>9 DEF Paints
<1>12. ASSUME p \in RowsFrom(img, r)
       PROVE  p \in ink
  <2>1. p \in img.clip
    BY <1>12 DEF RowsFrom
  <2>2. p = <<p[1], p[2]>> /\ p[1] \in Int /\ p[2] \in Int
    BY <1>2, <2>1, ClipPixels
  <2>3. PICK u \in Int, v \in Int : u = p[1] - MAX(0, r.left) /\ v = p[2] - r.top
    BY <1>4, <2>2 DEF MAX
  <2>4. u % CHAR_BIT \in Bits /\ v % PatternRows \in 0..PatternRows-1
    <3>1. CHAR_BIT \in Nat \ {0} /\ PatternRows \in Nat \ {0}
      BY BitmapAssumption
    <3>2. u % CHAR_BIT \in 0..(CHAR_BIT - 1) /\ v % PatternRows \in 0..(PatternRows - 1)
      BY <3>1, Division
    <3> QED
      BY <3>2 DEF Bits
  <2>5. u % CHAR_BIT \in Black[v % PatternRows]
    BY <2>4 DEF Black
  <2>6. p \in Int \X Int
    BY <2>2
  <2> QED
    BY <1>8, <2>3, <2>5, <2>6 DEF Inked
<1>13. CASE Lit(r, i, b)
  <2>1. b \in m2[i] <=> Becomes("XOr", m[i], b, p, ink)
    BY <1>10, <1>11, <1>13
  <2>2. p \in ink
    BY <1>10, <1>12, <1>13
  <2>3. b \in m2[i] <=> ~(b \in m[i])
    BY <2>1, <2>2 DEF Becomes
  <2> QED
    BY <1>5, <1>13, <2>3
<1>14. CASE ~Lit(r, i, b)
  BY <1>5, <1>10, <1>11, <1>14
<1> QED
  BY <1>13, <1>14

(* a menu is drawn nowhere but on the pixels it covers                       *)
LEMMA CoversOnly ==
  ASSUME clip = Whole, NEW m \in Memory, NEW r \in Rect, Fits(r), NEW i \in 0..MemorySize-1,
         NEW b \in Bits, ~Under(r, i, b)
  PROVE  b \in FrameRect(FillRect(m, Screen, r, PopUpPattern, "Copy"), Screen, r, HighLight,
                         "Copy")[i]
           <=> b \in m[i]
<1>1. PICK img : img = Image(ScreenBits)
  OBVIOUS
<1>2. img = Screen /\ IsImage(img) /\ img.base = ScreenBits.base_addr /\ img.clip = Whole
  BY <1>1, WholeScreen
<1>3. PICK D \in SUBSET Int : D = 0..MemorySize-1 /\ m \in [D -> Byte]
  BY MemoryIs
<1>4. Sided(r)
  BY RectsAreSided
<1>5. /\ r.top \in Int /\ r.left \in Int /\ r.bottom \in Int /\ r.right \in Int
      /\ RectHeight(r) \in Int /\ r.top + RectHeight(r) = r.bottom
      /\ r.right - r.left >= 2 /\ r.bottom - r.top >= 2
  BY <1>4, SizesAreInt DEF Sided, Fits
<1>6. PICK m2, m3 : /\ m2 = FillRect(m, img, r, White, "Copy")
                    /\ m3 = FrameRect(m2, img, r, Black, "Copy")
  OBVIOUS
<1>7. m3 = FrameRect(FillRect(m, Screen, r, PopUpPattern, "Copy"), Screen, r, HighLight, "Copy")
  BY <1>2, <1>6 DEF PopUpPattern, HighLight
<1>8. PICK p : p = Pixel(img, i, b)
  OBVIOUS
<1>9. ~(i >= img.base /\ p \in img.clip /\ InRect(r, p[1], p[2]))
  BY <1>1, <1>2, <1>8 DEF Under, OnTheScreen, Place
<1>10. Paints(D, m, m2, img, RowsFrom(img, r), Inked(White, r.left, r.top), "Copy")
  <2>1. Paints(D, m, FillRect(m, img, r, White, "Copy"), img, RowsFrom(img, r),
               Inked(White, r.left, r.top), "Copy")
    BY <1>2, <1>3, <1>5, PatternsAre, ModesAre, FillRectPaint
  <2> QED
    BY <1>6, <2>1
<1>11. m2 \in [D -> Byte]
  BY <1>10 DEF Paints
<1>12. Paints(D, m2, m3, img, {q \in img.clip : OnBorder(r, q[1], q[2])}, Inked(Black, r.left, 0),
              "Copy")
  <2>1. Paints(D, m2, FrameRect(m2, img, r, Black, "Copy"), img,
               {q \in img.clip : OnBorder(r, q[1], q[2])}, Inked(Black, r.left, 0), "Copy")
    BY <1>2, <1>3, <1>5, <1>11, PatternsAre, ModesAre, FrameRectPaint
  <2> QED
    BY <1>6, <2>1
<1>13. b \in m2[i] <=> b \in m[i]
  <2>1. ~(i >= img.base /\ p \in RowsFrom(img, r))
    BY <1>5, <1>9 DEF RowsFrom, InRect
  <2> QED
    BY <1>3, <1>8, <1>10, <2>1 DEF Paints
<1>14. b \in m3[i] <=> b \in m2[i]
  <2>1. ~(i >= img.base /\ p \in {q \in img.clip : OnBorder(r, q[1], q[2])})
    BY <1>9 DEF OnBorder
  <2> QED
    BY <1>3, <1>8, <1>12, <2>1 DEF Paints
<1> QED
  BY <1>7, <1>13, <1>14

(* putting back draws what was kept on the pixels of the menu                *)
LEMMA PutBackIs ==
  ASSUME clip = Whole, NEW m \in Memory, NEW menu, menu.bounds \in Rect, Fits(menu.bounds),
         menu.saved_bitmap \in Bitmaps(menu.bounds)
  PROVE  /\ PutBack(m, menu) \in Memory
         /\ \A i \in 0..MemorySize-1, b \in Bits :
              b \in PutBack(m, menu)[i] <=>
                IF Under(menu.bounds, i, b)
                THEN Place(i, b) \in Kept(menu.saved_bitmap, menu.bounds) ELSE b \in m[i]
<1>1. PICK img : img = Image(ScreenBits)
  OBVIOUS
<1>2. img = Screen /\ IsImage(img) /\ img.base = ScreenBits.base_addr /\ img.clip = Whole
  BY <1>1, WholeScreen
<1>3. PICK D \in SUBSET Int : D = 0..MemorySize-1 /\ m \in [D -> Byte] /\ Memory = [D -> Byte]
  BY MemoryIs
<1>4. PICK r, bitmap, m2 : /\ r = menu.bounds /\ bitmap = menu.saved_bitmap
                           /\ m2 = PutBack(m, menu)
  OBVIOUS
<1>5. Sided(r) /\ Sided(NormalizeRect(r)) /\ RectWidth(r) \in Int /\ RectWidth(r) \in Nat
  BY <1>4, Normalized
<1>6. PICK E : bitmap \in [E -> Byte] /\ {} \in Byte
  BY <1>4 DEF Bitmaps, Byte
<1>7. m2 = CopyBits(m, img, bitmap, RectWidth(r), NormalizeRect(r), r, {})
  BY <1>2, <1>4 DEF PutBack
<1>8. PICK P, ink : P = {p \in img.clip : InRect(r, p[1], p[2])} /\ ink = Kept(bitmap, r)
  OBVIOUS
<1>9. Paints(D, m, m2, img, P, ink, "Copy")
  <2>1. Paints(D, m, CopyBits(m, img, bitmap, RectWidth(r), NormalizeRect(r), r, {}), img,
               {p \in img.clip : InRect(r, p[1], p[2])},
               Carried(bitmap, RectWidth(r), NormalizeRect(r), r, {}), "Copy")
    <3>1. PICK junk \in Byte : junk = {}
      BY <1>6
    <3>2. PICK norm, width : norm = NormalizeRect(r) /\ width = RectWidth(r) /\ width \in Int
      BY <1>5
    <3>3. IsImage(img) /\ Sided(norm) /\ m \in [D -> Byte]
      BY <1>2, <1>3, <1>5, <3>2
    <3>4. Paints(D, m, CopyBits(m, img, bitmap, width, norm, r, junk), img,
                 {p \in img.clip : InRect(r, p[1], p[2])}, Carried(bitmap, width, norm, r, junk),
                 "Copy")
      BY <1>5, <1>6, <3>1, <3>2, <3>3, CopyBitsPaint
    <3> QED
      BY <3>1, <3>2, <3>4
  <2> QED
    BY <1>7, <1>8, <2>1 DEF Kept
<1>10. m2 \in Memory
  BY <1>3, <1>9 DEF Paints
<1>11. ASSUME NEW i \in 0..MemorySize-1, NEW b \in Bits
       PROVE  b \in m2[i] <=> IF Under(r, i, b) THEN Place(i, b) \in ink ELSE b \in m[i]
  <2>1. PICK p : p = Pixel(img, i, b) /\ p = Place(i, b)
    BY <1>1 DEF Place
  <2>2. Under(r, i, b) <=> i >= img.base /\ p \in P
    BY <1>1, <1>2, <1>8, <2>1 DEF Under, OnTheScreen
  <2>3. b \in m2[i] <=> IF i >= img.base /\ p \in P
                        THEN Becomes("Copy", m[i], b, p, ink) ELSE b \in m[i]
    BY <1>3, <1>9, <2>1 DEF Paints
  <2>4. Becomes("Copy", m[i], b, p, ink) <=> p \in ink
    BY DEF Becomes
  <2> QED
    BY <2>1, <2>2, <2>3, <2>4
<1> QED
  BY <1>4, <1>8, <1>10, <1>11

-----------------------------------------------------------------------------
(* What the screen shows while a menu is open: what it showed before, with   *)
(* the title highlighted (Begun) and one item at most, except where the menu *)
(* lies: what belongs there is kept in its bitmap.                           *)
LitItem(menu, i, b) ==
  menu.hovered # <<>> /\ Lit(MenuItem(menu, menu.hovered[1]), i, b)
Begun(menu, i, b) == ~(b \in menu.before[i] <=> Lit(menu.anchor, i, b))
Story(menu, m) ==
  /\ menu.before \in Memory /\ Fits(menu.bounds) /\ menu.saved_bitmap \in Bitmaps(menu.bounds)
  /\ \A i \in 0..MemorySize-1, b \in Bits :
       /\ Under(menu.bounds, i, b) =>
            (Place(i, b) \in Kept(menu.saved_bitmap, menu.bounds) <=> Begun(menu, i, b))
       /\ ~Under(menu.bounds, i, b) =>
            (b \in m[i] <=> ~(Begun(menu, i, b) <=> LitItem(menu, i, b)))

(* Nothing else draws then.                                                  *)
PopupInv == popup # <<>> => saved = <<>> /\ family = "screen" /\ Story(popup[1], mem)

(* an item that is no longer hovered is inverted back                        *)
LEMMA UnhoverFlips ==
  ASSUME ClipsOK, clip = Whole, NEW m \in Memory, NEW menu, IsMenu(menu),
         NEW i \in 0..MemorySize-1, NEW b \in Bits
  PROVE  b \in Unhover(m, menu)[i] <=> ~(b \in m[i] <=> LitItem(menu, i, b))
<1>1. CASE menu.hovered = <<>>
  <2>1. Unhover(m, menu) = m /\ ~LitItem(menu, i, b)
    BY <1>1 DEF Unhover, LitItem
  <2> QED
    BY <2>1
<1>2. CASE menu.hovered # <<>>
  <2>1. PICK r : r = MenuItem(menu, menu.hovered[1])
    OBVIOUS
  <2>2. menu.hovered[1] \in Int
    BY <1>2 DEF IsMenu
  <2>3. Sided(r)
    BY <2>1, <2>2, ItemIsSided DEF IsMenu
  <2>4. Unhover(m, menu) = Hilite(m, r) /\ (LitItem(menu, i, b) <=> Lit(r, i, b))
    BY <1>2, <2>1 DEF Unhover, LitItem
  <2>5. b \in Hilite(m, r)[i] <=> ~(b \in m[i] <=> Lit(r, i, b))
    BY <2>3, HiliteFlips
  <2> QED
    BY <2>4, <2>5
<1> QED
  BY <1>1, <1>2

(* the story begins                                                          *)
LEMMA MenuPopUpTells ==
  ASSUME GraphicsInv, NEW menu \in PopUps, MenuPopUp(menu)
  PROVE  PopupInv'
<1>1. menu.anchor \in Rect /\ menu.bounds \in Rect /\ Sided(menu.anchor) /\ Fits(menu.bounds)
  BY ScreenAssumption, RectsAreSided DEF Fits
<1>2. ClipsOK /\ mem \in Memory /\ clip = Whole
  BY DEF GraphicsInv, NativeOK, ClipsOK, MenuPopUp
<1>3. PICK hilited \in Memory : hilited = Hilite(mem, menu.anchor)
  BY <1>1, <1>2, HiliteDraws
<1>4. PICK bitmap, new : /\ bitmap = SavedBitmap(hilited, menu.bounds)
                         /\ new = [anchor |-> menu.anchor, bounds |-> menu.bounds,
                                   items |-> menu.items, hovered |-> <<>>,
                                   saved_bitmap |-> bitmap, before |-> mem]
  OBVIOUS
<1>5. PICK m : m = FrameRect(FillRect(hilited, Screen, menu.bounds, PopUpPattern, "Copy"), Screen,
                             menu.bounds, HighLight, "Copy")
  OBVIOUS
<1>6. mem' = m /\ popup' = <<new>> /\ saved' = <<>> /\ family' = "screen"
  BY <1>3, <1>4, <1>5 DEF MenuPopUp, Call
<1>7. /\ bitmap \in Bitmaps(menu.bounds)
      /\ \A i \in 0..MemorySize-1, b \in Bits :
           Under(menu.bounds, i, b) =>
             (Place(i, b) \in Kept(bitmap, menu.bounds) <=> b \in hilited[i])
  BY <1>1, <1>2, <1>4, SavedIs
<1>8. /\ new.anchor = menu.anchor /\ new.bounds = menu.bounds /\ new.hovered = <<>>
      /\ new.saved_bitmap = bitmap /\ new.before = mem
  BY <1>4
<1>9. ASSUME NEW i \in 0..MemorySize-1, NEW b \in Bits
      PROVE  /\ Under(menu.bounds, i, b) =>
                  (Place(i, b) \in Kept(bitmap, menu.bounds) <=> Begun(new, i, b))
             /\ ~Under(menu.bounds, i, b) =>
                  (b \in m[i] <=> ~(Begun(new, i, b) <=> LitItem(new, i, b)))
  <2>1. b \in hilited[i] <=> Begun(new, i, b)
    <3>1. b \in hilited[i] <=> ~(b \in mem[i] <=> Lit(menu.anchor, i, b))
      BY <1>1, <1>2, <1>3, HiliteFlips
    <3> QED
      BY <1>8, <3>1 DEF Begun
  <2>2. ~LitItem(new, i, b)
    BY <1>8 DEF LitItem
  <2>3. ASSUME ~Under(menu.bounds, i, b)
        PROVE  b \in m[i] <=> b \in hilited[i]
    BY <1>1, <1>2, <1>5, <2>3, CoversOnly
  <2> QED
    BY <1>7, <2>1, <2>2, <2>3
<1>10. Story(new, m)
  BY <1>1, <1>2, <1>7, <1>8, <1>9 DEF Story
<1>11. popup'[1] = new
  BY <1>6
<1>12. Story(popup'[1], mem')
  BY <1>6, <1>10, <1>11
<1> QED
  BY <1>6, <1>12 DEF PopupInv, Story, Under, OnTheScreen, Place, Kept, Begun, LitItem

(* and goes on                                                               *)
LEMMA HoverTells ==
  ASSUME NEW menu, IsMenu(menu), NEW m, Story(menu, m), NEW hovered, NEW new,
         new = [menu EXCEPT !.hovered = hovered], NEW drawn,
         \A i \in 0..MemorySize-1, b \in Bits :
           b \in drawn[i] <=> ~(~(b \in m[i] <=> LitItem(new, i, b)) <=> LitItem(menu, i, b))
  PROVE  Story(new, drawn)
<1>1. /\ new.anchor = menu.anchor /\ new.bounds = menu.bounds
      /\ new.saved_bitmap = menu.saved_bitmap /\ new.before = menu.before
  OBVIOUS
<1>2. ASSUME NEW i \in 0..MemorySize-1, NEW b \in Bits
      PROVE  /\ Under(menu.bounds, i, b) =>
                  (Place(i, b) \in Kept(menu.saved_bitmap, menu.bounds) <=> Begun(new, i, b))
             /\ ~Under(menu.bounds, i, b) =>
                  (b \in drawn[i] <=> ~(Begun(new, i, b) <=> LitItem(new, i, b)))
  <2>1. Begun(new, i, b) <=> Begun(menu, i, b)
    BY <1>1 DEF Begun
  <2>2. /\ Under(menu.bounds, i, b) =>
             (Place(i, b) \in Kept(menu.saved_bitmap, menu.bounds) <=> Begun(menu, i, b))
        /\ ~Under(menu.bounds, i, b) =>
             (b \in m[i] <=> ~(Begun(menu, i, b) <=> LitItem(menu, i, b)))
    BY DEF Story
  <2>3. b \in drawn[i] <=> ~(~(b \in m[i] <=> LitItem(new, i, b)) <=> LitItem(menu, i, b))
    OBVIOUS
  <2> QED
    BY <2>1, <2>2, <2>3
<1>3. menu.before \in Memory /\ Fits(menu.bounds) /\ menu.saved_bitmap \in Bitmaps(menu.bounds)
  BY DEF Story
<1> QED
  BY <1>1, <1>2, <1>3 DEF Story

LEMMA StoryGoesOn ==
  ASSUME popup # <<>>, PopupInv, NEW new, NEW drawn, Story(new, drawn), mem' = drawn,
         popup' = <<new>>, UNCHANGED <<saved, family>>
  PROVE  PopupInv'
<1>1. popup'[1] = new
  OBVIOUS
<1>2. Story(popup'[1], mem') /\ saved' = <<>> /\ family' = "screen"
  BY <1>1 DEF PopupInv
<1> QED
  BY <1>2 DEF PopupInv, Story, Under, OnTheScreen, Place, Kept, Begun, LitItem

(* the new item is inverted, then the old one                                *)
LEMMA HoverMenuItemTells ==
  ASSUME GraphicsInv, PopupInv, popup # <<>>, NEW item \in Int, HoverMenuItem(item)
  PROVE  PopupInv'
<1>1. PICK menu : menu = popup[1]
  OBVIOUS
<1>2. /\ ClipsOK /\ clip = Whole /\ IsMenu(menu) /\ mem \in Memory /\ Story(menu, mem)
      /\ menu.bounds \in Rect
  BY <1>1 DEF GraphicsInv, NativeOK, ClipsOK, PopupOK, PopupInv, IsMenu
<1>3. PICK r : r = MenuItem(menu, item) /\ Sided(r)
  BY <1>2, ItemIsSided
<1>4. PICK m \in Memory : m = Hilite(mem, r)
  BY <1>2, <1>3, HiliteDraws
<1>5. PICK drawn : drawn = Unhover(m, menu)
  OBVIOUS
<1>6. PICK new : new = [menu EXCEPT !.hovered = <<item>>]
  OBVIOUS
<1>7. mem' = drawn /\ popup' = <<new>> /\ UNCHANGED <<saved, family>>
  BY <1>1, <1>3, <1>4, <1>5, <1>6 DEF HoverMenuItem, Call
<1>8. new.hovered = <<item>> /\ new.bounds = menu.bounds
  BY <1>2, <1>6 DEF IsMenu
<1>9. MenuItem(new, new.hovered[1]) = r /\ new.hovered # <<>>
  BY <1>3, <1>8 DEF MenuItem
<1>10. ASSUME NEW i \in 0..MemorySize-1, NEW b \in Bits
       PROVE  b \in drawn[i]
                <=> ~(~(b \in mem[i] <=> LitItem(new, i, b)) <=> LitItem(menu, i, b))
  <2>1. b \in m[i] <=> ~(b \in mem[i] <=> Lit(r, i, b))
    BY <1>2, <1>3, <1>4, HiliteFlips
  <2>2. b \in drawn[i] <=> ~(b \in m[i] <=> LitItem(menu, i, b))
    BY <1>2, <1>4, <1>5, UnhoverFlips
  <2>3. LitItem(new, i, b) <=> Lit(r, i, b)
    BY <1>9 DEF LitItem
  <2> QED
    BY <2>1, <2>2, <2>3
<1>11. Story(new, drawn)
  BY <1>2, <1>6, <1>10, HoverTells
<1> QED
  BY <1>7, <1>11, StoryGoesOn

(* a disabled item is not inverted                                           *)
LEMMA HoverDisabledItemTells ==
  ASSUME GraphicsInv, PopupInv, HoverDisabledItem
  PROVE  PopupInv'
<1>1. PICK menu : menu = popup[1]
  OBVIOUS
<1>2. /\ ClipsOK /\ clip = Whole /\ IsMenu(menu) /\ mem \in Memory /\ Story(menu, mem)
      /\ popup # <<>>
  BY <1>1 DEF GraphicsInv, NativeOK, ClipsOK, PopupOK, PopupInv, HoverDisabledItem
<1>3. PICK drawn : drawn = Unhover(mem, menu)
  OBVIOUS
<1>4. PICK new : new = [menu EXCEPT !.hovered = <<>>]
  OBVIOUS
<1>5. mem' = drawn /\ popup' = <<new>> /\ UNCHANGED <<saved, family>>
  BY <1>1, <1>3, <1>4 DEF HoverDisabledItem, Call
<1>6. new.hovered = <<>>
  BY <1>2, <1>4 DEF IsMenu
<1>7. ASSUME NEW i \in 0..MemorySize-1, NEW b \in Bits
      PROVE  b \in drawn[i]
               <=> ~(~(b \in mem[i] <=> LitItem(new, i, b)) <=> LitItem(menu, i, b))
  <2>1. b \in drawn[i] <=> ~(b \in mem[i] <=> LitItem(menu, i, b))
    BY <1>2, <1>3, UnhoverFlips
  <2>2. ~LitItem(new, i, b)
    BY <1>6 DEF LitItem
  <2> QED
    BY <2>1, <2>2
<1>8. Story(new, drawn)
  BY <1>2, <1>4, <1>7, HoverTells
<1> QED
  BY <1>2, <1>5, <1>8, StoryGoesOn

(* and when the menu closes the screen is what it was                        *)
LEMMA MenuCloseRestores ==
  ASSUME GraphicsInv, PopupInv, MenuClose
  PROVE  mem' = popup[1].before
<1>1. PICK menu : menu = popup[1]
  OBVIOUS
<1>2. /\ ClipsOK /\ clip = Whole /\ IsMenu(menu) /\ mem \in Memory /\ Story(menu, mem)
      /\ popup # <<>>
  BY <1>1 DEF GraphicsInv, NativeOK, ClipsOK, PopupOK, PopupInv, MenuClose
<1>3. /\ menu.anchor \in Rect /\ menu.bounds \in Rect /\ Sided(menu.anchor)
      /\ Fits(menu.bounds) /\ menu.saved_bitmap \in Bitmaps(menu.bounds) /\ menu.before \in Memory
  BY <1>2, RectsAreSided DEF IsMenu, Story
<1>4. PICK m1 \in Memory : m1 = Unhover(mem, menu)
  BY <1>2, UnhoverDraws
<1>5. PICK m2 : m2 = PutBack(m1, menu)
  OBVIOUS
<1>6. /\ m2 \in Memory
      /\ \A i \in 0..MemorySize-1, b \in Bits :
           b \in m2[i] <=> IF Under(menu.bounds, i, b)
                           THEN Place(i, b) \in Kept(menu.saved_bitmap, menu.bounds)
                           ELSE b \in m1[i]
  BY <1>2, <1>3, <1>4, <1>5, PutBackIs
<1>7. PICK m3 \in Memory : m3 = Hilite(m2, menu.anchor)
  BY <1>2, <1>3, <1>6, HiliteDraws
<1>8. mem' = m3
  BY <1>1, <1>4, <1>5, <1>7 DEF MenuClose
<1>9. ASSUME NEW i \in 0..MemorySize-1, NEW b \in Bits
      PROVE  b \in m3[i] <=> b \in menu.before[i]
  <2>1. b \in m1[i] <=> ~(b \in mem[i] <=> LitItem(menu, i, b))
    BY <1>2, <1>4, UnhoverFlips
  <2>2. b \in m3[i] <=> ~(b \in m2[i] <=> Lit(menu.anchor, i, b))
    BY <1>2, <1>3, <1>6, <1>7, HiliteFlips
  <2>3. /\ Under(menu.bounds, i, b) =>
             (Place(i, b) \in Kept(menu.saved_bitmap, menu.bounds) <=> Begun(menu, i, b))
        /\ ~Under(menu.bounds, i, b) =>
             (b \in mem[i] <=> ~(Begun(menu, i, b) <=> LitItem(menu, i, b)))
    BY <1>2 DEF Story
  <2>4. b \in m2[i] <=> Begun(menu, i, b)
    BY <1>6, <2>1, <2>3
  <2> QED
    BY <2>2, <2>4 DEF Begun
<1>10. m3 = menu.before
  <2>1. m3 \in [0..MemorySize-1 -> Byte] /\ menu.before \in [0..MemorySize-1 -> Byte]
    BY <1>3, <1>7 DEF Memory
  <2>2. ASSUME NEW i \in 0..MemorySize-1
        PROVE  m3[i] = menu.before[i]
    <3>1. m3[i] \in SUBSET Bits /\ menu.before[i] \in SUBSET Bits
      BY <2>1 DEF Byte
    <3>2. \A b \in Bits : b \in m3[i] <=> b \in menu.before[i]
      BY <1>9
    <3> QED
      BY <3>1, <3>2
  <2>3. PICK D, a : /\ a = menu.before /\ m3 \in [D -> Byte] /\ a \in [D -> Byte]
                    /\ \A i \in D : m3[i] = a[i]
    BY <2>1, <2>2
  <2>4. m3 = [i \in D |-> m3[i]] /\ a = [i \in D |-> a[i]]
    BY <2>3
  <2> QED
    BY <2>3, <2>4
<1> QED
  BY <1>1, <1>8, <1>10

(* no trap is called in a behaviour of the Toolbox's own drawing             *)
LEMMA QuickDrawFamilies ==
  ASSUME QuickDrawNext
  PROVE  family # "screen"
<1>1. ASSUME PortTraps
      PROVE  family # "screen"
  BY <1>1 DEF PortTraps, SetPort, OpenPort, SetPortBits, SetOrigin, MoveTo, Move, PenSize, PenMode,
              PenPat, PenNormal, GetPort, SetsPort, Call
<1>2. ASSUME NEW r, \/ PaintRect(r) \/ InverRoundRect(r) \/ FrameRectTrap(r) \/ EraseRect(r)
                    \/ PaintOval(r) \/ EraseOval(r) \/ InverRect(r) \/ FrameRoundRect(r)
      PROVE  family # "screen"
  BY <1>2 DEF PaintRect, InverRoundRect, FrameRectTrap, EraseRect, PaintOval, EraseOval, InverRect,
              FrameRoundRect, Draw, InPort, Call
<1>3. ASSUME NEW r, NEW pattern, FillRectTrap(r, pattern) \/ FillOval(r, pattern)
      PROVE  family # "screen"
  BY <1>3 DEF FillRectTrap, FillOval, DrawWith, InPort, Call
<1>4. ASSUME NEW r, NEW picture, DrawPicture(picture, r)
      PROVE  family # "screen"
  BY <1>4 DEF DrawPicture, Call
<1>5. ASSUME NEW p, LineTo(p) \/ Line(p)
      PROVE  family # "screen"
  BY <1>5 DEF LineTo, Line, InPort, Call
<1>6. ASSUME RegionTraps
      PROVE  family # "screen"
  BY <1>6 DEF RegionTraps, NewRgn, OpenRgn, CloseRgn, PtInRgn, RectInRgn, AnswersOfRegion, FillRgn,
              Call
<1>7. ASSUME GeometryTraps
      PROVE  family # "screen"
  BY <1>7 DEF GeometryTraps, SetRect, SectRect, EqualRectTrap, InsetRectTrap, OffsetRectTrap, SetPt,
              AddPt, EqualPt, Pt2Rect, PtInRect, GetPen, LocalToGlobalTrap, GlobalToLocal,
              Computes, Call
<1> QED
  BY <1>1, <1>2, <1>3, <1>4, <1>5, <1>6, <1>7 DEF QuickDrawNext, DrawingTraps

(* a story that nothing changes                                              *)
LEMMA StoryStays ==
  ASSUME PopupInv, popup' = <<>> \/ UNCHANGED <<mem, saved, popup, family>>
  PROVE  PopupInv'
<1>1. CASE popup' = <<>>
  BY <1>1 DEF PopupInv
<1>2. CASE UNCHANGED <<mem, saved, popup, family>>
  BY <1>2 DEF PopupInv, Story, Under, OnTheScreen, Place, Kept, Begun, LitItem
<1> QED
  BY <1>1, <1>2

LEMMA PopupStep == GraphicsInv /\ PopupInv /\ [Next]_vars => PopupInv'
<1> SUFFICES ASSUME GraphicsInv, PopupInv, [Next]_vars PROVE PopupInv'
  OBVIOUS
<1>1. CASE UNCHANGED vars
  <2>1. UNCHANGED <<mem, saved, popup, family>>
    BY <1>1 DEF vars, quickDrawVars, nativeVars, boundVars
  <2> QED
    BY <2>1, StoryStays
<1>2. CASE QuickDrawNext /\ UNCHANGED nativeVars
  <2>1. popup' = popup /\ family # "screen"
    BY <1>2, QuickDrawFamilies DEF nativeVars
  <2>2. popup = <<>>
    BY <2>1 DEF PopupInv
  <2> QED
    BY <2>1, <2>2, StoryStays
<1>3. CASE ScreenNext
  <2>1. ASSUME NEW region, TempClipRect(region)
        PROVE  PopupInv'
    BY <2>1, StoryStays DEF TempClipRect
  <2>2. ASSUME EndTempClipRect
        PROVE  PopupInv'
    <3>1. popup = <<>> /\ popup' = popup
      BY <2>2 DEF EndTempClipRect, PopupInv
    <3> QED
      BY <3>1, StoryStays
  <2>3. ASSUME NEW r, NEW pattern, NEW mode,
               ScreenFillRect(r, pattern, mode) \/ ScreenFrameRect(r, pattern, mode)
        PROVE  PopupInv'
    <3>1. popup' = <<>>
      BY <2>3 DEF ScreenFillRect, ScreenFrameRect, OnScreen, nativeVars
    <3> QED
      BY <3>1, StoryStays
  <2>4. ASSUME NEW menu \in PopUps, MenuPopUp(menu)
        PROVE  PopupInv'
    BY <2>4, MenuPopUpTells
  <2>5. ASSUME popup # <<>>, NEW item \in 0..popup[1].items-1, HoverMenuItem(item)
        PROVE  PopupInv'
    BY <2>5, HoverMenuItemTells
  <2>6. ASSUME HoverDisabledItem
        PROVE  PopupInv'
    BY <2>6, HoverDisabledItemTells
  <2>7. ASSUME MenuClose
        PROVE  PopupInv'
    BY <2>7, StoryStays DEF MenuClose
  <2> QED
    BY <1>3, <2>1, <2>2, <2>3, <2>4, <2>5, <2>6, <2>7 DEF ScreenNext
<1> QED
  BY <1>1, <1>2, <1>3 DEF Next

(* A menu that opens, highlights items in any order and closes leaves every *)
(* bit of the screen, and of memory, as it was: wherever it lies, and       *)
(* however much of it and of its title is outside the screen.               *)
THEOREM MenusLeaveNoTrace == Spec => PopupsLeaveNoTrace
<1>1. Init => GraphicsInv /\ PopupInv
  BY GraphicsInit DEF Init, PopupInv
<1>2. GraphicsInv /\ PopupInv /\ [Next]_vars => GraphicsInv' /\ PopupInv'
  BY GraphicsStep, PopupStep
<1>3. ASSUME GraphicsInv, PopupInv, Next, last'.op = "popdown"
      PROVE  mem' = popup[1].before
  <2>1. ScreenNext
    BY <1>3, PortOpsAre, DrawingOpsAre, RegionOpsAre, GeometryOpsAre
       DEF Next, QuickDrawNext, PortOps, DrawingOps, Shapes, RegionOps, GeometryOps
  <2>2. MenuClose
    BY <1>3, <2>1 DEF ScreenNext, TempClipRect, EndTempClipRect, ScreenFillRect, ScreenFrameRect,
                      OnScreen, MenuPopUp, HoverMenuItem, HoverDisabledItem, Call
  <2> QED
    BY <1>3, <2>2, MenuCloseRestores
<1>4. GraphicsInv /\ PopupInv /\ Next => (last'.op = "popdown" => mem' = popup[1].before)
  BY <1>3
<1> QED
  BY <1>1, <1>2, <1>4, PTL DEF Spec, PopupsLeaveNoTrace

-----------------------------------------------------------------------------
(* Ovals: the search that starts where the last two rows let it finds how    *)
(* far a row reaches, because an ellipse is convex.                          *)
Within(hw, hh, x, y) == x * x * (hh * hh) + y * y * (hw * hw) <= (hh * hh) * (hw * hw)

LEMMA Products ==
  ASSUME NEW a \in Nat, NEW b \in Nat, NEW c \in Nat, NEW d \in Nat, a <= c, b <= d
  PROVE  a * b \in Nat /\ c * d \in Nat /\ a * b <= c * d
<1>1. a * b \in Nat /\ a * d \in Nat /\ c * d \in Nat
  OBVIOUS
<1>2. a * b <= a * d
  BY Monotone
<1>3. d * a <= d * c
  BY Monotone
<1>4. d * a = a * d /\ d * c = c * d
  OBVIOUS
<1> QED
  BY <1>1, <1>2, <1>3, <1>4

LEMMA NearerIsWithin ==
  ASSUME NEW hw \in Nat, NEW hh \in Nat, NEW x \in Nat, NEW y \in Nat, NEW far_x \in Nat,
         NEW far_y \in Nat, x <= far_x, y <= far_y, Within(hw, hh, far_x, far_y)
  PROVE  Within(hw, hh, x, y)
<1>1. PICK p \in Nat, q \in Nat, R \in Nat : p = hh * hh /\ q = hw * hw /\ R = (hh * hh) * (hw * hw)
  <2>1. hh * hh \in Nat /\ hw * hw \in Nat
    BY Products
  <2>2. (hh * hh) * (hw * hw) \in Nat
    BY <2>1, Products
  <2> QED
    BY <2>1, <2>2
<1>2. PICK x2 \in Nat, y2 \in Nat, fx \in Nat, fy \in Nat :
        /\ x2 = x * x /\ y2 = y * y /\ fx = far_x * far_x /\ fy = far_y * far_y
        /\ x2 <= fx /\ y2 <= fy
  BY Products
<1>3. x2 * p <= fx * p /\ y2 * q <= fy * q
  BY <1>1, <1>2, Products
<1>4. x2 * p \in Nat /\ fx * p \in Nat /\ y2 * q \in Nat /\ fy * q \in Nat
  BY <1>1, <1>2, Products
<1>5. fx * p + fy * q <= R
  BY <1>1, <1>2 DEF Within
<1>6. x2 * p + y2 * q <= R
  BY <1>3, <1>4, <1>5
<1> QED
  BY <1>1, <1>2, <1>6 DEF Within

(* between two points within an ellipse is a point within it                 *)
LEMMA MiddleIsWithin ==
  ASSUME NEW hw \in Nat, NEW hh \in Nat, NEW x \in Nat, NEW y \in Nat, y >= 2, NEW far_x \in Nat,
         NEW c \in Nat, 2 * c <= x + far_x, Within(hw, hh, x, y), Within(hw, hh, far_x, y - 2)
  PROVE  Within(hw, hh, c, y - 1)
<1>1. PICK p \in Nat, q \in Nat, R \in Nat : p = hh * hh /\ q = hw * hw /\ R = (hh * hh) * (hw * hw)
  <2>1. hh * hh \in Nat /\ hw * hw \in Nat
    BY Products
  <2>2. (hh * hh) * (hw * hw) \in Nat
    BY <2>1, Products
  <2> QED
    BY <2>1, <2>2
<1>2. y - 1 \in Nat /\ y - 2 \in Nat
  OBVIOUS
<1>3. PICK x2 \in Nat, fx \in Nat, c2 \in Nat : x2 = x * x /\ fx = far_x * far_x /\ c2 = c * c
  BY Products
<1>4. PICK y2 \in Nat, y1 \in Nat, y0 \in Nat :
        y2 = y * y /\ y1 = (y - 1) * (y - 1) /\ y0 = (y - 2) * (y - 2)
  BY <1>2, Products
<1>5. 2 * c2 <= x2 + fx
  <2>1. (2 * c) * (2 * c) <= (x + far_x) * (x + far_x)
    <3>1. 2 * c \in Nat /\ x + far_x \in Nat
      OBVIOUS
    <3> QED
      BY <3>1, Products
  <2>2. (2 * c) * (2 * c) = 4 * c2
    BY <1>3
  <2>3. PICK e \in Int : e = x * far_x
    OBVIOUS
  <2>4. (x + far_x) * (x + far_x) = x2 + 2 * e + fx
    BY <1>3, <2>3
  <2>5. (x - far_x) * (x - far_x) = x2 - 2 * e + fx
    BY <1>3, <2>3
  <2>6. (x - far_x) * (x - far_x) >= 0
    <3>1. PICK d \in Int : d = x - far_x
      OBVIOUS
    <3>2. d * d >= 0
      OBVIOUS
    <3> QED
      BY <3>1, <3>2
  <2> QED
    BY <2>1, <2>2, <2>4, <2>5, <2>6
<1>6. 2 * y1 <= y2 + y0
  <2>1. y1 = y2 - 2 * y + 1
    BY <1>4
  <2>2. y0 = y2 - 4 * y + 4
    BY <1>4
  <2> QED
    BY <2>1, <2>2
<1>7. 2 * (c2 * p) <= x2 * p + fx * p
  <2>1. p * (2 * c2) <= p * (x2 + fx)
    BY <1>5, Monotone
  <2>2. p * (2 * c2) = 2 * (c2 * p)
    OBVIOUS
  <2>3. p * (x2 + fx) = x2 * p + fx * p
    OBVIOUS
  <2> QED
    BY <2>1, <2>2, <2>3
<1>8. 2 * (y1 * q) <= y2 * q + y0 * q
  <2>1. q * (2 * y1) <= q * (y2 + y0)
    BY <1>6, Monotone
  <2>2. q * (2 * y1) = 2 * (y1 * q)
    OBVIOUS
  <2>3. q * (y2 + y0) = y2 * q + y0 * q
    OBVIOUS
  <2> QED
    BY <2>1, <2>2, <2>3
<1>9. /\ c2 * p \in Int /\ x2 * p \in Int /\ fx * p \in Int
      /\ y1 * q \in Int /\ y2 * q \in Int /\ y0 * q \in Int
  OBVIOUS
<1>10. x2 * p + y2 * q <= R /\ fx * p + y0 * q <= R
  BY <1>1, <1>3, <1>4 DEF Within
<1>11. c2 * p + y1 * q <= R
  BY <1>7, <1>8, <1>9, <1>10
<1> QED
  BY <1>1, <1>3, <1>4, <1>11 DEF Within

(* what is within an ellipse is within its sides                             *)
LEMMA WithinTheSides ==
  ASSUME NEW hw \in Nat, NEW hh \in Nat \ {0}, NEW x \in Nat \ {0}, NEW y \in Nat,
         Within(hw, hh, x, y)
  PROVE  x <= hw /\ y < hh
<1>1. PICK p \in Nat, q \in Nat : p = hh * hh /\ q = hw * hw /\ p >= 1
  <2>1. 1 * 1 <= hh * hh /\ hh * hh \in Nat /\ hw * hw \in Nat
    BY Products
  <2> QED
    BY <2>1
<1>2. x <= hw
  <2>1. SUFFICES ASSUME hw + 1 <= x PROVE FALSE
    OBVIOUS
  <2>2. Within(hw, hh, hw + 1, 0)
    BY <2>1, NearerIsWithin
  <2>3. (hw + 1) * (hw + 1) * p + 0 * 0 * q <= p * q
    BY <1>1, <2>2 DEF Within
  <2>4. (hw + 1) * (hw + 1) = q + (2 * hw + 1)
    BY <1>1
  <2>5. (q + (2 * hw + 1)) * p = p * q + p * (2 * hw + 1)
    OBVIOUS
  <2>6. p * (2 * hw + 1) >= 1
    <3>1. 1 * 1 <= p * (2 * hw + 1)
      BY <1>1, Products
    <3> QED
      BY <3>1
  <2>7. p * q \in Int /\ p * (2 * hw + 1) \in Int /\ 0 * 0 * q = 0
    OBVIOUS
  <2> QED
    BY <2>3, <2>4, <2>5, <2>6, <2>7
<1>3. y < hh
  <2>1. SUFFICES ASSUME hh <= y PROVE FALSE
    OBVIOUS
  <2>2. Within(hw, hh, 1, hh)
    BY <2>1, NearerIsWithin
  <2>3. 1 * 1 * p + p * q <= p * q
    BY <1>1, <2>2 DEF Within
  <2>4. p * q \in Int /\ 1 * 1 * p = p
    OBVIOUS
  <2> QED
    BY <1>1, <2>3, <2>4
<1> QED
  BY <1>2, <1>3

LEMMA AxisIsWithin ==
  ASSUME NEW hw \in Nat, NEW hh \in Nat, NEW y \in 0..hh
  PROVE  Within(hw, hh, 0, y)
<1>1. PICK p \in Nat, q \in Nat : p = hh * hh /\ q = hw * hw
  BY Products
<1>2. 0 * 0 * p + p * q <= p * q
  <2>1. p * q \in Int /\ 0 * 0 * p = 0
    OBVIOUS
  <2> QED
    BY <2>1
<1>3. Within(hw, hh, 0, hh)
  BY <1>1, <1>2 DEF Within
<1> QED
  BY <1>3, NearerIsWithin

LEMMA Int32Is ==
  ASSUME NEW v \in Nat, v < HalfInt
  PROVE  Int32(v) = v
<1>1. PICK w \in Nat \ {0} : w = 2 * HalfInt
  BY BitmapAssumption
<1>2. v + HalfInt \in 0..(w - 1) /\ v + HalfInt = w * 0 + (v + HalfInt) /\ v + HalfInt \in Int
  BY <1>1, BitmapAssumption
<1>3. (v + HalfInt) % w = v + HalfInt
  BY <1>2, QuotientIs
<1> QED
  BY <1>1, <1>2, <1>3, BitmapAssumption DEF Int32

(* one step further out than a point within an ellipse no product leaves an  *)
(* int                                                                       *)
LEMMA OneFurtherFits ==
  ASSUME NEW hw \in Nat, NEW hh \in Nat \ {0}, FitsInt(hw, hh), NEW x \in 0..hw, NEW y \in Nat,
         y < hh, Within(hw, hh, x, y), NEW o \in Nat, o <= x + 1
  PROVE  /\ o * o * (hh * hh) + (y + 1) * (y + 1) * (hw * hw) \in Nat
         /\ (hh * hh) * (hw * hw) \in Nat
         /\ Int32(o * o * (hh * hh) + (y + 1) * (y + 1) * (hw * hw))
              = o * o * (hh * hh) + (y + 1) * (y + 1) * (hw * hw)
         /\ Int32((hh * hh) * (hw * hw)) = (hh * hh) * (hw * hw)
<1>1. PICK p \in Nat, q \in Nat : p = hh * hh /\ q = hw * hw
  BY Products
<1>2. PICK R \in Nat : R = p * q
  BY Products
<1>3. PICK x2 \in Nat, y2 \in Nat, o2 \in Nat, z2 \in Nat :
        x2 = x * x /\ y2 = y * y /\ o2 = o * o /\ z2 = (y + 1) * (y + 1)
  <2>1. x \in Nat /\ y + 1 \in Nat
    OBVIOUS
  <2> QED
    BY <2>1, Products
<1>4. o2 <= x2 + 2 * hw + 1
  <2>1. x \in Nat /\ x + 1 \in Nat /\ 2 * x <= 2 * hw
    OBVIOUS
  <2>2. o * o <= (x + 1) * (x + 1)
    BY <2>1, Products
  <2>3. (x + 1) * (x + 1) = x2 + 2 * x + 1
    BY <1>3, <2>1
  <2> QED
    BY <1>3, <2>1, <2>2, <2>3
<1>5. z2 <= y2 + 2 * hh
  <2>1. z2 = y2 + 2 * y + 1
    BY <1>3
  <2> QED
    BY <2>1
<1>6. PICK op \in Nat, zq \in Nat, xp \in Nat, yq \in Nat, ap \in Nat, bq \in Nat :
        /\ op = o2 * p /\ zq = z2 * q /\ xp = x2 * p /\ yq = y2 * q
        /\ ap = (2 * hw + 1) * p /\ bq = (2 * hh) * q
  <2>1. 2 * hw + 1 \in Nat /\ 2 * hh \in Nat
    OBVIOUS
  <2> QED
    BY <2>1, Products
<1>7. op <= xp + ap
  <2>1. p * o2 <= p * (x2 + 2 * hw + 1)
    BY <1>4, Monotone
  <2>2. p * o2 = op /\ p * (x2 + 2 * hw + 1) = xp + ap
    BY <1>6
  <2> QED
    BY <2>1, <2>2
<1>8. zq <= yq + bq
  <2>1. q * z2 <= q * (y2 + 2 * hh)
    BY <1>5, Monotone
  <2>2. q * z2 = zq /\ q * (y2 + 2 * hh) = yq + bq
    BY <1>6
  <2> QED
    BY <2>1, <2>2
<1>9. xp + yq <= R
  <2>1. x * x * (hh * hh) + y * y * (hw * hw) <= (hh * hh) * (hw * hw)
    BY DEF Within
  <2>2. x * x * (hh * hh) = xp /\ y * y * (hw * hw) = yq /\ (hh * hh) * (hw * hw) = R
    BY <1>1, <1>2, <1>3, <1>6
  <2> QED
    BY <2>1, <2>2
<1>10. R + ap + bq < HalfInt
  <2>1. PICK a \in Nat, b \in Nat : a = q + 2 * hw + 1 /\ b = p + 2 * hh + 1
    OBVIOUS
  <2>2. (hw + 1) * (hw + 1) = a /\ (hh + 1) * (hh + 1) = b
    BY <1>1, <2>1
  <2>3. a * b <= HalfInt
    BY <2>2 DEF FitsInt
  <2>4. a * b = R + ap + bq + (2 * hw + 1) * (2 * hh) + a
    <3>1. a * b = a * p + a * (2 * hh) + a
      BY <2>1
    <3>2. a * p = R + ap
      BY <1>2, <1>6, <2>1
    <3>3. a * (2 * hh) = bq + (2 * hw + 1) * (2 * hh)
      BY <1>6, <2>1
    <3>4. (2 * hw + 1) * (2 * hh) \in Int
      OBVIOUS
    <3> QED
      BY <3>1, <3>2, <3>3, <3>4
  <2>5. (2 * hw + 1) * (2 * hh) \in Nat
    <3>1. 2 * hw + 1 \in Nat /\ 2 * hh \in Nat
      OBVIOUS
    <3> QED
      BY <3>1, Products
  <2>6. a >= 1 /\ HalfInt \in Nat
    BY <2>1, BitmapAssumption
  <2> QED
    BY <2>3, <2>4, <2>5, <2>6
<1>11. PICK total \in Nat : total = op + zq
  OBVIOUS
<1>12. total < HalfInt /\ R < HalfInt
  BY <1>7, <1>8, <1>9, <1>10, <1>11, BitmapAssumption
<1>13. Int32(total) = total /\ Int32(R) = R
  BY <1>12, Int32Is
<1>14. /\ o * o * (hh * hh) + (y + 1) * (y + 1) * (hw * hw) = total
       /\ (hh * hh) * (hw * hw) = R
  BY <1>1, <1>2, <1>3, <1>6, <1>11
<1> QED
  BY <1>13, <1>14

(* EllipseOffset finds the largest offset that is within the ellipse         *)
LEMMA EllipseReach ==
  ASSUME NEW hw \in Nat, NEW hh \in Nat \ {0}, FitsInt(hw, hh), NEW row \in 0..hh,
         NEW x \in Nat \ {0}
  PROVE  /\ EllipseOffset(hw, hh)[row] \in 0..hw
         /\ x <= EllipseOffset(hw, hh)[row] <=> Within(hw, hh, x, row)
<1>1. EllipseOffset(hw, hh) = CHOOSE reach : Reaches(reach, hw, hh, hh)
  BY Zenon DEF EllipseOffset, Reaches, Reach, ReachFrom
<1>2. PICK f : f = EllipseOffset(hw, hh)
  OBVIOUS
<1>3. Reaches(f, hw, hh, hh)
  BY <1>1, <1>2, ReachesExists, Zenon
<1>4. \A j \in 0..hh : f[j] \in Int
  BY <1>2, EllipseOffsetType
<1> DEFINE Right(j) == /\ f[j] \in 0..hw
                       /\ \A d \in Nat \ {0} : d <= f[j] <=> Within(hw, hh, d, j)
           S == {k \in 0..hh : \A j \in 0..k : Right(j)}
<1> HIDE DEF Right
<1>5. Right(0)
  <2>1. f[0] = hw
    BY <1>3 DEF Reaches, Reach
  <2>2. Within(hw, hh, hw, 0)
    BY DEF Within
  <2>3. ASSUME NEW d \in Nat \ {0}, d <= hw
        PROVE  Within(hw, hh, d, 0)
    BY <2>2, <2>3, NearerIsWithin
  <2>4. ASSUME NEW d \in Nat \ {0}, Within(hw, hh, d, 0)
        PROVE  d <= hw
    BY <2>4, WithinTheSides
  <2> QED
    BY <2>1, <2>3, <2>4 DEF Right
<1>6. ASSUME NEW k \in 1..hh, \A j \in 0..(k - 1) : Right(j)
      PROVE  Right(k)
  <2>1. f[k] = Reach(hw, hh, f, k)
    <3>1. k \in 0..hh
      OBVIOUS
    <3> QED
      BY <1>3, <3>1, Zenon DEF Reaches
  <2>2. PICK slope \in Int : slope = IF k = 1 THEN 0 ELSE f[k - 2] - f[k - 1]
    <3>1. k - 1 \in 0..hh /\ (k # 1 => k - 2 \in 0..hh)
      OBVIOUS
    <3> QED
      BY <1>4, <3>1
  <2>3. PICK from \in Int : from = f[k - 1] - (slope - 1)
    <3>1. k - 1 \in 0..hh
      OBVIOUS
    <3> QED
      BY <1>4, <2>2, <3>1
  <2>4. PICK found : found = {offset \in 1..from :
                       Int32(offset * offset * (hh * hh) + k * k * (hw * hw))
                         <= Int32((hh * hh) * (hw * hw))}
    OBVIOUS
  <2>5. f[k] = IF from <= 0 THEN from
               ELSE IF found = {} THEN 0 ELSE CHOOSE o \in found : \A p \in found : p <= o
    <3>1. k # 0
      OBVIOUS
    <3> QED
      BY <2>1, <2>2, <2>3, <2>4, <3>1, Zenon DEF Reach, ReachFrom
  <2>6. PICK B \in 0..hw, y \in Nat : B = f[k - 1] /\ y = k - 1 /\ k = y + 1 /\ y < hh
    <3>1. k - 1 \in 0..(k - 1)
      OBVIOUS
    <3> QED
      BY <1>6, <3>1 DEF Right
  <2>7. Within(hw, hh, B, y)
    <3>1. CASE B = 0
      BY <2>6, <3>1, AxisIsWithin
    <3>2. CASE B # 0
      <4>1. B \in Nat \ {0} /\ B <= f[k - 1] /\ k - 1 \in 0..(k - 1)
        BY <2>6, <3>2
      <4> QED
        BY <1>6, <2>6, <4>1 DEF Right
    <3> QED
      BY <3>1, <3>2
  <2>8. from \in 0..B + 1
    <3>1. CASE k = 1
      BY <2>2, <2>3, <2>6, <3>1
    <3>2. CASE k # 1
      <4>1. k - 2 \in 0..(k - 1) /\ k - 2 \in Nat /\ k \in Nat /\ k >= 2 /\ k - 2 <= k - 1
        BY <3>2
      <4>2. PICK A \in 0..hw : A = f[k - 2]
        BY <1>6, <4>1 DEF Right
      <4>3. from = 2 * B - A + 1
        BY <2>2, <2>3, <2>6, <3>2, <4>2
      <4>4. B <= A
        <5>1. CASE B = 0
          BY <5>1
        <5>2. CASE B # 0
          <6>1. B \in Nat \ {0} /\ Within(hw, hh, B, k - 2)
            BY <2>6, <2>7, <4>1, <5>2, NearerIsWithin
          <6> QED
            BY <1>6, <4>1, <4>2, <6>1 DEF Right
        <5> QED
          BY <5>1, <5>2
      <4>5. A <= 2 * B + 1
        <5>1. SUFFICES ASSUME 2 * (B + 1) <= 0 + A PROVE FALSE
          OBVIOUS
        <5>2. A \in Nat \ {0} /\ A <= f[k - 2]
          BY <4>2, <5>1
        <5>3. Within(hw, hh, A, k - 2)
          BY <1>6, <4>1, <5>2 DEF Right
        <5>4. Within(hw, hh, 0, k)
          <6>1. k \in 0..hh
            OBVIOUS
          <6> QED
            BY <6>1, AxisIsWithin
        <5>5. B + 1 \in Nat \ {0} /\ k - 1 \in 0..(k - 1)
          BY <4>1
        <5>6. Within(hw, hh, B + 1, k - 1)
          BY <4>1, <5>1, <5>2, <5>3, <5>4, <5>5, MiddleIsWithin
        <5>7. B + 1 <= f[k - 1]
          BY <1>6, <5>5, <5>6 DEF Right
        <5> QED
          BY <2>6, <5>7
      <4> QED
        BY <4>3, <4>4, <4>5
    <3> QED
      BY <3>1, <3>2
  <2>9. \A o : o \in found <=> o \in 1..from /\ Within(hw, hh, o, k)
    <3>1. ASSUME NEW o \in 1..from
          PROVE  (Int32(o * o * (hh * hh) + k * k * (hw * hw)) <= Int32((hh * hh) * (hw * hw)))
                 <=> Within(hw, hh, o, k)
      <4>1. o \in Nat /\ o <= B + 1
        BY <2>8
      <4>2. /\ o * o * (hh * hh) + (y + 1) * (y + 1) * (hw * hw) \in Nat
            /\ (hh * hh) * (hw * hw) \in Nat
            /\ Int32(o * o * (hh * hh) + (y + 1) * (y + 1) * (hw * hw))
                 = o * o * (hh * hh) + (y + 1) * (y + 1) * (hw * hw)
            /\ Int32((hh * hh) * (hw * hw)) = (hh * hh) * (hw * hw)
        <5>1. B \in 0..hw /\ y \in Nat /\ y < hh
          BY <2>6
        <5> QED
          BY <2>7, <4>1, <5>1, OneFurtherFits, Zenon
      <4> QED
        BY <2>6, <4>2, Zenon DEF Within
    <3> QED
      BY <2>4, <3>1
  <2>10. f[k] \in 0..hw
    <3>1. f[k] \in Nat
      <4>1. CASE from <= 0
        BY <2>5, <2>8, <4>1
      <4>2. CASE ~(from <= 0) /\ found = {}
        BY <2>5, <4>2
      <4>3. CASE ~(from <= 0) /\ found # {}
        <5>1. from \in Nat /\ found \subseteq 0..from
          BY <2>9, <4>3
        <5>2. \E o \in found : \A p \in found : p <= o
          BY <4>3, <5>1, LargestElement
        <5>3. (CHOOSE o \in found : \A p \in found : p <= o) \in found
          BY <5>2, Zenon
        <5>4. f[k] \in found
          BY <2>5, <4>3, <5>3, Zenon
        <5>5. f[k] \in 0..from
          BY <5>1, <5>4, Zenon
        <5> QED
          BY <5>1, <5>5
      <4> QED
        BY <4>1, <4>2, <4>3
    <3>2. f[k] # 0 => Within(hw, hh, f[k], k)
      <4>1. SUFFICES ASSUME f[k] # 0 PROVE Within(hw, hh, f[k], k)
        OBVIOUS
      <4>2. ~(from <= 0) /\ found # {}
        BY <2>5, <2>8, <4>1
      <4>3. from \in Nat /\ found \subseteq 0..from
        BY <2>9, <4>2
      <4>4. \E o \in found : \A p \in found : p <= o
        BY <4>2, <4>3, LargestElement
      <4>5. (CHOOSE o \in found : \A p \in found : p <= o) \in found
        BY <4>4, Zenon
      <4> QED
        BY <2>5, <2>9, <4>2, <4>5, Zenon
    <3>3. CASE f[k] = 0
      BY <3>3
    <3>4. CASE f[k] # 0
      <4>1. f[k] \in Nat \ {0} /\ k \in Nat
        BY <3>1, <3>4
      <4>2. f[k] <= hw
        BY <3>2, <3>4, <4>1, WithinTheSides
      <4> QED
        BY <3>1, <4>2
    <3> QED
      BY <3>3, <3>4
  <2>11. ASSUME NEW d \in Nat \ {0}, Within(hw, hh, d, k)
        PROVE  d <= from
    <3>1. Within(hw, hh, d, k - 1) /\ k - 1 \in 0..(k - 1) /\ k - 1 \in 0..hh
      BY <2>11, NearerIsWithin
    <3>2. d <= f[k - 1] /\ f[k - 1] \in Int
      BY <1>4, <1>6, <3>1 DEF Right
    <3>3. CASE k = 1
      BY <2>2, <2>3, <3>2, <3>3
    <3>4. CASE k # 1
      <4>1. PICK A \in Int : A = f[k - 2]
        BY <1>4, <3>1, <3>4
      <4>2. from = 2 * B - A + 1
        BY <2>2, <2>3, <2>6, <3>4, <4>1
      <4>3. k - 2 \in 0..(k - 1) /\ k - 2 \in Nat /\ k \in Nat /\ k >= 2
        BY <3>4
      <4>4. Within(hw, hh, d, k - 2)
        BY <2>11, <4>3, NearerIsWithin
      <4>5. d <= A
        BY <1>6, <4>1, <4>3, <4>4 DEF Right
      <4>6. A \in Nat \ {0} /\ B \in Nat \ {0}
        BY <2>6, <3>2, <4>1, <4>5
      <4>7. Within(hw, hh, A, k - 2)
        BY <1>6, <4>1, <4>3, <4>6 DEF Right
      <4>8. SUFFICES ASSUME 2 * (B + 1) <= d + A PROVE FALSE
        BY <4>2
      <4>9. PICK c \in Nat \ {0} : c = B + 1
        BY <4>6
      <4>10. Within(hw, hh, c, k - 1)
        BY <2>11, <4>3, <4>6, <4>7, <4>8, <4>9, MiddleIsWithin
      <4>11. c <= B
        BY <1>6, <2>6, <3>1, <4>9, <4>10 DEF Right
      <4> QED
        BY <4>9, <4>11
    <3> QED
      BY <3>3, <3>4
  <2>12. CASE from <= 0
    <3>1. f[k] = from
      BY <2>5, <2>12
    <3>2. \A d \in Nat \ {0} : ~(d <= from)
      BY <2>12
    <3> QED
      BY <2>11, <2>10, <3>1, <3>2 DEF Right
  <2>13. CASE ~(from <= 0) /\ found = {}
    <3>1. f[k] = 0
      BY <2>5, <2>13
    <3>2. ASSUME NEW d \in Nat \ {0}, Within(hw, hh, d, k)
          PROVE  FALSE
      <4>1. d \in 1..from
        BY <2>11, <3>2
      <4> QED
        BY <2>9, <2>13, <3>2, <4>1
    <3>3. \A d \in Nat \ {0} : ~(d <= 0)
      OBVIOUS
    <3> QED
      BY <2>10, <3>1, <3>2, <3>3 DEF Right
  <2>14. CASE ~(from <= 0) /\ found # {}
    <3>1. from \in Nat /\ found \subseteq 0..from
      BY <2>9, <2>14
    <3>2. \E o \in found : \A p \in found : p <= o
      BY <2>14, <3>1, LargestElement
    <3>3. PICK o : o = CHOOSE e \in found : \A p \in found : p <= e
      OBVIOUS
    <3>4. o \in found /\ \A p \in found : p <= o
      BY <3>2, <3>3, Zenon
    <3>5. f[k] = o
      BY <2>5, <2>14, <3>3, Zenon
    <3>6. o \in Nat /\ Within(hw, hh, o, k)
      BY <2>9, <3>4
    <3>7. ASSUME NEW d \in Nat \ {0}, d <= o
          PROVE  Within(hw, hh, d, k)
      BY <3>6, <3>7, NearerIsWithin
    <3>8. ASSUME NEW d \in Nat \ {0}, Within(hw, hh, d, k)
          PROVE  d <= o
      <4>1. d \in 1..from
        BY <2>11, <3>8
      <4> QED
        BY <2>9, <3>4, <3>8, <4>1
    <3> QED
      BY <2>10, <3>5, <3>7, <3>8 DEF Right
  <2> QED
    BY <2>12, <2>13, <2>14
<1>7. 0 \in S
  <2>1. \A j \in 0..0 : j = 0
    OBVIOUS
  <2> QED
    BY <1>5, <2>1
<1>8. ASSUME NEW k \in 1..hh, k - 1 \in S
      PROVE  k \in S
  <2>1. \A j \in 0..(k - 1) : Right(j)
    BY <1>8
  <2>2. Right(k)
    BY <1>6, <2>1
  <2>3. \A j \in 0..k : j \in 0..(k - 1) \/ j = k
    OBVIOUS
  <2> QED
    BY <2>1, <2>2, <2>3
<1> HIDE DEF S
<1>9. \A k \in 0..hh : k \in S
  BY <1>7, <1>8, LoopInduction
<1>10. Right(row)
  BY <1>9 DEF S
<1> QED
  BY <1>2, <1>10 DEF Right

(* A rectangle whose pixels can be counted.                                  *)
Countable(r) ==
  /\ Sided(r) /\ RectWidth(r) = r.right - r.left /\ RectHeight(r) = r.bottom - r.top
  /\ RectWidth(r) >= 1 /\ RectHeight(r) >= 1

LEMMA HalvesAre ==
  ASSUME NEW v \in Nat
  PROVE  Half2(v) \in Nat /\ v \div 2 = Half2(v) /\ 2 * Half2(v) <= v /\ v <= 2 * Half2(v) + 1
BY DEF Half2

LEMMA CountableIs ==
  ASSUME NEW r, Countable(r)
  PROVE  /\ r.top \in Int /\ r.left \in Int /\ r.bottom \in Int /\ r.right \in Int
         /\ RectWidth(r) = r.right - r.left /\ RectHeight(r) = r.bottom - r.top
         /\ RectWidth(r) \in Nat \ {0} /\ RectHeight(r) \in Nat \ {0}
         /\ Half2(RectWidth(r)) \in Nat /\ Half2(RectHeight(r)) \in Nat
<1>1. r.top \in Int /\ r.left \in Int /\ r.bottom \in Int /\ r.right \in Int
  BY DEF Countable, Sided
<1>2. /\ RectWidth(r) = r.right - r.left /\ RectHeight(r) = r.bottom - r.top
      /\ RectWidth(r) >= 1 /\ RectHeight(r) >= 1
  BY DEF Countable
<1>3. RectWidth(r) \in Nat \ {0} /\ RectHeight(r) \in Nat \ {0}
  BY <1>1, <1>2
<1> QED
  BY <1>1, <1>2, <1>3, HalvesAre

LEMMA OvalFillPaint ==
  ASSUME NEW D \in SUBSET Int, NEW m \in [D -> Byte], NEW img, IsImage(img), NEW r, Countable(r),
         NEW pattern \in Pattern, NEW junk, NEW dy \in Int, 0 <= Half2(RectHeight(r)) + dy,
         NEW start \in Int, NEW end \in Int
  PROVE  Paints(D, m, OvalFill(m, img, r, pattern, junk, dy, start, end), img,
                InRow(img, r.top + Half2(RectHeight(r)) + dy, start, end),
                Inked(pattern, r.left, r.top), "Copy")
<1>1. r.top \in Int /\ r.left \in Int /\ Half2(RectHeight(r)) \in Nat
  BY CountableIs
<1>2. PICK row \in Int, k \in Nat :
        row = r.top + Half2(RectHeight(r)) + dy /\ k = Half2(RectHeight(r)) + dy /\ row - r.top = k
  BY <1>1
<1>3. PICK swatch : swatch = Swatch(pattern, k, r.left, {})
  OBVIOUS
<1>4. swatch = Swatch(pattern, k, r.left, junk)
  BY <1>2, <1>3 DEF Swatch
<1>5. PICK ink : ink = Inked(pattern, r.left, r.top)
  OBVIOUS
<1>6. OvalFill(m, img, r, pattern, junk, dy, start, end)
      = FillRow(m, img, row, start, end, Scanline(img, row), swatch, "Copy")
  BY <1>2, <1>4 DEF OvalFill
<1>7. ASSUME NEW x \in Int
      PROVE  x % CHAR_BIT \in swatch <=> <<x, row>> \in ink
  <2>1. <<x, row>> \in ink
          <=> (x - MAX(0, r.left)) % CHAR_BIT \in pattern[(row - r.top) % PatternRows]
    BY <1>5 DEF Inked
  <2>2. x % CHAR_BIT \in Swatch(pattern, k, r.left, {})
          <=> (x - MAX(0, r.left)) % CHAR_BIT \in pattern[k % PatternRows]
    BY <1>1, SwatchIs
  <2> QED
    BY <1>2, <1>3, <2>1, <2>2
<1>8. Paints(D, m, FillRow(m, img, row, start, end, Scanline(img, row), swatch, "Copy"), img,
             InRow(img, row, start, end), ink, "Copy")
  BY <1>7, ModesAre, FillRowPaint
<1> QED
  BY <1>2, <1>5, <1>6, <1>8

(* the pixels of the two rows of an oval that are k rows from its centre     *)
OvalRow(img, r, k) ==
  LET cx == r.left + Half2(RectWidth(r))
      cy == r.top + Half2(RectHeight(r))
      o == EllipseOffset(Half2(RectWidth(r)), Half2(RectHeight(r)))[k]
      start == Int16(cx - o)
      end == Int16(cx + o)
  IN InRow(img, cy - k, start, end) \cup InRow(img, cy + k, start, end)

LEMMA OvalRowsPaint ==
  ASSUME NEW D \in SUBSET Int, NEW m \in [D -> Byte], NEW img, IsImage(img), NEW r, Countable(r),
         NEW pattern \in Pattern, NEW junk, NEW k \in 1..Half2(RectHeight(r))
  PROVE  Paints(D, m, OvalRows(m, img, r, pattern, junk, k), img, OvalRow(img, r, k),
                Inked(pattern, r.left, r.top), "Copy")
<1>1. /\ r.top \in Int /\ r.left \in Int
      /\ Half2(RectWidth(r)) \in Nat /\ Half2(RectHeight(r)) \in Nat
  BY CountableIs
<1>2. PICK o \in Int : o = EllipseOffset(Half2(RectWidth(r)), Half2(RectHeight(r)))[k]
  BY <1>1, EllipseOffsetType
<1>3. PICK cx \in Int, cy \in Int :
        cx = r.left + Half2(RectWidth(r)) /\ cy = r.top + Half2(RectHeight(r))
  BY <1>1
<1>4. PICK start \in Int, end \in Int : start = Int16(cx - o) /\ end = Int16(cx + o)
  <2>1. cx - o \in Int /\ cx + o \in Int
    OBVIOUS
  <2> QED
    BY <2>1, Int16Is, CoordinatesAreInt
<1>5. PICK m1, m2 : /\ m1 = OvalFill(m, img, r, pattern, junk, -k, start, end)
                    /\ m2 = OvalFill(m1, img, r, pattern, junk, k, start, end)
  OBVIOUS
<1>6. OvalRows(m, img, r, pattern, junk, k) = m2
  BY <1>2, <1>3, <1>4, <1>5 DEF OvalRows
<1>7. PICK P, Q, ink : /\ P = InRow(img, cy - k, start, end) /\ Q = InRow(img, cy + k, start, end)
                       /\ ink = Inked(pattern, r.left, r.top)
  OBVIOUS
<1>8. OvalRow(img, r, k) = P \cup Q
  BY <1>2, <1>3, <1>4, <1>7 DEF OvalRow
<1>9. -k \in Int /\ k \in Int /\ cy + -k = cy - k
      /\ 0 <= Half2(RectHeight(r)) + -k /\ 0 <= Half2(RectHeight(r)) + k
  BY <1>1, <1>3
<1>10. Paints(D, m, m1, img, P, ink, "Copy")
  <2>1. Paints(D, m, OvalFill(m, img, r, pattern, junk, -k, start, end), img,
               InRow(img, r.top + Half2(RectHeight(r)) + -k, start, end),
               Inked(pattern, r.left, r.top), "Copy")
    BY <1>9, OvalFillPaint
  <2> QED
    BY <1>3, <1>5, <1>7, <1>9, <2>1
<1>11. m1 \in [D -> Byte]
  BY <1>10 DEF Paints
<1>12. Paints(D, m1, m2, img, Q, ink, "Copy")
  <2>1. Paints(D, m1, OvalFill(m1, img, r, pattern, junk, k, start, end), img,
               InRow(img, r.top + Half2(RectHeight(r)) + k, start, end),
               Inked(pattern, r.left, r.top), "Copy")
    BY <1>9, <1>11, OvalFillPaint
  <2> QED
    BY <1>3, <1>5, <1>7, <2>1
<1>13. P \cap Q = {}
  <2>1. cy - k # cy + k
    OBVIOUS
  <2> QED
    BY <1>7, <2>1 DEF InRow
<1> QED
  BY <1>6, <1>7, <1>8, <1>10, <1>12, <1>13, PaintsBoth

OvalReaches(hw, hh, dx, dy) ==
  \/ dy = 0
  \/ dy * dy <= hh * hh /\ dx * dx * hh * hh + dy * dy * hw * hw <= hw * hw * hh * hh
Across(x, c) == IF x >= c THEN x - c + 1 ELSE c - x

LEMMA OvalIs ==
  ASSUME NEW r, NEW x \in Int, NEW y, r.left \in Int, (r.right - r.left) \div 2 \in Int
  PROVE  InOval(r, x, y)
          <=> /\ InRect(r, x, y)
              /\ OvalReaches((r.right - r.left) \div 2, (r.bottom - r.top) \div 2,
                             Across(x, r.left + (r.right - r.left) \div 2),
                             y - (r.top + (r.bottom - r.top) \div 2))
<1> DEFINE a == (r.right - r.left) \div 2
           b == (r.bottom - r.top) \div 2
           v == y - (r.top + b)
           u == IF x >= r.left + a THEN x - (r.left + a) + 1 ELSE r.left + a - x
<1>1. InOval(r, x, y)
        <=> InRect(r, x, y)
            /\ (v = 0 \/ (v * v <= b * b /\ u * u * b * b + v * v * a * a <= a * a * b * b))
  BY DEF InOval
<1>2. u = Across(x, r.left + a)
  <2> HIDE DEF a
  <2>1. r.left + a - x = (r.left + a) - x
    BY DEF a
  <2> QED
    BY <2>1 DEF Across
<1> HIDE DEF a, b, u, v
<1>3. InOval(r, x, y) <=> InRect(r, x, y) /\ OvalReaches(a, b, u, v)
  BY <1>1, Zenon DEF OvalReaches
<1> QED
  BY <1>2, <1>3, Zenon DEF a, b, v

(* a pixel is in one of these rows if the definition of an oval says so      *)
LEMMA OvalRowIs ==
  ASSUME NEW img, IsImage(img), NEW r \in Rect, Countable(r), NEW p \in img.clip,
         FitsInt(Half2(RectWidth(r)), Half2(RectHeight(r))),
         p[2] # r.top + Half2(RectHeight(r))
  PROVE  /\ InOval(r, p[1], p[2])
              <=> \E k \in 1..Half2(RectHeight(r)) : p \in OvalRow(img, r, k)
<1>1. PICK hw \in Nat, hh \in Nat, top \in Int, left \in Int, bottom \in Int, right \in Int :
        /\ hw = Half2(RectWidth(r)) /\ hh = Half2(RectHeight(r))
        /\ top = r.top /\ left = r.left /\ bottom = r.bottom /\ right = r.right
        /\ hw = (r.right - r.left) \div 2 /\ hh = (r.bottom - r.top) \div 2
        /\ 2 * hw <= right - left /\ right - left <= 2 * hw + 1
        /\ 2 * hh <= bottom - top /\ bottom - top <= 2 * hh + 1
  <2>1. PICK width \in Nat, height \in Nat, top \in Int, left \in Int, bottom \in Int, right \in Int :
          /\ width = RectWidth(r) /\ height = RectHeight(r)
          /\ top = r.top /\ left = r.left /\ bottom = r.bottom /\ right = r.right
          /\ width = right - left /\ height = bottom - top
    BY CountableIs
  <2>2. /\ Half2(width) \in Nat /\ width \div 2 = Half2(width)
        /\ 2 * Half2(width) <= width /\ width <= 2 * Half2(width) + 1
    BY HalvesAre
  <2>3. /\ Half2(height) \in Nat /\ height \div 2 = Half2(height)
        /\ 2 * Half2(height) <= height /\ height <= 2 * Half2(height) + 1
    BY HalvesAre
  <2>4. PICK hw \in Nat, hh \in Nat : hw = Half2(width) /\ hh = Half2(height)
    BY <2>2, <2>3
  <2>5. hw = (r.right - r.left) \div 2 /\ hh = (r.bottom - r.top) \div 2
    <3>1. r.right - r.left = width /\ r.bottom - r.top = height
      BY <2>1
    <3> QED
      BY <2>2, <2>3, <2>4, <3>1, Zenon
  <2>6. /\ 2 * hw <= right - left /\ right - left <= 2 * hw + 1
        /\ 2 * hh <= bottom - top /\ bottom - top <= 2 * hh + 1
    BY <2>1, <2>2, <2>3, <2>4
  <2>7. hw = Half2(RectWidth(r)) /\ hh = Half2(RectHeight(r))
    BY <2>1, <2>4
  <2>8. top = r.top /\ left = r.left /\ bottom = r.bottom /\ right = r.right
    BY <2>1
  <2> QED
    BY <2>5, <2>6, <2>7, <2>8, Zenon
<1>2. PICK x \in Int, y \in Int : p = <<x, y>> /\ x = p[1] /\ y = p[2]
  BY ClipPixels
<1>3. PICK cx \in Int, cy \in Int : cx = left + hw /\ cy = top + hh
  OBVIOUS
<1>4. PICK dy \in Int : dy = y - cy /\ dy # 0
  BY <1>1, <1>2, <1>3
<1>5. PICK j \in Nat \ {0} : j = dy \/ j = -dy
  <2>1. CASE dy > 0
    <3>1. dy \in Nat \ {0}
      BY <2>1
    <3> QED
      BY <3>1
  <2>2. CASE ~(dy > 0)
    <3>1. -dy \in Nat \ {0}
      BY <1>4, <2>2
    <3> QED
      BY <3>1
  <2> QED
    BY <2>1, <2>2
<1>6. PICK dx \in Nat \ {0} : dx = IF x >= cx THEN x - cx + 1 ELSE cx - x
  <2>1. CASE x >= cx
    <3>1. x - cx + 1 \in Nat \ {0}
      BY <2>1
    <3> QED
      BY <2>1, <3>1
  <2>2. CASE ~(x >= cx)
    <3>1. cx - x \in Nat \ {0}
      BY <2>2
    <3> QED
      BY <2>2, <3>1
  <2> QED
    BY <2>1, <2>2
<1>7. InOval(r, x, y) <=> InRect(r, x, y) /\ dy * dy <= hh * hh /\ Within(hw, hh, dx, j)
  <2>1. InOval(r, x, y)
          <=> InRect(r, x, y)
              /\ dy * dy <= hh * hh
              /\ dx * dx * hh * hh + dy * dy * hw * hw <= hw * hw * hh * hh
    <3>1. cx = r.left + hw /\ cy = r.top + hh
      BY <1>1, <1>3
    <3>2. dy = y - cy /\ dy # 0 /\ dx = IF x >= cx THEN x - cx + 1 ELSE cx - x
      BY <1>4, <1>6
    <3>3. x \in Int /\ r.left \in Int /\ (r.right - r.left) \div 2 \in Int
      BY <1>1
    <3>4. InOval(r, x, y)
            <=> /\ InRect(r, x, y)
                /\ OvalReaches((r.right - r.left) \div 2, (r.bottom - r.top) \div 2,
                               Across(x, r.left + (r.right - r.left) \div 2),
                               y - (r.top + (r.bottom - r.top) \div 2))
      BY <3>3, OvalIs
    <3>5. (r.right - r.left) \div 2 = hw /\ (r.bottom - r.top) \div 2 = hh
      BY <1>1
    <3>6. r.left + hw = cx /\ r.top + hh = cy
      BY <1>1, <1>3
    <3>7. y - cy = dy
      BY <3>2
    <3>8. Across(x, cx) = dx
      BY <3>2 DEF Across
    <3>9. InOval(r, x, y) <=> InRect(r, x, y) /\ OvalReaches(hw, hh, dx, dy)
      BY <3>4, <3>5, <3>6, <3>7, <3>8
    <3> QED
      BY <3>2, <3>9, Zenon DEF OvalReaches
  <2>2. dx * dx * hh * hh = dx * dx * (hh * hh)
    OBVIOUS
  <2>3. dy * dy * hw * hw = j * j * (hw * hw)
    BY <1>5
  <2>4. hw * hw * hh * hh = (hh * hh) * (hw * hw)
    OBVIOUS
  <2> QED
    BY <2>1, <2>2, <2>3, <2>4 DEF Within
<1>8. ASSUME Within(hw, hh, dx, j), j <= hh
      PROVE  InRect(r, x, y) /\ dy * dy <= hh * hh
  <2>1. dx <= hw /\ j < hh
    <3>1. hh \in Nat \ {0} /\ j \in Nat
      BY <1>8
    <3>2. dx \in Nat \ {0} /\ hw \in Nat /\ Within(hw, hh, dx, j)
      BY <1>8
    <3> QED
      BY <3>1, <3>2, WithinTheSides
  <2>2. left <= x /\ x < right
    BY <1>1, <1>3, <1>6, <2>1
  <2>3. top <= y /\ y < bottom
    BY <1>1, <1>3, <1>4, <1>5, <2>1
  <2>4. dy * dy <= hh * hh
    <3>1. j * j <= hh * hh
      BY <2>1, Products
    <3>2. dy * dy = j * j
      BY <1>5
    <3> QED
      BY <3>1, <3>2
  <2> QED
    BY <1>1, <2>2, <2>3, <2>4 DEF InRect
<1>9. InRect(r, x, y) => j <= hh
  BY <1>1, <1>3, <1>4, <1>5 DEF InRect
<1>10. FitsInt(hw, hh)
  BY <1>1
<1>11. ASSUME NEW k \in 1..hh
       PROVE  p \in OvalRow(img, r, k) <=> k = j /\ Within(hw, hh, dx, k)
  <2>1. PICK o \in 0..hw : o = EllipseOffset(hw, hh)[k]
    BY <1>10, EllipseReach
  <2>2. cx - o \in Coordinates /\ cx + o \in Coordinates
    <3>1. left \in Coordinates /\ right \in Coordinates
      BY <1>1 DEF Rect
    <3>2. /\ cx - o \in Int /\ left <= cx - o /\ cx - o <= right
          /\ cx + o \in Int /\ left <= cx + o /\ cx + o <= right
      BY <1>1, <1>3
    <3> QED
      BY <3>1, <3>2, HalfAssumption DEF Coordinates
  <2>3. Int16(cx - o) = cx - o /\ Int16(cx + o) = cx + o
    BY <2>2, CoordinatesAreInt, Int16Is
  <2>4. p \in OvalRow(img, r, k) <=> (y = cy - k \/ y = cy + k) /\ cx - o <= x /\ x < cx + o
    BY <1>1, <1>2, <1>3, <2>1, <2>3 DEF OvalRow, InRow
  <2>5. y = cy - k \/ y = cy + k <=> k = j
    BY <1>4, <1>5
  <2>6. cx - o <= x /\ x < cx + o <=> dx <= o
    BY <1>6
  <2>7. dx <= o <=> Within(hw, hh, dx, k)
    BY <1>10, <2>1, EllipseReach
  <2> QED
    BY <2>4, <2>5, <2>6, <2>7
<1>12. (\E k \in 1..hh : p \in OvalRow(img, r, k)) <=> j <= hh /\ Within(hw, hh, dx, j)
  BY <1>11
<1> QED
  BY <1>1, <1>2, <1>7, <1>8, <1>9, <1>12

(* an oval with pixels is filled row by row, its middle row first            *)
LEMMA FillEllipsePaint ==
  ASSUME NEW D \in SUBSET Int, NEW m \in [D -> Byte], NEW img, IsImage(img), NEW r \in Rect,
         Countable(r), FitsInt(Half2(RectWidth(r)), Half2(RectHeight(r))),
         NEW pattern \in Pattern, NEW junk
  PROVE  Paints(D, m, FillEllipse(m, img, r, pattern, junk), img,
                {p \in img.clip : InOval(r, p[1], p[2])}, Inked(pattern, r.left, r.top), "Copy")
<1>1. PICK n \in Nat, top \in Int, left \in Int, bottom \in Int, right \in Int :
        /\ n = Half2(RectHeight(r))
        /\ top = r.top /\ left = r.left /\ bottom = r.bottom /\ right = r.right
        /\ n < bottom - top
  <2>1. PICK height \in Nat \ {0} : height = RectHeight(r)
    BY CountableIs
  <2>2. Half2(height) \in Nat /\ 2 * Half2(height) <= height
    BY HalvesAre
  <2>3. Half2(height) < height
    BY <2>2
  <2> QED
    BY <2>1, <2>2, <2>3, CountableIs
<1>2. PICK cy \in Int : cy = top + n
  OBVIOUS
<1>3. PICK loop : loop = [kind |-> "oval", img |-> img, r |-> r, pattern |-> pattern, junk |-> junk]
  OBVIOUS
<1>4. PICK base : base = OvalFill(m, img, r, pattern, junk, 0, r.left, r.right)
  OBVIOUS
<1>5. PICK h : Runs(h, loop, n, base) /\ FillEllipse(m, img, r, pattern, junk) = h[n]
  <2>1. 1..Half2(RectHeight(r)) = 1..n
    BY <1>1
  <2> QED
    BY <1>3, <1>4, <2>1, OvalLoop
<1>6. PICK ink : ink = Inked(pattern, r.left, r.top)
  OBVIOUS
<1>7. PICK parts : parts = [k \in 1..n |-> OvalRow(img, r, k)]
  OBVIOUS
<1>8. PICK First, Rows : First = InRow(img, cy, left, right) /\ Rows = UNION {parts[k] : k \in 1..n}
  OBVIOUS
<1>9. h[0] = base
  BY <1>5 DEF Runs
<1>10. Paints(D, m, h[0], img, First, ink, "Copy")
  <2>1. r.left \in Int /\ r.right \in Int /\ 0 \in Int /\ 0 <= Half2(RectHeight(r)) + 0
        /\ r.top + Half2(RectHeight(r)) + 0 = cy
    BY <1>1, <1>2
  <2>2. Paints(D, m, OvalFill(m, img, r, pattern, junk, 0, r.left, r.right), img,
               InRow(img, r.top + Half2(RectHeight(r)) + 0, r.left, r.right),
               Inked(pattern, r.left, r.top), "Copy")
    BY <2>1, OvalFillPaint
  <2> QED
    BY <1>1, <1>4, <1>6, <1>8, <1>9, <2>1, <2>2
<1>11. h[0] \in [D -> Byte]
  BY <1>10 DEF Paints
<1>12. ASSUME NEW k \in 1..n, h[k - 1] \in [D -> Byte]
       PROVE  Paints(D, h[k - 1], h[k], img, parts[k], ink, "Copy")
  <2>1. h[k] = OvalRows(h[k - 1], img, r, pattern, junk, k)
    BY <1>3, <1>5 DEF Runs, LoopStep
  <2>2. k \in 1..Half2(RectHeight(r))
    BY <1>1
  <2>3. Paints(D, h[k - 1], OvalRows(h[k - 1], img, r, pattern, junk, k), img, OvalRow(img, r, k),
               Inked(pattern, r.left, r.top), "Copy")
    BY <1>12, <2>2, OvalRowsPaint
  <2> QED
    BY <1>6, <1>7, <2>1, <2>3
<1>13. ASSUME NEW k \in 1..n, NEW p \in parts[k]
       PROVE  p \in img.clip /\ (p[2] = cy - k \/ p[2] = cy + k)
  BY <1>1, <1>2, <1>7, <1>13 DEF OvalRow, InRow
<1>14. ASSUME NEW j \in 1..n, NEW k \in 1..n, j < k
       PROVE  parts[j] \cap parts[k] = {}
  <2>1. SUFFICES ASSUME NEW p \in parts[j], p \in parts[k]
                 PROVE  FALSE
    OBVIOUS
  <2>2. p[2] = cy - j \/ p[2] = cy + j
    BY <1>13
  <2>3. p[2] = cy - k \/ p[2] = cy + k
    BY <1>13, <2>1
  <2> QED
    BY <1>14, <2>2, <2>3
<1>15. \A j, k \in 1..n : j < k => parts[j] \cap parts[k] = {}
  BY <1>14
<1>16. Paints(D, h[0], h[n], img, Rows, ink, "Copy")
  BY <1>8, <1>11, <1>12, <1>15, PaintsMany
<1>17. First \cap Rows = {}
  <2>1. SUFFICES ASSUME NEW p \in First, p \in Rows
                 PROVE  FALSE
    OBVIOUS
  <2>2. PICK k \in 1..n : p \in parts[k]
    BY <1>8, <2>1
  <2>3. p[2] = cy - k \/ p[2] = cy + k
    BY <1>13, <2>2
  <2>4. p[2] = cy
    BY <1>8 DEF InRow
  <2> QED
    BY <2>3, <2>4
<1>18. Paints(D, m, h[n], img, First \cup Rows, ink, "Copy")
  BY <1>10, <1>16, <1>17, PaintsBoth
<1>19. ASSUME NEW p \in img.clip
       PROVE  InOval(r, p[1], p[2]) <=> p \in First \cup Rows
  <2>1. p[1] \in Int /\ p[2] \in Int
    BY ClipPixels
  <2>2. CASE p[2] = cy
    <3>1. InOval(r, p[1], p[2]) <=> InRect(r, p[1], p[2])
      <4>1. r.left \in Int /\ (r.right - r.left) \div 2 \in Int
        BY <1>1
      <4>2. InOval(r, p[1], p[2])
              <=> /\ InRect(r, p[1], p[2])
                  /\ OvalReaches((r.right - r.left) \div 2, (r.bottom - r.top) \div 2,
                                 Across(p[1], r.left + (r.right - r.left) \div 2),
                                 p[2] - (r.top + (r.bottom - r.top) \div 2))
        BY <2>1, <4>1, OvalIs
      <4>3. (r.bottom - r.top) \div 2 = n
        <5>1. PICK height \in Nat : height = RectHeight(r) /\ height = r.bottom - r.top
          BY CountableIs
        <5> QED
          BY <1>1, <5>1, HalvesAre
      <4>4. p[2] - (r.top + (r.bottom - r.top) \div 2) = 0
        BY <1>1, <1>2, <2>2, <4>3
      <4> QED
        BY <4>2, <4>4, Zenon DEF OvalReaches
    <3>2. InRect(r, p[1], p[2]) <=> p \in First
      BY <1>1, <1>2, <1>8, <2>1, <2>2 DEF InRect, InRow
    <3>3. p \notin Rows
      <4>1. p \in Rows => \E k \in 1..n : p[2] = cy - k \/ p[2] = cy + k
        BY <1>8, <1>13
      <4> QED
        BY <2>2, <4>1
    <3> QED
      BY <3>1, <3>2, <3>3
  <2>3. CASE p[2] # cy
    <3>1. p[2] # r.top + Half2(RectHeight(r))
      BY <1>1, <1>2, <2>3
    <3>2. InOval(r, p[1], p[2]) <=> \E k \in 1..Half2(RectHeight(r)) : p \in OvalRow(img, r, k)
      BY <3>1, OvalRowIs
    <3>3. InOval(r, p[1], p[2]) <=> p \in Rows
      BY <1>1, <1>7, <1>8, <3>2
    <3>4. p \notin First
      BY <1>8, <2>3 DEF InRow
    <3> QED
      BY <3>3, <3>4
  <2> QED
    BY <2>2, <2>3
<1>20. \A p \in First \cup Rows : p \in img.clip
  <2>1. \A p \in First : p \in img.clip
    BY <1>8 DEF InRow
  <2>2. \A p \in Rows : p \in img.clip
    BY <1>8, <1>13
  <2> QED
    BY <2>1, <2>2
<1>21. {p \in img.clip : InOval(r, p[1], p[2])} = First \cup Rows
  BY <1>19, <1>20
<1> QED
  BY <1>5, <1>6, <1>18, <1>21

(* What the traps of a port draw: their rectangle, as the port's bitmap      *)
(* numbers its pixels.                                                       *)
InPortBits(q) ==
  LET bounds == ThePort.port_bits.bounds
  IN [top |-> q.top - bounds.top, left |-> q.left - bounds.left,
      bottom |-> q.bottom - bounds.top, right |-> q.right - bounds.left]

LEMMA InPortBitsIs ==
  ASSUME GraphicsInv, NEW q \in Rect, Fits16(InPortBits(q))
  PROVE  /\ Global(q) = InPortBits(q) /\ InPortBits(q) \in Rect /\ IsImage(ThePortImage)
         /\ RectWidth(InPortBits(q)) = InPortBits(q).right - InPortBits(q).left
         /\ RectHeight(InPortBits(q)) = InPortBits(q).bottom - InPortBits(q).top
<1>1. PICK bounds \in Rect : bounds = ThePort.port_bits.bounds
  BY ThePortIs, BitMapIs DEF GraphicsInv, BitMap
<1>2. PICK r \in Rect : r = InPortBits(q) /\ Fits16(r)
  BY DEF Fits16
<1>3. /\ q.top \in Int /\ q.left \in Int /\ q.bottom \in Int /\ q.right \in Int
      /\ bounds.top \in Int /\ bounds.left \in Int
  BY CoordinatesAreInt DEF Rect
<1>4. /\ r.top = q.top - bounds.top /\ r.left = q.left - bounds.left
      /\ r.bottom = q.bottom - bounds.top /\ r.right = q.right - bounds.left
  BY <1>1, <1>2 DEF InPortBits
<1>5. /\ r.top \in Coordinates /\ r.left \in Coordinates
      /\ r.bottom \in Coordinates /\ r.right \in Coordinates
  BY DEF Rect
<1>6. r.right - r.left \in Coordinates /\ r.bottom - r.top \in Coordinates
  BY <1>2 DEF Fits16
<1>7. RectWidth(r) = r.right - r.left /\ RectHeight(r) = r.bottom - r.top
  BY <1>6, CoordinatesAreInt, Int16Is DEF RectWidth, RectHeight
<1>8. Global(q) = r
  <2>1. Global(q) = [top |-> Int16(q.top + -bounds.top), left |-> Int16(q.left + -bounds.left),
                     bottom |-> Int16(q.bottom + -bounds.top),
                     right |-> Int16(q.right + -bounds.left)]
    BY <1>1 DEF Global, LocalToGlobal, OffsetRect
  <2>2. /\ q.top + -bounds.top = r.top /\ q.left + -bounds.left = r.left
        /\ q.bottom + -bounds.top = r.bottom /\ q.right + -bounds.left = r.right
    BY <1>3, <1>4
  <2>3. /\ Int16(r.top) = r.top /\ Int16(r.left) = r.left
        /\ Int16(r.bottom) = r.bottom /\ Int16(r.right) = r.right
    BY <1>5, CoordinatesAreInt, Int16Is
  <2>4. r = [top |-> r.top, left |-> r.left, bottom |-> r.bottom, right |-> r.right]
    BY DEF Rect
  <2> QED
    BY <2>1, <2>2, <2>3, <2>4
<1>9. IsImage(ThePortImage)
  BY RectsAreSided, GlobalIs DEF GraphicsInv
<1> QED
  BY <1>2, <1>7, <1>8, <1>9

LEMMA OvalIsDrawn ==
  ASSUME GraphicsInv, NEW img, IsImage(img), NEW r \in Rect, NEW pattern \in Pattern, NEW junk,
         RectWidth(r) = r.right - r.left, RectHeight(r) = r.bottom - r.top, Proper("oval", r),
         mem' = FillEllipse(mem, img, r, pattern, junk)
  PROVE  DrawnAs(img, [shape |-> "oval", rect |-> r, pattern |-> pattern, mode |-> "Copy"])
<1>1. Sided(r) /\ r.top \in Int /\ r.left \in Int /\ r.bottom \in Int /\ r.right \in Int
  BY RectsAreSided DEF Sided
<1>2. Countable(r)
  <2>1. r.right > r.left /\ r.bottom > r.top
    BY DEF Proper
  <2>2. r.right - r.left >= 1 /\ r.bottom - r.top >= 1
    BY <1>1, <2>1
  <2> QED
    BY <1>1, <2>2 DEF Countable
<1>3. PICK D \in SUBSET Int : D = 0..MemorySize-1 /\ mem \in [D -> Byte]
  BY MemoryIs DEF GraphicsInv
<1>4. FitsInt(Half2(RectWidth(r)), Half2(RectHeight(r)))
  <2>1. PICK width \in Nat, height \in Nat :
          /\ width = RectWidth(r) /\ width = r.right - r.left
          /\ height = RectHeight(r) /\ height = r.bottom - r.top
    BY <1>2, CountableIs
  <2>2. FitsInt(width \div 2, height \div 2)
    BY <2>1 DEF Proper
  <2>3. width \div 2 = Half2(width) /\ height \div 2 = Half2(height)
    BY HalvesAre
  <2> QED
    BY <2>1, <2>2, <2>3
<1>5. Paints(D, mem, mem', img, {p \in img.clip : InOval(r, p[1], p[2])},
             Inked(pattern, r.left, r.top), "Copy")
  BY <1>2, <1>3, <1>4, FillEllipsePaint
<1>6. PICK d : d = [shape |-> "oval", rect |-> r, pattern |-> pattern, mode |-> "Copy"]
  OBVIOUS
<1>7. d.shape = "oval" /\ d.rect = r /\ d.pattern = pattern /\ d.mode = "Copy"
  BY <1>6
<1>8. {p \in img.clip : InOval(r, p[1], p[2])}
      = {p \in img.clip : Covers(d.shape, d.rect, p[1], p[2])}
  BY <1>7 DEF Covers
<1>9. PICK first \in Int, mode \in Modes : first = d.rect.top /\ mode = "Copy"
  BY <1>1, <1>7, ModesAre
<1>10. Paints(D, mem, mem', img, {p \in img.clip : Covers(d.shape, d.rect, p[1], p[2])},
             Inked(d.pattern, d.rect.left, first), mode)
  BY <1>5, <1>7, <1>8, <1>9
<1>11. mode = d.mode /\ d.rect.top \in Int /\ first = IF d.shape = "frame" THEN 0 ELSE d.rect.top
  BY <1>1, <1>7, <1>9
<1> QED
  BY <1>3, <1>6, <1>10, <1>11, DrawnIs

(* White drawn with NotXOr inverts, as black does with XOr.                  *)
LEMMA InvertedEitherWay ==
  ASSUME NEW img, IsImage(img), NEW r \in Rect,
         DrawnAs(img, [shape |-> "fill", rect |-> r, pattern |-> White, mode |-> "NotXOr"])
  PROVE  DrawnAs(img, [shape |-> "fill", rect |-> r, pattern |-> Black, mode |-> "XOr"])
<1>1. PICK e, d : /\ e = [shape |-> "fill", rect |-> r, pattern |-> White, mode |-> "NotXOr"]
                  /\ d = [shape |-> "fill", rect |-> r, pattern |-> Black, mode |-> "XOr"]
  OBVIOUS
<1>2. /\ e.shape = "fill" /\ e.rect = r /\ e.pattern = White /\ e.mode = "NotXOr"
      /\ d.shape = "fill" /\ d.rect = r /\ d.pattern = Black /\ d.mode = "XOr"
  BY <1>1
<1>3. r.top \in Int /\ r.left \in Int /\ MAX(0, r.left) \in Int
  BY CoordinatesAreInt DEF Rect, MAX
<1>4. ASSUME NEW i \in DOMAIN mem, NEW b \in Bits, Visible(img, i, b)
      PROVE  Colour(e, ColumnOf(img, i, b), RowOf(img, i), b \in mem[i])
             = Colour(d, ColumnOf(img, i, b), RowOf(img, i), b \in mem[i])
  <2>1. PICK p \in img.clip : p = <<ColumnOf(img, i, b), RowOf(img, i)>>
    BY <1>4 DEF Visible
  <2>2. PICK x \in Int, y \in Int : x = ColumnOf(img, i, b) /\ y = RowOf(img, i)
    BY <2>1, ClipPixels
  <2>3. PICK row \in Int, c \in Int : row = y - r.top /\ c = x - MAX(0, r.left)
    BY <1>3
  <2>4. row % PatternRows \in 0..PatternRows-1 /\ c % CHAR_BIT \in Bits
    BY BitmapAssumption, Division DEF Bits
  <2>5. ~(c % CHAR_BIT \in White[row % PatternRows]) /\ c % CHAR_BIT \in Black[row % PatternRows]
    BY <2>4 DEF White, Black
  <2>6. Colour(e, x, y, b \in mem[i]) = (~(b \in mem[i]))
    <3>1. Colour(e, x, y, b \in mem[i]) = ((b \in mem[i]) = (c % CHAR_BIT \in White[row % PatternRows]))
      BY <1>2, <2>3 DEF Colour
    <3> QED
      BY <2>5, <3>1
  <2>7. Colour(d, x, y, b \in mem[i]) = (~(b \in mem[i]))
    <3>1. Colour(d, x, y, b \in mem[i]) = ((b \in mem[i]) # (c % CHAR_BIT \in Black[row % PatternRows]))
      BY <1>2, <2>3 DEF Colour
    <3> QED
      BY <2>5, <3>1
  <2> QED
    BY <2>2, <2>6, <2>7
<1>5. DrawnAs(img, e)
  BY <1>1
<1>6. DrawnAs(img, d)
  BY <1>2, <1>4, <1>5 DEF DrawnAs
<1> QED
  BY <1>1, <1>6

LEMMA ShapeOfPortIsDrawn ==
  ASSUME GraphicsInv, NEW q \in Rect, Fits16(InPortBits(q)), NEW shape, NEW pattern \in Pattern,
         NEW mode \in Modes, Proper(shape, InPortBits(q)),
         \/ shape = "fill" /\ mem' = FillRect(mem, ThePortImage, Global(q), pattern, mode)
         \/ shape = "frame" /\ mem' = FrameRect(mem, ThePortImage, Global(q), pattern, mode)
         \/ /\ shape = "oval" /\ mode = "Copy"
            /\ \E junk : mem' = FillEllipse(mem, ThePortImage, Global(q), pattern, junk)
  PROVE  DrawnAs(ThePortImage, [shape |-> shape, rect |-> InPortBits(q), pattern |-> pattern,
                                mode |-> mode])
<1>1. PICK r, img :
        /\ r \in Rect /\ r = InPortBits(q) /\ r = Global(q) /\ img = ThePortImage /\ IsImage(img)
        /\ RectWidth(r) = r.right - r.left /\ RectHeight(r) = r.bottom - r.top
  BY InPortBitsIs
<1>2. CASE shape \in {"fill", "frame"}
  <2>1. mem' = IF shape = "fill" THEN FillRect(mem, img, r, pattern, mode)
               ELSE FrameRect(mem, img, r, pattern, mode)
    BY <1>1, <1>2
  <2> QED
    BY <1>1, <1>2, <2>1, RectIsDrawn
<1>3. CASE shape = "oval"
  <2>1. PICK junk : mem' = FillEllipse(mem, img, r, pattern, junk)
    BY <1>1, <1>3
  <2>2. mode = "Copy" /\ Proper("oval", r)
    BY <1>1, <1>3
  <2>3. DrawnAs(img, [shape |-> "oval", rect |-> r, pattern |-> pattern, mode |-> "Copy"])
    BY <1>1, <2>1, <2>2, OvalIsDrawn
  <2> QED
    BY <1>1, <1>3, <2>2, <2>3
<1> QED
  BY <1>2, <1>3

(* the last trap drew what it names                                          *)
MeantIsDrawn ==
  LET r == InPortBits(last'.rect)
      meant == Meant(last', ThePort)
  IN Fits16(r) /\ Proper(meant.shape, r) =>
       DrawnAs(ThePortImage, [shape |-> meant.shape, rect |-> r,
                              pattern |-> meant.pattern, mode |-> meant.mode])

LEMMA DrawsAsMeant ==
  ASSUME GraphicsInv, last'.rect \in Rect, NEW shape, NEW pattern \in Pattern, NEW mode \in Modes,
         Meant(last', ThePort) = [shape |-> shape, pattern |-> pattern, mode |-> mode],
         \/ shape = "fill" /\ mem' = FillRect(mem, ThePortImage, Global(last'.rect), pattern, mode)
         \/ shape = "frame" /\ mem' = FrameRect(mem, ThePortImage, Global(last'.rect), pattern, mode)
         \/ /\ shape = "oval" /\ mode = "Copy"
            /\ \E junk : mem' = FillEllipse(mem, ThePortImage, Global(last'.rect), pattern, junk)
  PROVE  MeantIsDrawn
<1>1. PICK q, meant : /\ q \in Rect /\ q = last'.rect /\ meant = Meant(last', ThePort)
                      /\ meant.shape = shape /\ meant.pattern = pattern /\ meant.mode = mode
  OBVIOUS
<1>2. ASSUME Fits16(InPortBits(q)), Proper(shape, InPortBits(q))
      PROVE  DrawnAs(ThePortImage, [shape |-> shape, rect |-> InPortBits(q), pattern |-> pattern,
                                    mode |-> mode])
  BY <1>1, <1>2, ShapeOfPortIsDrawn
<1> QED
  BY <1>1, <1>2 DEF MeantIsDrawn

LEMMA InvertsAsMeant ==
  ASSUME GraphicsInv, last'.rect \in Rect, last'.op = "InverRoundRect",
         mem' = FillRect(mem, ThePortImage, Global(last'.rect), White, "NotXOr")
  PROVE  MeantIsDrawn
<1>1. PICK q \in Rect : q = last'.rect
  OBVIOUS
<1>2. Meant(last', ThePort) = [shape |-> "fill", pattern |-> Black, mode |-> "XOr"]
  BY DEF Meant
<1>3. PICK meant : /\ meant = Meant(last', ThePort)
                   /\ meant.shape = "fill" /\ meant.pattern = Black /\ meant.mode = "XOr"
  BY <1>2
<1>4. ASSUME Fits16(InPortBits(q)), Proper("fill", InPortBits(q))
      PROVE  DrawnAs(ThePortImage, [shape |-> "fill", rect |-> InPortBits(q), pattern |-> Black,
                                    mode |-> "XOr"])
  <2>1. PICK mode, shape : mode \in Modes /\ mode = "NotXOr" /\ shape = "fill"
    BY ModesAre
  <2>2. DrawnAs(ThePortImage, [shape |-> shape, rect |-> InPortBits(q), pattern |-> White,
                               mode |-> mode])
    BY <1>1, <1>4, <2>1, PatternsAre, ShapeOfPortIsDrawn
  <2>3. IsImage(ThePortImage) /\ InPortBits(q) \in Rect
    BY <1>4, InPortBitsIs
  <2> QED
    BY <2>1, <2>2, <2>3, InvertedEitherWay
<1> QED
  BY <1>1, <1>3, <1>4 DEF MeantIsDrawn

LEMMA DrawingIsMeant ==
  ASSUME GraphicsInv, DrawingTraps, last'.op \in Shapes, ~halted'
  PROVE  MeantIsDrawn
<1>1. /\ Rectangles \subseteq Rect /\ Patterns \subseteq Pattern
      /\ ThePort.pen_pattern \in Pattern /\ ThePort.fill_pattern \in Pattern
      /\ ThePort.back_pattern \in Pattern /\ ConvertMode(ThePort.pattern_mode) \in Modes
      /\ Black \in Pattern /\ "Copy" \in Modes /\ "XOr" \in Modes
  BY InputAssumption, ThePortIs, ModesAre, PatternsAre DEF GraphicsInv, GrafPort, OpenPortOK
<1>2. ASSUME NEW r \in Rectangles, PaintRect(r)
      PROVE  MeantIsDrawn
  <2>1. /\ last' = [op |-> "PaintRect", rect |-> r]
        /\ mem' = FillRect(mem, ThePortImage, Global(r), ThePort.pen_pattern, "Copy")
    BY <1>2 DEF PaintRect, Draw, InPort, Call
  <2>2. Meant(last', ThePort) = [shape |-> "fill", pattern |-> ThePort.pen_pattern, mode |-> "Copy"]
    BY <2>1 DEF Meant
  <2> QED
    BY <1>1, <2>1, <2>2, DrawsAsMeant
<1>3. ASSUME NEW r \in Rectangles, EraseRect(r)
      PROVE  MeantIsDrawn
  <2>1. /\ last' = [op |-> "EraseRect", rect |-> r]
        /\ mem' = FillRect(mem, ThePortImage, Global(r), ThePort.back_pattern, "Copy")
    BY <1>3 DEF EraseRect, Draw, InPort, Call
  <2>2. Meant(last', ThePort) = [shape |-> "fill", pattern |-> ThePort.back_pattern, mode |-> "Copy"]
    BY <2>1 DEF Meant
  <2> QED
    BY <1>1, <2>1, <2>2, DrawsAsMeant
<1>4. ASSUME NEW r \in Rectangles, InverRect(r)
      PROVE  MeantIsDrawn
  <2>1. /\ last' = [op |-> "InverRect", rect |-> r]
        /\ mem' = FillRect(mem, ThePortImage, Global(r), Black, "XOr")
    BY <1>4 DEF InverRect, Draw, InPort, Call
  <2>2. Meant(last', ThePort) = [shape |-> "fill", pattern |-> Black, mode |-> "XOr"]
    BY <2>1 DEF Meant
  <2> QED
    BY <1>1, <2>1, <2>2, DrawsAsMeant
<1>5. ASSUME NEW r \in Rectangles, InverRoundRect(r)
      PROVE  MeantIsDrawn
  <2>1. /\ last' = [op |-> "InverRoundRect", rect |-> r]
        /\ mem' = FillRect(mem, ThePortImage, Global(r), White, "NotXOr")
    BY <1>5 DEF InverRoundRect, Draw, InPort, Call
  <2> QED
    BY <1>1, <2>1, InvertsAsMeant
<1>6. ASSUME NEW r \in Rectangles, FrameRectTrap(r) \/ FrameRoundRect(r)
      PROVE  MeantIsDrawn
  <2>1. /\ last' = [op |-> "FrameRect", rect |-> r]
        /\ mem' = FrameRect(mem, ThePortImage, Global(r), ThePort.pen_pattern,
                            ConvertMode(ThePort.pattern_mode))
    BY <1>6 DEF FrameRectTrap, FrameRoundRect, FramedRect, Draw, InPort, Call, Shapes
  <2>2. Meant(last', ThePort) = [shape |-> "frame", pattern |-> ThePort.pen_pattern,
                                 mode |-> ConvertMode(ThePort.pattern_mode)]
    BY <2>1 DEF Meant
  <2> QED
    BY <1>1, <2>1, <2>2, DrawsAsMeant
<1>7. ASSUME NEW r \in Rectangles, PaintOval(r)
      PROVE  MeantIsDrawn
  <2>1. PICK junk : /\ last' = [op |-> "PaintOval", rect |-> r]
                    /\ mem' = FillEllipse(mem, ThePortImage, Global(r), ThePort.fill_pattern, junk)
    BY <1>7 DEF PaintOval, Draw, InPort, Call
  <2>2. Meant(last', ThePort) = [shape |-> "oval", pattern |-> ThePort.fill_pattern, mode |-> "Copy"]
    BY <2>1 DEF Meant
  <2> QED
    BY <1>1, <2>1, <2>2, DrawsAsMeant
<1>8. ASSUME NEW r \in Rectangles, EraseOval(r)
      PROVE  MeantIsDrawn
  <2>1. PICK junk : /\ last' = [op |-> "EraseOval", rect |-> r]
                    /\ mem' = FillEllipse(mem, ThePortImage, Global(r), ThePort.back_pattern, junk)
    BY <1>8 DEF EraseOval, Draw, InPort, Call
  <2>2. Meant(last', ThePort) = [shape |-> "oval", pattern |-> ThePort.back_pattern, mode |-> "Copy"]
    BY <2>1 DEF Meant
  <2> QED
    BY <1>1, <2>1, <2>2, DrawsAsMeant
<1>9. ASSUME NEW r \in Rectangles, NEW pattern \in Patterns, FillRectTrap(r, pattern)
      PROVE  MeantIsDrawn
  <2>1. /\ last' = [op |-> "FillRect", rect |-> r, pattern |-> pattern]
        /\ mem' = FillRect(mem, ThePortImage, Global(r), pattern, "Copy")
    BY <1>9 DEF FillRectTrap, DrawWith, InPort, Call
  <2>2. Meant(last', ThePort) = [shape |-> "fill", pattern |-> pattern, mode |-> "Copy"]
    BY <2>1 DEF Meant
  <2> QED
    BY <1>1, <2>1, <2>2, DrawsAsMeant
<1>10. ASSUME NEW r \in Rectangles, NEW pattern \in Patterns, FillOval(r, pattern)
       PROVE  MeantIsDrawn
  <2>1. PICK junk : /\ last' = [op |-> "FillOval", rect |-> r, pattern |-> pattern]
                    /\ mem' = FillEllipse(mem, ThePortImage, Global(r), pattern, junk)
    BY <1>10 DEF FillOval, DrawWith, InPort, Call
  <2>2. Meant(last', ThePort) = [shape |-> "oval", pattern |-> pattern, mode |-> "Copy"]
    BY <2>1 DEF Meant
  <2> QED
    BY <1>1, <2>1, <2>2, DrawsAsMeant
<1>11. ASSUME NEW r, NEW picture, DrawPicture(picture, r)
       PROVE  FALSE
  BY <1>11 DEF DrawPicture, Call, Shapes
<1>12. ASSUME NEW p, LineTo(p) \/ Line(p)
       PROVE  FALSE
  BY <1>12 DEF LineTo, Line, InPort, Call, Shapes
<1> QED
  BY <1>2, <1>3, <1>4, <1>5, <1>6, <1>7, <1>8, <1>9, <1>10, <1>11, <1>12 DEF DrawingTraps

(* A trap that draws in a port changes the pixels of the shape it names that *)
(* are in the port's bitmap, as the port's pattern and mode say, and no      *)
(* other bit of memory, whatever origin and bitmap the port was given: ovals *)
(* as long as the products in the search for their rows fit an int.          *)
THEOREM PortsDrawTheirShapes == Spec => PortsDrawWhatTheyName
<1>1. Spec => []GraphicsInv
  BY GraphicsInit, GraphicsStep, PTL DEF Spec
<1>2. ASSUME GraphicsInv, Next
      PROVE  last'.op \in Shapes /\ draws' # draws /\ ~halted' /\ Unpadded(ThePort.port_bits) =>
               LET bounds == ThePort.port_bits.bounds
                   r == [top |-> last'.rect.top - bounds.top,
                         left |-> last'.rect.left - bounds.left,
                         bottom |-> last'.rect.bottom - bounds.top,
                         right |-> last'.rect.right - bounds.left]
                   meant == Meant(last', ThePort)
               IN Fits16(r) /\ Proper(meant.shape, r) =>
                    DrawnAs(ThePortImage, [shape |-> meant.shape, rect |-> r,
                                           pattern |-> meant.pattern, mode |-> meant.mode])
  <2>1. last'.op \in Shapes => DrawingTraps
    BY <1>2, PortOpsAre, RegionOpsAre, GeometryOpsAre, ScreenOpsAre
       DEF Next, QuickDrawNext, PortOps, Shapes, RegionOps, GeometryOps, ScreenOps
  <2>2. last'.op \in Shapes /\ ~halted' => MeantIsDrawn
    BY <1>2, <2>1, DrawingIsMeant
  <2> QED
    BY <2>2, Zenon DEF MeantIsDrawn, InPortBits
<1> QED
  BY <1>1, <1>2, PTL DEF Spec, PortsDrawWhatTheyName
=============================================================================
