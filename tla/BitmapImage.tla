---------------------------- MODULE BitmapImage ----------------------------
(***************************************************************************)
(* Drawing into one-bit-deep images, emu/graphics/bitmap_image.cc and      *)
(* copybits.h.  Memory maps addresses to bytes; a byte is the set of its   *)
(* bits that are 1, where bit 0 is the leftmost pixel.  An image lies at   *)
(* `base' in memory and is clipped to `clip', a set of pixels: the region  *)
(* algebra of module Region, which runs on lists of scanlines, gives the   *)
(* same sets.                                                              *)
(***************************************************************************)
EXTENDS Rects, FiniteSets, SequencesExt

CONSTANTS
  CHAR_BIT,     \* pixels in a byte
  PatternRows,  \* bytes of a pattern; 8, like CHAR_BIT, in the code
  HalfInt       \* an int is in -HalfInt .. HalfInt - 1

ASSUME BitmapAssumption ==
  CHAR_BIT \in Nat \ {0} /\ PatternRows \in Nat \ {0} /\ HalfInt \in Nat \ {0}

Bits == 0..CHAR_BIT-1
Byte == SUBSET Bits
Pattern == [0..PatternRows-1 -> Byte]

PixelWidthToBytes(width) == (width + CHAR_BIT - 1) \div CHAR_BIT

\* kMask[k]: the bits from k on.
Mask(k) == k..CHAR_BIT-1

RotateByteRight(byte, shift) == {(k + shift) % CHAR_BIT : k \in byte}
PatternOffset(left) == MAX(0, left) % CHAR_BIT

\* pattern[k % 8]: before the pattern, where k is negative, lies anything.
Swatch(pattern, k, left, junk) ==
  RotateByteRight(IF k >= 0 THEN pattern[k % PatternRows] ELSE junk, PatternOffset(left))

\* Division and remainder of C, which round towards zero.
Half2(v) == IF v >= 0 THEN v \div 2 ELSE -((-v) \div 2)

ScreenPixels(img) == (0..img.width-1) \X (0..img.height-1)
SetClipRegion(img, region) == [img EXCEPT !.clip = region \cap ScreenPixels(img)]

EarlyCursor(img, y) ==  \* mutant: the cursor stops a scanline early
  {p[1] : p \in {q \in img.clip : q[2] = y - 1}}
\* RegionCursor: the columns of row y that are in the clip region.
Scanline(img, y) == {p[1] : p \in {q \in img.clip : q[2] = y}}

\* The ranges of a scanline, [first, last + 1).
Ranges(columns) ==
  LET starts == {c \in columns : c - 1 \notin columns}
      ends == {c + 1 : c \in {d \in columns : d + 1 \notin columns}}
  IN {[start |-> s, end |-> CHOOSE e \in ends : e > s /\ s..e-1 \subseteq columns] : s \in starts}

\* The rows of clip_region_.rect, which is all zeroes for no pixels.
ClipRows(img) == {p[2] : p \in img.clip}
InClipRows(img, row) == \E y1, y2 \in ClipRows(img) : y1 <= row /\ row <= y2
-----------------------------------------------------------------------------
Ink(byte, mask, pattern, mode) ==
  CASE mode = "Copy"   -> (byte \ mask) \cup (mask \cap pattern)
    [] mode = "XOr"    -> SymDiff(byte, mask \cap pattern)
    [] mode = "NotXOr" -> SymDiff(byte, mask \ pattern)

HeadAndTail(k, inset, length) ==  \* mutant: no row ends in the byte it starts in
  LET rest == IF inset = 0 THEN length ELSE length - (CHAR_BIT - inset)
      aligned == IF inset = 0 THEN k ELSE k - 1
  IN CASE inset # 0 /\ k = 0 -> Mask(inset)
       [] aligned < rest \div CHAR_BIT -> Bits
       [] aligned = rest \div CHAR_BIT -> Bits \ Mask(rest % CHAR_BIT)
       [] OTHER -> {}

\* The bits that _FillRow writes of the k-th byte of a row that starts at bit
\* `inset' of it: within one byte; a start that is not byte-aligned; full
\* bytes; the pixels left over.
RowMask(k, inset, length) ==
  LET rest == IF inset = 0 THEN length ELSE length - (CHAR_BIT - inset)
      aligned == IF inset = 0 THEN k ELSE k - 1
  IN CASE inset # 0 /\ inset + length <= CHAR_BIT ->
            IF k = 0 THEN Mask(inset) \ Mask(inset + length) ELSE {}
       [] inset # 0 /\ inset + length > CHAR_BIT /\ k = 0 -> Mask(inset)
       [] OTHER -> CASE aligned < rest \div CHAR_BIT -> Bits
                     [] aligned = rest \div CHAR_BIT -> Bits \ Mask(rest % CHAR_BIT)
                     [] OTHER -> {}

\* _FillRow: `start' and `end' are within the image.
FillPixels(mem, img, row, start, end, pattern, mode) ==
  LET start_byte == img.base + row * PixelWidthToBytes(img.width) + start \div CHAR_BIT
      last_byte == start_byte + PixelWidthToBytes((start % CHAR_BIT) + end - start) - 1
  IN [i \in DOMAIN mem |->
        IF i \in start_byte..last_byte
        THEN Ink(mem[i], RowMask(i - start_byte, start % CHAR_BIT, end - start), pattern, mode)
        ELSE mem[i]]

\* FillRow with the scanline of the caller's cursor.
FillRow(mem, img, row, start, end, scanline, pattern, mode) ==
  LET Clipped(m, range) ==
        LET clipped_start == MAX(start, range.start)
            clipped_end == MIN(end, range.end)
        IN IF clipped_start >= clipped_end THEN m
           ELSE FillPixels(m, img, row, clipped_start, clipped_end, pattern, mode)
  IN IF ~InClipRows(img, row) THEN mem
     ELSE FoldLeft(Clipped, mem, SetToSeq(Ranges(scanline)))

FillRect(mem, img, r, pattern, mode) ==
  FoldLeft(LAMBDA m, i :
             LET row == i - 1
             IN FillRow(m, img, r.top + row, r.left, r.right, Scanline(img, r.top + row),
                        Swatch(pattern, row, r.left, {}), mode),
           mem, [i \in 1..RectHeight(r) |-> i])
-----------------------------------------------------------------------------
\* Sums and products of ints, as the machine's instructions compute them: C
\* does not define what does not fit.
Int32(v) == ((v + HalfInt) % (2 * HalfInt)) - HalfInt

\* How far the row at `row' from the centre reaches, by the search that
\* starts where the last two rows let it.
EllipseOffset(half_width, half_height) ==
  LET hh == half_height * half_height
      ww == half_width * half_width
      Inside(offset, row) ==
        Int32(offset * offset * hh + row * row * ww) <= Int32(hh * ww)
      reach[row \in 0..half_height] ==
        IF row = 0 THEN half_width
        ELSE LET slope_dx == IF row = 1 THEN 0 ELSE reach[row - 2] - reach[row - 1]
                 from == reach[row - 1] - (slope_dx - 1)
                 found == {offset \in 1..from : Inside(offset, row)}
             IN IF from <= 0 THEN from
                ELSE IF found = {} THEN 0 ELSE CHOOSE o \in found : \A p \in found : p <= o
  IN reach

FillEllipse(mem, img, r, pattern, junk) ==
  LET half_width == Half2(RectWidth(r))
      half_height == Half2(RectHeight(r))
      origin_x == r.left + half_width
      origin_y == r.top + half_height
      Fill(m, dy, start, end) ==
        FillRow(m, img, origin_y + dy, start, end, Scanline(img, origin_y + dy),
                Swatch(pattern, half_height + dy, r.left, junk), "Copy")
      BothRows(m, row) ==
        LET offset == EllipseOffset(half_width, half_height)[row]
            start == Int16(origin_x - offset)
            end == Int16(origin_x + offset)
        IN Fill(Fill(m, -row, start, end), row, start, end)
  IN FoldLeft(BothRows, Fill(mem, 0, r.left, r.right), [row \in 1..half_height |-> row])

\* The cursor never goes back: the bottom row of a rectangle with no height is
\* drawn through the scanline of its top.
FrameRect(mem, img, r, pattern, mode) ==
  LET Fill(m, row, start, end) ==
        FillRow(m, img, row, start, end, Scanline(img, MAX(r.top, row)),
                Swatch(pattern, row, r.left, {}), mode)
      Sides(m, i) ==
        LET row == r.top + i
        IN Fill(Fill(m, row, r.left, r.left + 1), row, r.right - 1, r.right)
      top == Fill(mem, r.top, r.left, r.right)
      sides == FoldLeft(Sides, top, [i \in 1..(r.bottom - 1) - (r.top + 1) |-> i])
  IN Fill(sides, r.bottom - 1, r.left, r.right)
-----------------------------------------------------------------------------
ShiftLeft(byte, n) == {k - n : k \in {b \in byte : b >= n}}
ShiftRight(byte, n) == {k + n : k \in {b \in byte : b + n < CHAR_BIT}}
ByteAt(src, i, junk) == IF i \in DOMAIN src THEN src[i] ELSE junk

\* The bits that bitarray_copy writes of its k-th byte; PREPARE_FIRST_COPY is
\* the case of the first.
CopyMask(k, inset, length) ==
  LET first == MIN(length, CHAR_BIT - inset)
      rest == length - first
  IN CASE k = 0 -> Mask(inset) \ Mask(inset + first)
       [] k > 0 /\ k <= rest \div CHAR_BIT -> Bits
       [] k > rest \div CHAR_BIT -> Bits \ Mask(rest % CHAR_BIT)

SameBytes(src, at, src_inset, inset, k, junk) ==  \* mutant: the first byte is not special
  LET left == (src_inset - inset) % CHAR_BIT
  IN IF left = 0 THEN ByteAt(src, at + k, junk)
     ELSE ShiftLeft(ByteAt(src, at + k, junk), left)
            \cup ShiftRight(ByteAt(src, at + k + 1, junk), CHAR_BIT - left)

\* The bits of the source that bitarray_copy brings over its k-th byte: bytes
\* as they are, or two neighbours shifted together.
Shifted(src, at, src_inset, inset, k, junk) ==
  LET left == (src_inset - inset) % CHAR_BIT
      Both(i) == ShiftLeft(ByteAt(src, i, junk), left)
                   \cup ShiftRight(ByteAt(src, i + 1, junk), CHAR_BIT - left)
  IN CASE left = 0 -> ByteAt(src, at + k, junk)
       [] src_inset > inset -> Both(at + k)
       [] src_inset < inset ->
            IF k = 0 THEN ShiftRight(ByteAt(src, at, junk), CHAR_BIT - left) ELSE Both(at + k - 1)

\* The source, a function from 0 on, is another buffer than the destination.
BitarrayCopy(src, src_at, src_offset, length, mem, dst_at, dst_offset, junk) ==
  LET at == src_at + src_offset \div CHAR_BIT
      first == dst_at + dst_offset \div CHAR_BIT
      inset == dst_offset % CHAR_BIT
      last == first + PixelWidthToBytes(inset + length) - 1
  IN [i \in DOMAIN mem |->
        IF i \in first..last
        THEN LET mask == CopyMask(i - first, inset, length)
             IN (mem[i] \ mask)
                  \cup (Shifted(src, at, src_offset % CHAR_BIT, inset, i - first, junk) \cap mask)
        ELSE mem[i]]

SameSize(r1, r2) == RectHeight(r1) = RectHeight(r2) /\ RectWidth(r1) = RectWidth(r2)

\* The pixels of row y that are both in a range of the cursor's and in dst_rect.
CopyPart(mem, img, src, src_width, src_rect, dst_rect, junk, y, range) ==
  LET start == MAX(range.start, dst_rect.left)
      end == MIN(range.end, dst_rect.right)
  IN IF start >= end THEN mem
     ELSE BitarrayCopy(
            src, PixelWidthToBytes(src_width) * (y - dst_rect.top + src_rect.top),
            src_rect.left + (start - dst_rect.left), end - start,
            mem, img.base + PixelWidthToBytes(img.width) * y, start, junk)

CopyRow(mem, img, src, src_width, src_rect, dst_rect, junk, y) ==
  FoldLeft(LAMBDA m, range : CopyPart(m, img, src, src_width, src_rect, dst_rect, junk, y, range),
           mem, SetToSeq(Ranges(Scanline(img, y))))

\* CopyBits of rectangles of one size: the code stops where they are not.
CopyBits(mem, img, src, src_width, src_rect, dst_rect, junk) ==
  LET rows == {y \in ClipRows(img) : dst_rect.top <= y /\ y < dst_rect.bottom}
  IN FoldLeft(LAMBDA m, y : CopyRow(m, img, src, src_width, src_rect, dst_rect, junk, y),
              mem, SetToSeq(rows))
=============================================================================
