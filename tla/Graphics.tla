------------------------------ MODULE Graphics ------------------------------
(***************************************************************************)
(* The screen, which the application draws on through QuickDraw and the    *)
(* Toolbox draws on directly: within the clip regions that TempClipRect    *)
(* puts in force for a while (emu/graphics/bitmap_image.h), and through    *)
(* the pop-up menus that save what they cover (emu/menu_popup.cc).         *)
(***************************************************************************)
EXTENDS QuickDraw

CONSTANTS
  \* Bounds.
  ClipRegions, MaxClips, ScreenRects, ScreenPatterns,
  PopUps,          \* the [anchor, bounds, items] of menus
  MenuItemHeight

\* What the Toolbox draws on the screen has a height of 16 bits (RectHeight),
\* and a menu has an item (GetPopUpBounds).
ASSUME ScreenAssumption ==
  /\ ScreenRects \subseteq Rect /\ ScreenPatterns \subseteq Pattern
  /\ \A r \in ScreenRects : RectHeight(r) = r.bottom - r.top
  /\ PopUps \subseteq [anchor : Rect, bounds : Rect, items : Nat]
  /\ \A menu \in PopUps :
       /\ RectWidth(menu.bounds) = menu.bounds.right - menu.bounds.left
       /\ RectHeight(menu.bounds) = menu.bounds.bottom - menu.bounds.top
       /\ RectWidth(menu.bounds) >= 2 /\ RectHeight(menu.bounds) >= 2
  /\ MenuItemHeight \in Nat

VARIABLES
  clip,     \* screen_'s clip_region_
  saved,    \* the saved_clip_region_ of each TempClipRect, the innermost last
  popup     \* the open menu: a sequence of at most one

nativeVars == <<clip, saved, popup>>
vars == <<quickDrawVars, nativeVars>>

Screen == [Image(ScreenBits) EXCEPT !.clip = clip]
HighLight == Black
PopUpPattern == White

Init ==
  /\ QuickDrawInit
  /\ clip = ScreenPixels(Image(ScreenBits))
  /\ saved = <<>> /\ popup = <<>>

KeepsMost == UNCHANGED <<portVars, handleVars, appVars, halted>>

TempClipRect(region) ==
  /\ Call({"screen"}, [op |-> "clip"]) /\ Len(saved) < MaxClips
  /\ popup = <<>> /\ draws = 0
  /\ saved' = Append(saved, clip)
  /\ clip' = SetClipRegion(Screen, region).clip
  /\ UNCHANGED <<mem, popup, draws>> /\ KeepsMost

Forgotten(screen) == screen.clip  \* mutant: the destructor does nothing
Restored(screen) == SetClipRegion(screen, Last(saved)).clip

EndTempClipRect ==
  /\ Call({"screen"}, [op |-> "unclip"])
  /\ saved # <<>>
  /\ clip' = Restored(Screen)
  /\ saved' = SubSeq(saved, 1, Len(saved) - 1)
  /\ UNCHANGED <<mem, popup, draws>> /\ KeepsMost

OnScreen(what, drawn) ==
  /\ Call({"screen"}, what)
  /\ draws < MaxDraws /\ draws' = draws + 1
  /\ popup = <<>>
  /\ mem' = drawn
  /\ UNCHANGED nativeVars /\ KeepsMost

ScreenFillRect(r, pattern, mode) ==
  OnScreen([op |-> "fill", rect |-> r, pattern |-> pattern, mode |-> mode],
           FillRect(mem, Screen, r, pattern, mode))
ScreenFrameRect(r, pattern, mode) ==
  OnScreen([op |-> "frame", rect |-> r, pattern |-> pattern, mode |-> mode],
           FrameRect(mem, Screen, r, pattern, mode))
-----------------------------------------------------------------------------
\* AutoHiliteRect, when it is made and when it goes.
Hilite(m, r) == FillRect(m, Screen, r, HighLight, "XOr")
MenuItem(menu, item) ==
  LET top == menu.bounds.top + item * MenuItemHeight
  IN [menu.bounds EXCEPT !.top = top, !.bottom = top + MenuItemHeight]

SavedBitmap(m, r) ==
  LET width == RectWidth(r)
      height == RectHeight(r)
      blank == [i \in 0..PixelWidthToBytes(width)*height-1 |-> {}]
      whole == (0..width-1) \X (0..height-1)
  IN CopyBits(blank, [base |-> 0, width |-> width, height |-> height, clip |-> whole],
              [i \in 0..MemorySize-1-ScreenBits.base_addr |-> m[i + ScreenBits.base_addr]],
              Screen.width, r, NormalizeRect(r), {})

NotPutBack(m, menu) == m  \* mutant: closing a menu leaves it on the screen
PutBack(m, menu) ==
  CopyBits(m, Screen, menu.saved_bitmap, RectWidth(menu.bounds), NormalizeRect(menu.bounds),
           menu.bounds, {})

\* The title is highlighted before the bitmap is saved and after it is put
\* back.  `before' is history.
MenuPopUp(menu) ==
  /\ Call({"screen"}, [op |-> "popup"])
  /\ popup = <<>> /\ saved = <<>>
  /\ LET hilited == Hilite(mem, menu.anchor)
         filled == FillRect(hilited, Screen, menu.bounds, PopUpPattern, "Copy")
     IN /\ mem' = FrameRect(filled, Screen, menu.bounds, HighLight, "Copy")
        /\ popup' = <<[anchor |-> menu.anchor, bounds |-> menu.bounds, items |-> menu.items,
                       hovered |-> <<>>, saved_bitmap |-> SavedBitmap(hilited, menu.bounds),
                       before |-> mem]>>
  /\ UNCHANGED <<clip, saved, draws>> /\ KeepsMost

Unhover(m, menu) ==
  IF menu.hovered = <<>> THEN m ELSE Hilite(m, MenuItem(menu, menu.hovered[1]))

\* The new item's highlight is made before the old one's goes.
HoverMenuItem(item) ==
  /\ Call({"screen"}, [op |-> "hover"])
  /\ popup # <<>>
  /\ mem' = Unhover(Hilite(mem, MenuItem(popup[1], item)), popup[1])
  /\ popup' = <<[popup[1] EXCEPT !.hovered = <<item>>]>>
  /\ UNCHANGED <<clip, saved, draws>> /\ KeepsMost

HoverDisabledItem ==
  /\ Call({"screen"}, [op |-> "hover"])
  /\ popup # <<>>
  /\ mem' = Unhover(mem, popup[1])
  /\ popup' = <<[popup[1] EXCEPT !.hovered = <<>>]>>
  /\ UNCHANGED <<clip, saved, draws>> /\ KeepsMost

MenuClose ==
  /\ Call({"screen"}, [op |-> "popdown"])
  /\ popup # <<>>
  /\ mem' = Hilite(PutBack(Unhover(mem, popup[1]), popup[1]), popup[1].anchor)
  /\ popup' = <<>>
  /\ UNCHANGED <<clip, saved, draws>> /\ KeepsMost

ScreenNext ==
  \/ \E region \in ClipRegions : TempClipRect(region)
  \/ EndTempClipRect
  \/ \E r \in ScreenRects, pattern \in ScreenPatterns, mode \in {"Copy", "XOr", "NotXOr"} :
       ScreenFillRect(r, pattern, mode) \/ ScreenFrameRect(r, pattern, mode)
  \/ \E menu \in PopUps : MenuPopUp(menu)
  \/ popup # <<>> /\ \E item \in 0..popup[1].items-1 : HoverMenuItem(item)
  \/ HoverDisabledItem \/ MenuClose

Next == (QuickDrawNext /\ UNCHANGED nativeVars) \/ ScreenNext
Spec == Init /\ [][Next]_vars
-----------------------------------------------------------------------------
\* Type invariant: what every variable holds.
GraphicsTypeOK ==
  /\ mem \in Memory
  /\ the_port \in Opened
  /\ \A p \in Opened :
       /\ ports[p].port_bits.bounds \in Rect /\ ports[p].port_rect \in Rect
       /\ ports[p].pen_pattern \in Pattern /\ ports[p].pen_location \in Point
       /\ {ports[p].clip_region, ports[p].visible_region} \subseteq Handles
       /\ ports[p].region_save \in Handles \cup {0}
  /\ DOMAIN table = 0..2*MaxHandles+4 /\ Len(blocks) <= MaxHandles
  /\ rect \in Rect /\ pt \in Point
  /\ \A c \in {clip} \cup ToSet(saved) : c \subseteq ScreenPixels(Image(ScreenBits))

\* The pixel that bit b of address i is in an image, and whether it is one.
ColumnOf(img, i, b) == ((i - img.base) % PixelWidthToBytes(img.width)) * CHAR_BIT + b
RowOf(img, i) == (i - img.base) \div PixelWidthToBytes(img.width)
Visible(img, i, b) ==
  i >= img.base /\ <<ColumnOf(img, i, b), RowOf(img, i)>> \in img.clip

\* Which pixels a shape has, by its definition rather than row by row.
InRect(r, x, y) == r.left <= x /\ x < r.right /\ r.top <= y /\ y < r.bottom
OnBorder(r, x, y) ==
  InRect(r, x, y) /\ (x \in {r.left, r.right - 1} \/ y \in {r.top, r.bottom - 1})
InOval(r, x, y) ==
  LET a == (r.right - r.left) \div 2
      b == (r.bottom - r.top) \div 2
      dy == y - (r.top + b)
      dx == IF x >= r.left + a THEN x - (r.left + a) + 1 ELSE r.left + a - x
  IN InRect(r, x, y) /\ (dy = 0 \/ (dy * dy <= b * b /\ dx * dx * b * b + dy * dy * a * a <= a * a * b * b))
Covers(shape, r, x, y) ==
  CASE shape = "fill" -> InRect(r, x, y)
    [] shape = "frame" -> OnBorder(r, x, y)
    [] shape = "oval" -> InOval(r, x, y)

\* Whether pixel x, y is 1 afterwards.  Patterns begin where the rectangle
\* does, at the left edge of the image at the earliest; a frame's rows are
\* those of the image.
Colour(d, x, y, old) ==
  LET row == IF d.shape = "frame" THEN y ELSE y - d.rect.top
      ink == (x - MAX(0, d.rect.left)) % CHAR_BIT \in d.pattern[row % PatternRows]
  IN CASE d.mode = "Copy" -> ink
       [] d.mode = "XOr" -> old # ink
       [] d.mode = "NotXOr" -> old = ink

DrawnAs(img, d) ==
  \A i \in DOMAIN mem, b \in Bits :
    LET x == ColumnOf(img, i, b)
        y == RowOf(img, i)
    IN (b \in mem'[i]) =
         IF Visible(img, i, b) /\ Covers(d.shape, d.rect, x, y)
         THEN Colour(d, x, y, b \in mem[i]) ELSE b \in mem[i]

\* What a trap means to draw, with a pattern in force when it is called.
Meant(what, port) ==
  CASE what.op = "PaintRect" -> [shape |-> "fill", pattern |-> port.pen_pattern, mode |-> "Copy"]
    [] what.op = "EraseRect" -> [shape |-> "fill", pattern |-> port.back_pattern, mode |-> "Copy"]
    [] what.op = "FillRect" -> [shape |-> "fill", pattern |-> what.pattern, mode |-> "Copy"]
    [] what.op \in {"InverRect", "InverRoundRect"} ->
         [shape |-> "fill", pattern |-> Black, mode |-> "XOr"]
    [] what.op = "FrameRect" ->
         [shape |-> "frame", pattern |-> port.pen_pattern, mode |-> ConvertMode(port.pattern_mode)]
    [] what.op = "PaintOval" -> [shape |-> "oval", pattern |-> port.fill_pattern, mode |-> "Copy"]
    [] what.op = "EraseOval" -> [shape |-> "oval", pattern |-> port.back_pattern, mode |-> "Copy"]
    [] what.op = "FillOval" -> [shape |-> "oval", pattern |-> what.pattern, mode |-> "Copy"]

\* What no product in the search for an oval's rows exceeds.
FitsInt(half_width, half_height) ==
  (half_width + 1) * (half_width + 1) * ((half_height + 1) * (half_height + 1)) <= HalfInt

\* Frames and ovals of rectangles with no pixels are drawn all the same, and
\* lines one pixel thin are inverted twice.  Ovals of more than about 430 by
\* 430 pixels have products that leave an int (bitmap_image.cc:107), and rows
\* that are no ellipse's.
Proper(shape, r) ==
  CASE shape = "fill" -> TRUE
    [] shape = "frame" -> r.right - r.left >= 2 /\ r.bottom - r.top >= 2
    [] shape = "oval" -> /\ r.right > r.left /\ r.bottom > r.top
                         /\ FitsInt((r.right - r.left) \div 2, (r.bottom - r.top) \div 2)

Shapes == {"PaintRect", "EraseRect", "FillRect", "InverRect", "InverRoundRect", "FrameRect",
           "PaintOval", "EraseOval", "FillOval"}
\* Neither a coordinate nor a size leaves the 16 bits that a Rect keeps of it.
Fits16(r) == r \in Rect /\ {r.right - r.left, r.bottom - r.top} \subseteq Coordinates
Unpadded(bits) == bits.row_bytes = PixelWidthToBytes(RectWidth(bits.bounds))

\* The traps that draw in a port (emu/trap/trap_dispatcher.cc) change the
\* pixels of the shape they name, in local coordinates, that are in the port's
\* bitmap, with the pattern and mode of the port, and nothing else of memory:
\* wherever SetOrigin and SetPortBits have put the port's coordinates, and in
\* whatever byte and bit a row begins and ends: shapes as `Proper' has them, so
\* no oval whose products leave an int.
PortsDrawWhatTheyName ==
  [][last'.op \in Shapes /\ draws' # draws /\ ~halted' /\ Unpadded(ThePort.port_bits) =>
       LET bounds == ThePort.port_bits.bounds
           r == [top |-> last'.rect.top - bounds.top, left |-> last'.rect.left - bounds.left,
                 bottom |-> last'.rect.bottom - bounds.top,
                 right |-> last'.rect.right - bounds.left]
           meant == Meant(last', ThePort)
       IN Fits16(r) /\ Proper(meant.shape, r) =>
            DrawnAs(ThePortImage, [shape |-> meant.shape, rect |-> r,
                                   pattern |-> meant.pattern, mode |-> meant.mode])]_vars

\* What the Toolbox draws on the screen changes no pixel outside the clip
\* region in force, the region of the innermost TempClipRect, and every pixel
\* of the shape inside it, however the region's rows are cut up.
ScreenDrawsWithinClip ==
  [][last'.op \in {"fill", "frame"} /\ Proper(last'.op, last'.rect) =>
       DrawnAs(Screen, [shape |-> last'.op, rect |-> last'.rect, pattern |-> last'.pattern,
                        mode |-> last'.mode])]_vars

\* When no TempClipRect is left the whole screen can be drawn on again.
ClipsAreUndone == saved = <<>> => clip = ScreenPixels(Image(ScreenBits))

\* The drawing state is well-formed, and every temporary clip is undone.
ScreenStateOK == GraphicsTypeOK /\ ClipsAreUndone

\* A menu that opens, highlights items and closes leaves the screen exactly as
\* it was (emu/menu_popup.cc:87-118), even where it reached over its edges.
PopupsLeaveNoTrace == [][last'.op = "popdown" => mem' = popup[1].before]_vars

\* The pixels of a picture's bands where the frame has them; the last band
\* that covers a pixel shows.
BandCovers(picture, k, x, y) ==
  LET band == picture.ops[k]
      at == [x |-> x + picture.frame.left, y |-> y + picture.frame.top]
  IN band.opcode \in BandOpcodes /\ InRect(band.dst, at.x, at.y)
Shown(picture, x, y) ==
  LET over == {k \in DOMAIN picture.ops : BandCovers(picture, k, x, y)}
      band == picture.ops[CHOOSE k \in over : \A j \in over : j <= k]
  IN over # {} /\ <<x + picture.frame.left - band.dst.left, y + picture.frame.top - band.dst.top>>
                    \in band.pixels

\* A packed band is drawn from the left edge of the frame wherever it belongs.
WellPlaced(picture) ==
  \A k \in DOMAIN picture.ops :
    picture.ops[k].opcode = "PackedBitsRect" => picture.ops[k].dst.left = picture.frame.left

\* DrawPicture shows every pixel of the picture in dstRect and touches nothing
\* else, whatever the runs its rows are packed in, the bits they are shifted
\* by, the part of dstRect that lies in the port, and the byte behind the
\* picture that is read and not used (emu/graphics/copybits.h:108).
PicturesArriveWhole ==
  [][last'.op = "DrawPicture" /\ ~halted' /\ Unpadded(ThePort.port_bits)
       /\ WellPlaced(last'.picture) =>
       \A i \in DOMAIN mem, b \in Bits :
         LET bounds == ThePort.port_bits.bounds
             x == ColumnOf(ThePortImage, i, b) + bounds.left
             y == RowOf(ThePortImage, i) + bounds.top
         IN (b \in mem'[i]) =
              IF Visible(ThePortImage, i, b) /\ InRect(last'.rect, x, y)
              THEN Shown(last'.picture, x - last'.rect.left, y - last'.rect.top)
              ELSE b \in mem[i]]_vars

\* SetOrigin renames the pixels of a port and moves none: the port's rectangle
\* begins at the new origin and lies where it lay in the bitmap.
SetOriginMovesNothing ==
  [][last'.op = "SetOrigin" =>
       LET port == ports'[the_port]
       IN /\ port.port_rect.left = last'.origin.x /\ port.port_rect.top = last'.origin.y
          /\ LocalToGlobal(port, port.port_rect) = LocalToGlobal(ThePort, ThePort.port_rect)
          /\ SameSize(port.port_rect, ThePort.port_rect)
          /\ SameSize(port.port_bits.bounds, ThePort.port_bits.bounds)
          /\ port.port_bits.base_addr = ThePort.port_bits.base_addr]_vars

\* The traps on rectangles are operations on sets of pixels as long as no side
\* leaves 16 bits: OffsetRect moves them, InsetRect takes away those near the
\* edge, SectRect leaves the common ones and answers whether there are none.
Near(d, x, y, r) ==
  \A i \in {-d.x, 0, d.x}, j \in {-d.y, 0, d.y} : InRect(r, x + i, y + j)
RectsArePixelSets ==
  [][last'.op \in {"OffsetRect", "InsetRect", "SectRect"} => \A x, y \in Coordinates :
       /\ last'.op = "OffsetRect"
            /\ {rect.left + last'.by.x, rect.right + last'.by.x, rect.top + last'.by.y,
                rect.bottom + last'.by.y} \subseteq Coordinates =>
            InRect(rect', x, y) = InRect(rect, x - last'.by.x, y - last'.by.y)
       /\ last'.op = "InsetRect" /\ last'.by.x >= 0 /\ last'.by.y >= 0
            /\ {rect.left + last'.by.x, rect.right - last'.by.x, rect.top + last'.by.y,
                rect.bottom - last'.by.y} \subseteq Coordinates =>
            InRect(rect', x, y) = Near(last'.by, x, y, rect)
       /\ last'.op = "SectRect" =>
            /\ InRect(rect', x, y) = (InRect(rect, x, y) /\ InRect(last'.with, x, y))
            /\ answer' => ~(InRect(rect, x, y) /\ InRect(last'.with, x, y))
            /\ ~answer' => rect'.left < rect'.right /\ rect'.top < rect'.bottom]_vars

\* Coordinates mean what they should: of rectangles, and of a port's pixels.
CoordinatesAreRight == RectsArePixelSets /\ SetOriginMovesNothing

\* CloseRgn gives its handle the rectangle that was framed last since OpenRgn,
\* although it was kept over the master pointers, unless a handle was
\* allocated or the port changed in between.
TheRegionIsRecorded ==
  [][last'.op = "CloseRgn" /\ ~halted' /\ framed # <<>> =>
       blocks'[last'.dst] = Region(RegionSize, framed[1])]_vars

\* GetPtrForHandle and GetRegionForHandle hold, for every handle but that of
\* the open region, that "CHECK_EQ(current_ptr, metadata.start)".
MasterPointersHold ==
  \A h \in Handles : (\A p \in Ports : ports[p].region_save # h) => Intact(h)
=============================================================================
