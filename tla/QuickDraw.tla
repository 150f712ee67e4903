------------------------------ MODULE QuickDraw ------------------------------
(***************************************************************************)
(* The QuickDraw traps, emu/trap/trap_dispatcher.cc and                    *)
(* emu/graphics/quickdraw.cc: ports, their coordinates, drawing in them,   *)
(* and the regions that are recorded instead of drawn.                     *)
(*                                                                         *)
(* A region that is recorded is kept where the handle of a block says the  *)
(* block's address is, so the table of master pointers is a state of its   *)
(* own, in 16-bit halves: block k lies at address <<BlocksHigh, k>>.       *)
(***************************************************************************)
EXTENDS Pictures

CONSTANTS
  Ports,         \* GrafPtrs; WMgrPort is one
  WMgrPort,
  MemorySize,    \* bytes of the images
  ScreenBits,    \* qd_globals.screen_bits
  Contents,      \* what the images may show at first
  \* What an application passes, and how often (bounds).
  BitMaps, Rectangles, Points, Patterns, PictureHandles,
  Families,      \* a behaviour calls traps of one family
  MaxSteps,      \* for each family, how many
  MaxDraws,      \* how many of them draw
  MaxHandles

Memory == [0..MemorySize-1 -> Byte]
BitMap == [base_addr : Nat, row_bytes : Nat, bounds : Rect]

ASSUME PortAssumption ==
  /\ WMgrPort \in Ports
  /\ BitMaps \cup {ScreenBits} \subseteq BitMap
  /\ \A b \in BitMaps \cup {ScreenBits} :
       /\ b.row_bytes >= PixelWidthToBytes(RectWidth(b.bounds))
       /\ b.base_addr + b.row_bytes * RectHeight(b.bounds) <= MemorySize

\* The ports' own regions need two handles.
ASSUME InputAssumption ==
  /\ MemorySize \in Nat /\ Contents \subseteq Memory
  /\ MaxHandles \in Nat \ {0, 1}
  /\ Rectangles \subseteq Rect /\ Points \subseteq Point /\ Patterns \subseteq Pattern

VARIABLES
  mem,       \* the bytes of the images
  ports,     \* the GrafPorts
  the_port,  \* port::GetThePort()
  table,     \* the master pointers, two halves each
  blocks,    \* the regions that the handles' blocks hold
  rect, pt,  \* variables of the application
  answer,    \* what the last function returned
  halted,    \* a CHECK has failed
  framed,    \* (history) the rectangle that the open region has, unless the
             \* port or the table of handles changed since
  family, steps, draws, last

handleVars == <<table, blocks>>
portVars == <<ports, the_port>>
appVars == <<rect, pt, answer>>
boundVars == <<family, steps, draws>>
quickDrawVars == <<mem, portVars, handleVars, appVars, halted, boundVars, framed, last>>

White == [k \in 0..PatternRows-1 |-> {}]
Black == [k \in 0..PatternRows-1 |-> Bits]
patCopy == 8
patXOr == 10
notPatXOr == 14
ConvertMode(mode) ==
  CASE mode = patCopy -> "Copy" [] mode = patXOr -> "XOr" [] mode = notPatXOr -> "NotXOr"
-----------------------------------------------------------------------------
\* Handles: 1, 2, ... in the order of their allocation.  WMgrPort has the
\* first two.
BlocksHigh == 1
RegionSize == 10
Handles == DOMAIN blocks
HighOf(h) == 2 * (h - 1)
Region(size, box) == [region_size |-> size, bounding_box |-> box]
NoRegion == Region(0, ZeroRect)

AllocateHandles(contents) ==
  LET first == Len(blocks) + 1
      news == first..Len(blocks) + Len(contents)
  IN /\ Len(blocks) + Len(contents) <= MaxHandles
     /\ blocks' = blocks \o contents
     /\ table' = [i \in DOMAIN table |->
                    IF i \in {HighOf(h) : h \in news} THEN BlocksHigh
                    ELSE IF i - 1 \in {HighOf(h) : h \in news} THEN i \div 2 + 1 ELSE table[i]]

\* GetRegionForHandle and GetPtrForHandle: CHECK_EQ(current_ptr, metadata.start)
Intact(h) == h \in Handles /\ table[HighOf(h)] = BlocksHigh /\ table[HighOf(h) + 1] = h

NoSize(h) ==  \* mutant: the box is read where the size is
  Region(RegionSize,
         [top |-> table[HighOf(h)], left |-> table[HighOf(h) + 1],
          bottom |-> table[HighOf(h) + 2], right |-> table[HighOf(h) + 3]])
\* The region at the address that is the handle itself.
RegionAt(h) ==
  Region(table[HighOf(h)],
         [top |-> table[HighOf(h) + 1], left |-> table[HighOf(h) + 2],
          bottom |-> table[HighOf(h) + 3], right |-> table[HighOf(h) + 4]])
WithRegionAt(h, r) ==
  LET halves == <<RegionSize, r.top, r.left, r.bottom, r.right>>
  IN [i \in DOMAIN table |->
        IF i - HighOf(h) \in 0..4 THEN halves[i - HighOf(h) + 1] ELSE table[i]]
-----------------------------------------------------------------------------
Unopened ==
  [port_bits |-> [base_addr |-> 0, row_bytes |-> 0, bounds |-> ZeroRect],
   port_rect |-> ZeroRect, clip_region |-> 0, visible_region |-> 0,
   fill_pattern |-> White, back_pattern |-> White, pen_pattern |-> White,
   pattern_mode |-> 0, pen_location |-> [x |-> 0, y |-> 0],
   pen_size |-> [x |-> 0, y |-> 0], region_save |-> 0]

InitPort(port, clip_handle) ==
  [port EXCEPT !.fill_pattern = Black, !.back_pattern = White, !.pen_pattern = Black,
               !.pattern_mode = patCopy, !.port_bits = ScreenBits,
               !.port_rect = ScreenBits.bounds,
               !.clip_region = clip_handle, !.visible_region = clip_handle + 1]

WholePlane == [top |-> -Half, left |-> -Half, bottom |-> Half - 1, right |-> Half - 1]
\* The regions of AllocateHandleToRegion have the size of their scanlines.
ScanlinesSize == 12
PortRegions == <<Region(ScanlinesSize, WholePlane), Region(ScanlinesSize, ScreenBits.bounds)>>

\* InitGraf and InitWindows have been called.
QuickDrawInit ==
  /\ mem \in Contents
  /\ ports = [p \in Ports |-> IF p = WMgrPort THEN InitPort(Unopened, 1) ELSE Unopened]
  /\ the_port = WMgrPort
  /\ blocks = PortRegions
  /\ table = [i \in 0..2*MaxHandles+4 |->
                IF i \in {0, 2} THEN BlocksHigh ELSE IF i \in {1, 3} THEN i \div 2 + 1 ELSE 0]
  /\ rect = ZeroRect /\ pt = [x |-> 0, y |-> 0] /\ answer = FALSE
  /\ halted = FALSE
  /\ family \in Families /\ steps = 0 /\ draws = 0
  /\ framed = <<>> /\ last = [op |-> "Init"]

Call(f, what) ==
  /\ family \in f /\ steps < MaxSteps[family] /\ ~halted
  /\ steps' = steps + 1
  /\ last' = what
  /\ framed' = CASE what.op = "FrameRoundRect" -> <<what.rect>>
                [] what.op \in {"OpenRgn", "NewRgn", "OpenPort", "SetPort"} -> <<>>
                [] OTHER -> framed
  /\ UNCHANGED family

ThePort == ports[the_port]
Opened == {p \in Ports : ports[p].clip_region # 0}

\* A call that changes nothing but fields of the_port.
SetsPort(f, what, port) ==
  /\ Call(f, what) /\ draws = 0
  /\ ports' = [ports EXCEPT ![the_port] = port]
  /\ UNCHANGED <<mem, the_port, handleVars, appVars, halted, draws>>

GetPort ==
  /\ Call({"regions"}, [op |-> "GetPort"])
  /\ answer' = the_port
  /\ UNCHANGED <<mem, portVars, handleVars, rect, pt, halted, draws>>

SetPort(p) ==
  /\ Call({"ports", "regions"}, [op |-> "SetPort"]) /\ draws = 0
  /\ the_port' = p
  /\ UNCHANGED <<mem, ports, handleVars, appVars, halted, draws>>

OpenPort(p) ==
  /\ Call({"ports", "regions"}, [op |-> "OpenPort"]) /\ draws = 0
  /\ the_port' = p
  /\ AllocateHandles(PortRegions)
  /\ ports' = [ports EXCEPT ![p] = InitPort(@, Len(blocks) + 1)]
  /\ UNCHANGED <<mem, appVars, halted, draws>>

SetPortBits(bits) ==
  SetsPort({"ports"}, [op |-> "SetPortBits"], [ThePort EXCEPT !.port_bits = bits])

WithOrigin(port, origin) ==
  LET normalizedPortRect == NormalizeRect(port.port_rect)
      normalizedBounds ==
        OffsetRect(port.port_bits.bounds, -port.port_rect.left, -port.port_rect.top)
  IN [port EXCEPT !.port_rect = OffsetRect(normalizedPortRect, origin.x, origin.y),
                  !.port_bits.bounds = OffsetRect(normalizedBounds, origin.x, origin.y)]

SetOrigin(origin) ==
  SetsPort({"ports"}, [op |-> "SetOrigin", origin |-> origin], WithOrigin(ThePort, origin))

MoveTo(to) == SetsPort({"ports"}, [op |-> "MoveTo"], [ThePort EXCEPT !.pen_location = to])
PointPlus(p, q) == [x |-> Int16(p.x + q.x), y |-> Int16(p.y + q.y)]
Move(by) ==
  SetsPort({"ports"}, [op |-> "Move"],
           [ThePort EXCEPT !.pen_location = PointPlus(@, by)])
PenSize(size) == SetsPort({"ports"}, [op |-> "PenSize"], [ThePort EXCEPT !.pen_size = size])
PenMode(mode) ==
  SetsPort({"ports"}, [op |-> "PenMode"], [ThePort EXCEPT !.pattern_mode = mode])
PenPat(pattern) ==
  SetsPort({"ports"}, [op |-> "PenPat"], [ThePort EXCEPT !.pen_pattern = pattern])
PenNormal ==
  SetsPort({"ports"}, [op |-> "PenNormal"],
           [ThePort EXCEPT !.pen_size = [x |-> 1, y |-> 1], !.pen_pattern = Black,
                           !.pattern_mode = patCopy])
-----------------------------------------------------------------------------
\* PortImageFor; InPort clips it by the port's clip region, the whole plane.
Image(bits) ==
  LET width == RectWidth(bits.bounds)
      height == RectHeight(bits.bounds)
  IN [base |-> bits.base_addr, width |-> width, height |-> height,
      clip |-> (0..width-1) \X (0..height-1)]
ThePortImage == Image(ThePort.port_bits)

LocalToGlobal(port, r) ==
  OffsetRect(r, -port.port_bits.bounds.left, -port.port_bits.bounds.top)
Global(r) == LocalToGlobal(ThePort, r)

\* InPort: `drawn' is what the images show after the call, `port' the_port.
InPort(f, what, drawn, port) ==
  /\ Call(f, what)
  /\ draws < MaxDraws /\ draws' = draws + 1
  /\ halted' = ~Intact(ThePort.clip_region)
  /\ mem' = IF halted' THEN mem ELSE drawn
  /\ ports' = IF halted' THEN ports ELSE [ports EXCEPT ![the_port] = port]
  /\ UNCHANGED <<the_port, handleVars, appVars>>

Draw(op, r, drawn) == InPort({"ports"}, [op |-> op, rect |-> r], drawn, ThePort)
DrawWith(op, r, pattern, drawn) ==
  InPort({"ports"}, [op |-> op, rect |-> r, pattern |-> pattern], drawn, ThePort)

PaintRect(r) ==
  Draw("PaintRect", r, FillRect(mem, ThePortImage, Global(r), ThePort.pen_pattern, "Copy"))
FillRectTrap(r, pattern) ==
  DrawWith("FillRect", r, pattern, FillRect(mem, ThePortImage, Global(r), pattern, "Copy"))
FillOval(r, pattern) ==
  \E junk \in {{}, Bits} :
    DrawWith("FillOval", r, pattern, FillEllipse(mem, ThePortImage, Global(r), pattern, junk))
InverRoundRect(r) ==
  Draw("InverRoundRect", r, FillRect(mem, ThePortImage, Global(r), White, "NotXOr"))
FramedRect(r) ==
  FrameRect(mem, ThePortImage, Global(r), ThePort.pen_pattern, ConvertMode(ThePort.pattern_mode))
FrameRectTrap(r) == Draw("FrameRect", r, FramedRect(r))
EraseRect(r) ==
  Draw("EraseRect", r, FillRect(mem, ThePortImage, Global(r), ThePort.back_pattern, "Copy"))
PaintOval(r) ==
  \E junk \in {{}, Bits} :
    Draw("PaintOval", r, FillEllipse(mem, ThePortImage, Global(r), ThePort.fill_pattern, junk))
EraseOval(r) ==
  \E junk \in {{}, Bits} :
    Draw("EraseOval", r, FillEllipse(mem, ThePortImage, Global(r), ThePort.back_pattern, junk))
InverRect(r) ==
  Draw("InverRect", r, FillRect(mem, ThePortImage, Global(r), Black, "XOr"))

\* A line is drawn to the right in the pen's row, whatever its end is.
Stroke(to_x) ==
  LET bounds == ThePort.port_bits.bounds
      row == ThePort.pen_location.y - bounds.top
  IN FillRow(mem, ThePortImage, row, Int16(ThePort.pen_location.x - bounds.left),
             Int16(to_x - bounds.left), Scanline(ThePortImage, row), ThePort.pen_pattern[0],
             "Copy")
LineTo(to) ==
  InPort({"ports"}, [op |-> "LineTo", to |-> to], Stroke(to.x),
         [ThePort EXCEPT !.pen_location = to])
Line(by) ==
  LET to == PointPlus(ThePort.pen_location, by)
  IN InPort({"ports"}, [op |-> "LineTo", to |-> to], Stroke(ThePort.pen_location.x + by.x),
            [ThePort EXCEPT !.pen_location = to])

\* GetPICTFrame, ParsePICTv1 into a buffer of the frame's size, CopyBits; the
\* error of a picture that has no end, or of another size than dst_rect, ends
\* the program.
DrawPicture(picture, r) ==
  LET frame == GetPICTFrame(picture)
      fits == ParseSucceeds(picture) /\ SameSize(frame, r)
  IN /\ Call({"ports"}, [op |-> "DrawPicture", rect |-> r, picture |-> picture])
     /\ draws < MaxDraws /\ draws' = draws + 1
     /\ halted' = ~(fits /\ Intact(ThePort.clip_region))
     /\ \E junk \in {{}, Bits} :
          mem' = IF halted' THEN mem
                 ELSE CopyBits(mem, ThePortImage, ParsePICTv1(picture), RectWidth(frame), frame,
                               Global(r), junk)
     /\ UNCHANGED <<portVars, handleVars, appVars>>
-----------------------------------------------------------------------------
\* Regions.
NewRgn ==
  /\ Call({"regions"}, [op |-> "NewRgn"])
  /\ AllocateHandles(<<NoRegion>>)
  /\ answer' = Len(blocks) + 1
  /\ UNCHANGED <<mem, portVars, rect, pt, halted, draws>>

\* region_save is the handle of a new block.
OpenRgn ==
  /\ Call({"regions"}, [op |-> "OpenRgn"])
  /\ AllocateHandles(<<NoRegion>>)
  /\ ports' = [ports EXCEPT ![the_port].region_save = Len(blocks) + 1]
  /\ UNCHANGED <<mem, the_port, appVars, halted, draws>>

\* While a region is open a round rectangle is its bounding box.
FrameRoundRect(r) ==
  IF ThePort.region_save = 0
  THEN InPort({"ports", "regions"}, [op |-> "FrameRect", rect |-> r], FramedRect(r), ThePort)
  ELSE /\ Call({"regions"}, [op |-> "FrameRoundRect", rect |-> r])
       /\ halted' = ~Intact(ThePort.clip_region)
       /\ table' = IF halted' THEN table ELSE WithRegionAt(ThePort.region_save, r)
       /\ UNCHANGED <<mem, portVars, blocks, appVars, draws>>

\* WriteTypeToHandle goes through GetRegionForHandle.
CloseRgnWrites(dst) == [blocks EXCEPT ![dst] = RegionAt(ThePort.region_save)]

\* `return WithType(...)' leaves before the reset of region_save.
CloseRgn(dst) ==
  /\ Call({"regions"}, [op |-> "CloseRgn", dst |-> dst])
  /\ ThePort.region_save # 0
  /\ halted' = ~Intact(dst)
  /\ blocks' = IF halted' THEN blocks ELSE CloseRgnWrites(dst)
  /\ UNCHANGED <<mem, portVars, table, appVars, draws>>

\* The master pointer is read without a check: elsewhere than at a block it
\* leads the model nowhere.  Only rectangles are supported.
AnswersOfRegion(op, h, value) ==
  /\ Call({"regions"}, [op |-> op])
  /\ halted' = ~(Intact(h) /\ blocks[h].region_size = RegionSize)
  /\ answer' = IF halted' THEN answer ELSE value
  /\ UNCHANGED <<mem, portVars, handleVars, rect, pt, draws>>
PtInRgn(p, h) == AnswersOfRegion("PtInRgn", h, PointInRect(p, blocks[h].bounding_box))
RectInRgn(r, h) == AnswersOfRegion("RectInRgn", h, RectInRect(r, blocks[h].bounding_box))

FillRgn(h, pattern) ==
  /\ Call({"regions"}, [op |-> "FillRgn"])
  /\ draws < MaxDraws /\ draws' = draws + 1
  /\ halted' = ~(Intact(h) /\ Intact(ThePort.clip_region))
  /\ mem' = IF halted' THEN mem
            ELSE FillRect(mem, ThePortImage, Global(blocks[h].bounding_box), pattern, "Copy")
  /\ UNCHANGED <<portVars, handleVars, appVars>>
-----------------------------------------------------------------------------
\* Calculations with the application's rectangle and point.
Computes(what, new_rect, new_pt, new_answer) ==
  /\ Call({"geometry"}, what)
  /\ rect' = new_rect /\ pt' = new_pt /\ answer' = new_answer
  /\ UNCHANGED <<mem, portVars, handleVars, halted, draws>>

SetRect(r) == Computes([op |-> "SetRect"], r, pt, answer)
InsetRectTrap(d) ==
  Computes([op |-> "InsetRect", by |-> d], InsetRect(rect, d.x, d.y), pt, answer)
OffsetRectTrap(d) ==
  Computes([op |-> "OffsetRect", by |-> d], OffsetRect(rect, d.x, d.y), pt, answer)
\* The answer is whether there is no intersection.
SectRect(r) ==
  LET sect == IntersectRect(rect, r)
  IN Computes([op |-> "SectRect", with |-> r], sect, pt, IsZeroRect(sect))
EqualRectTrap(r) == Computes([op |-> "EqualRect"], rect, pt, EqualRect(rect, r))
PtInRect == Computes([op |-> "PtInRect"], rect, pt, PointInRect(pt, rect))
SetPt(p) == Computes([op |-> "SetPt"], rect, p, answer)
AddPt(p) == Computes([op |-> "AddPt"], rect, PointPlus(pt, p), answer)
EqualPt(p) == Computes([op |-> "EqualPt"], rect, pt, pt = p)
Pt2Rect(p) ==
  Computes([op |-> "Pt2Rect", corner |-> p],
           [top |-> MIN(pt.y, p.y), left |-> MIN(pt.x, p.x),
            bottom |-> MAX(pt.y, p.y), right |-> MAX(pt.x, p.x)], pt, answer)
GetPen == Computes([op |-> "GetPen"], rect, ThePort.pen_location, answer)

Offset == [x |-> -ThePort.port_bits.bounds.left, y |-> -ThePort.port_bits.bounds.top]
LocalToGlobalTrap ==
  Computes([op |-> "LocalToGlobal"], rect, PointPlus(pt, Offset), answer)
GlobalToLocal ==
  Computes([op |-> "GlobalToLocal"], rect,
           [x |-> Int16(pt.x - Offset.x), y |-> Int16(pt.y - Offset.y)], answer)
-----------------------------------------------------------------------------
PortTraps ==
  \/ \E p \in Opened : SetPort(p)
  \/ \E p \in Ports : OpenPort(p)
  \/ \E b \in BitMaps : SetPortBits(b)
  \/ \E p \in Points : SetOrigin(p) \/ MoveTo(p) \/ Move(p) \/ PenSize(p)
  \/ \E mode \in {patCopy, patXOr, notPatXOr} : PenMode(mode)
  \/ \E pattern \in Patterns : PenPat(pattern)
  \/ PenNormal \/ GetPort
DrawingTraps ==
  \/ \E r \in Rectangles :
       \/ PaintRect(r) \/ InverRoundRect(r) \/ FrameRectTrap(r) \/ EraseRect(r)
       \/ PaintOval(r) \/ EraseOval(r) \/ InverRect(r) \/ FrameRoundRect(r)
       \/ \E pattern \in Patterns : FillRectTrap(r, pattern) \/ FillOval(r, pattern)
       \/ \E picture \in PictureHandles : DrawPicture(picture, r)
  \/ \E p \in Points : LineTo(p) \/ Line(p)
RegionTraps ==
  \/ NewRgn \/ OpenRgn
  \/ \E h \in Handles :
       \/ CloseRgn(h)
       \/ \E p \in Points : PtInRgn(p, h)
       \/ \E r \in Rectangles : RectInRgn(r, h)
       \/ \E pattern \in Patterns : FillRgn(h, pattern)
GeometryTraps ==
  \/ \E r \in Rectangles : SetRect(r) \/ SectRect(r) \/ EqualRectTrap(r)
  \/ \E p \in Points : InsetRectTrap(p) \/ OffsetRectTrap(p) \/ SetPt(p) \/ AddPt(p)
  \/ \E p \in Points : EqualPt(p) \/ Pt2Rect(p)
  \/ PtInRect \/ GetPen \/ LocalToGlobalTrap \/ GlobalToLocal
QuickDrawNext == PortTraps \/ DrawingTraps \/ RegionTraps \/ GeometryTraps
=============================================================================
