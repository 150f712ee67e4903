------------------------------ MODULE Pictures ------------------------------
(***************************************************************************)
(* Pictures, emu/graphics/pict_v1.cc.  A picture is its frame and a list   *)
(* of operations; one that holds bits has rows of bytes, packed into runs  *)
(* or not.                                                                 *)
(***************************************************************************)
EXTENDS BitmapImage

\* uint16_t offsets, 16 bits again when they are subtracted.
RelativeTo(container, target) == OffsetRect(target, -container.left, -container.top)

GetPICTFrame(picture) == NormalizeRect(picture.frame)

\* A run's flag says how many bytes it stands for, less one: that many of its
\* own, or as many of the one byte it has if the flag is negative; the lowest
\* flag is a byte itself.
RunBytes(run) ==
  CASE run.flag = -128 -> <<{0}>>
    [] run.flag < 0 /\ run.flag # -128 -> [i \in 1..-run.flag + 1 |-> run.bytes[1]]
    [] run.flag >= 0 -> [i \in 1..run.flag + 1 |-> run.bytes[i]]

\* A row's bytes; the length in front of the runs is that of the runs.
UnpackBits(runs) == FlattenSeq([i \in DOMAIN runs |-> RunBytes(runs[i])])

\* BitsRect and PackedBitsRect; the second leaves no room at the left.
BandRow(output, frame, band, row) ==
  LET packed == band.opcode = "PackedBitsRect"
      bytes == IF packed THEN UnpackBits(band.rows[row + 1]) ELSE band.rows[row + 1]
      src == RelativeTo(band.bounds, band.src)
      dst == RelativeTo(frame, band.dst)
  IN BitarrayCopy([i \in 0..Len(bytes)-1 |-> bytes[i + 1]], 0, src.left, src.right - src.left,
                  output, PixelWidthToBytes(RectWidth(frame)) * (dst.top + row),
                  IF packed THEN 0 ELSE dst.left, {})

Band(output, frame, band) ==
  FoldLeft(LAMBDA out, i : BandRow(out, frame, band, i - 1),
           output, [i \in 1..RectHeight(band.bounds) |-> i])

BandOpcodes == {"BitsRect", "PackedBitsRect"}
Skipped == {"ClipRegion", "PictVersion", "shortComment"}

Ends(picture, i) == picture.ops[i].opcode \notin BandOpcodes \cup Skipped
RunsTo(picture) == IF \E i \in DOMAIN picture.ops : Ends(picture, i)
                   THEN CHOOSE i \in DOMAIN picture.ops :
                          Ends(picture, i) /\ \A j \in 1..i-1 : ~Ends(picture, j)
                   ELSE Len(picture.ops)

\* ParsePICTv1 succeeds if it finds EndOfPicture before any unknown opcode.
ParseSucceeds(picture) ==
  picture.ops # <<>> /\ picture.ops[RunsTo(picture)].opcode = "EndOfPicture"

ParsePICTv1(picture) ==
  LET frame == GetPICTFrame(picture)
      blank == [i \in 0..PixelWidthToBytes(frame.right)*frame.bottom-1 |-> {}]
      bands == SelectSeq(SubSeq(picture.ops, 1, RunsTo(picture)),
                         LAMBDA op : op.opcode \in BandOpcodes)
  IN FoldLeft(LAMBDA out, band : Band(out, picture.frame, band), blank, bands)
=============================================================================
