----------------------------- MODULE MCGraphics -----------------------------
(* Bytes of three pixels; a screen of 5 x 3 pixels, which ends within a    *)
(* byte, and behind it the memory of an application's bitmap.              *)
EXTENDS Graphics

R(l, t, r, b) == [top |-> t, left |-> l, bottom |-> b, right |-> r]
P(x, y) == [x |-> x, y |-> y]

MCScreenBits == [base_addr |-> 0, row_bytes |-> 2, bounds |-> R(0, 0, 5, 3)]
MCBitMaps ==
  {[base_addr |-> 6, row_bytes |-> 2, bounds |-> R(0, -1, 4, 1)],
   [base_addr |-> 6, row_bytes |-> 2, bounds |-> R(0, 0, 3, 2)]}
MCContents ==
  {[i \in 0..9 |-> {}], [i \in 0..9 |-> IF i % 3 = 0 THEN {0, 2} ELSE {1}]}
MCRectangles ==
  {R(0, 0, 5, 3), R(1, 1, 3, 3), R(2, -1, 6, 1), R(-2, 0, 4, 5), R(3, 1, 2, 2),
   R(-4, -3, 6, 4), R(1, 0, 5, 2), R(-1, 1, 4, 3), R(1, 2, 4, 0)}
MCPoints == {P(1, 1), P(2, -1), P(4, 2)}
MCPatterns == {[k \in 0..1 |-> IF k = 0 THEN {0} ELSE {1, 2}], [k \in 0..1 |-> {0, 1, 2}]}

(* The bands of a picture, from the pixels they shall show.                *)
ByteRow(pixels, width, y) ==
  [k \in 1..PixelWidthToBytes(width) |-> {b \in Bits : <<(k - 1) * CHAR_BIT + b, y>> \in pixels}]
Literal(bytes) == <<[flag |-> Len(bytes) - 1, bytes |-> bytes]>>
Singles(bytes) == [i \in DOMAIN bytes |-> [flag |-> 0, bytes |-> <<bytes[i]>>]]
Repeats(bytes) ==
  IF Len(bytes) > 1 /\ \A i \in DOMAIN bytes : bytes[i] = bytes[1]
  THEN <<[flag |-> -(Len(bytes) - 1), bytes |-> <<bytes[1]>>]>> ELSE Singles(bytes)
Pack(how, bytes) ==
  CASE how = "literal" -> Literal(bytes) [] how = "repeats" -> Repeats(bytes)
BandOf(opcode, how, bounds, dst, pixels) ==
  [opcode |-> opcode, bounds |-> bounds, src |-> bounds, dst |-> dst, pixels |-> pixels,
   rows |-> [y \in 1..bounds.bottom - bounds.top |->
               LET bytes == ByteRow(pixels, bounds.right - bounds.left, y - 1)
               IN IF opcode = "BitsRect" THEN bytes ELSE Pack(how, bytes)]]
Mark == {<<0, 0>>, <<2, 0>>, <<3, 0>>, <<1, 1>>, <<3, 1>>}
Solid == (0..5) \X (0..1)
End == [opcode |-> "EndOfPicture"]
Version == [opcode |-> "PictVersion"]
MCPictures ==
  {[frame |-> R(1, 1, 5, 3),
    ops |-> <<Version, BandOf("BitsRect", "", R(2, 0, 6, 2), R(1, 1, 5, 3), Mark), End>>],
   [frame |-> R(0, 0, 4, 2),
    ops |-> <<BandOf("PackedBitsRect", "literal", R(0, 0, 4, 1), R(0, 0, 4, 1), Mark),
              BandOf("PackedBitsRect", "repeats", R(0, 1, 4, 2), R(0, 1, 4, 2), {<<2, 0>>}), End>>],
   [frame |-> R(0, 0, 5, 2),
    ops |-> <<BandOf("PackedBitsRect", "repeats", R(0, 0, 6, 2), R(0, 0, 6, 2), Solid),
              BandOf("BitsRect", "", R(0, 0, 2, 2), R(3, 0, 5, 2), Mark), End>>],
   [frame |-> R(0, 0, 2, 2), ops |-> <<Version>>]}

MCMaxSteps == [ports |-> 3, regions |-> 5, geometry |-> 3, screen |-> 4]
MCClipRegions ==
  {{<<0, 0>>, <<1, 0>>, <<3, 0>>, <<4, 0>>, <<2, 1>>, <<0, 2>>},
   (1..3) \X (0..9), {<<4, 2>>, <<7, 7>>}}
MCScreenRects == {R(0, 0, 5, 3), R(1, 0, 4, 3), R(-2, -1, 4, 2), R(2, 1, 9, 3), R(1, 2, 4, 1)}
MCScreenPatterns == MCPatterns
MCPopUps ==
  {[anchor |-> R(1, 0, 3, 1), bounds |-> R(1, 1, 4, 3), items |-> 2],
   [anchor |-> R(2, 0, 5, 1), bounds |-> R(2, 1, 8, 4), items |-> 3]}
=============================================================================
