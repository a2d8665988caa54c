---------------------------- MODULE MCPrepFrame ----------------------------
\* PrepFrame on strips a few rows high; the widths cover no block of 16 pixels,
\* one and a tail, and two and a tail, at full size and at half.
EXTENDS PrepFrame

Strips(width, patchHeight, overlap, count) ==
  [stripWidth |-> width, channels |-> 3, patchHeight |-> patchHeight, overlap |-> overlap,
   count |-> count, stripHeight |-> (count - 1) * (patchHeight - overlap) + patchHeight]

GeometriesMC == {Strips(2, 2, 0, 2), Strips(4, 4, 1, 3), Strips(6, 6, 2, 2),
                 Strips(36, 4, 2, 2), Strips(70, 2, 1, 2)}

ImagesMC == {"ramp", "noise", "checks", "white", "edge"}

PixelMC(name, row, b) ==
  CASE name = "ramp"   -> (31 * row + b) % 256
    [] name = "noise"  -> (row * row * 73 + b * b * 37 + row * b * 11 + 5 * b) % 256
    [] name = "checks" -> IF (row + (b \div 3) + b) % 2 = 0 THEN 255 ELSE 0
    [] name = "white"  -> 255
    [] name = "edge"   -> IF row = 1 /\ b \div 3 = 1 THEN 255 - b ELSE 1
=============================================================================
