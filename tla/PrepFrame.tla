----------------------------- MODULE PrepFrame -----------------------------
(***************************************************************************)
(* A prep thread filling the pinned input of a recycled slot from one raw   *)
(* frame (Stages.cpp:411-420), patch by patch, through the headers          *)
(* RawFrameStore has laid over the strip.  Pipeline treats all of it as one *)
(* step that copies the number of the frame.                                *)
(***************************************************************************)
EXTENDS PrepKernel, PatchLayout

CONSTANTS Geometries,      \* the geometries to try
          Modes,           \* of "native", "box", "antialias"
          Images,          \* names of strips
          Pixel(_, _, _)   \* image, row, byte position -> byte

\* AppConfig takes no other number of channels, Run lets the model be the patch or
\* exactly half of it, and a strip is made of bytes.
ASSUME FrameAssumption ==
  /\ Modes \subseteq {"native", "box", "antialias"}
  /\ \A geo \in Geometries :
       /\ geo \in Geometry /\ geo.channels = 3
       /\ Modes # {"native"} => geo.patchHeight % 2 = 0 /\ geo.stripWidth % 2 = 0
       /\ \A im \in Images, y \in 0 .. geo.stripHeight - 1, b \in 0 .. RowBytes(geo) - 1 :
            Pixel(im, y, b) \in Byte

VARIABLES g, mode, swapRB, image,
          i,         \* the patch the thread is about to fill
          input      \* the slot's input, a flat array

vars == <<g, mode, swapRB, image, i, input>>

\* What the slot holds from the batch before.
Stale == "stale"

ModelH == IF mode = "native" THEN g.patchHeight ELSE g.patchHeight \div 2
ModelW == IF mode = "native" THEN g.stripWidth ELSE g.stripWidth \div 2
ImgElems == 3 * ModelH * ModelW
-----------------------------------------------------------------------------
\* The strip's byte at an offset.
Strip(at) == Pixel(image, at \div RowBytes(g), at % RowBytes(g))

\* frame.patches[p]: the cv::Mat header at layout.Offset(p).
Header(p) == [y \in 0 .. g.patchHeight - 1 |-> [b \in 0 .. RowBytes(g) - 1 |->
                Strip(Offset(g, p) + y * RowBytes(g) + b)]]

Init == /\ g \in Geometries /\ mode \in Modes /\ swapRB \in BOOLEAN /\ image \in Images
        /\ LayoutAccepts(g)
        /\ i = 0
        /\ input = [n \in 0 .. g.count * ImgElems - 1 |-> Stale]

\* One turn of the loop: Downscale2x::Run or PackNchw writes ImgElems floats from
\* i * ImgElems on, plane after plane, row after row.
FillPatch ==
  /\ i < g.count
  /\ LET patch == Header(i)
         rows  == [y \in 0 .. ModelH - 1 |->
                     ModelRow(mode, patch, g.stripWidth, g.patchHeight, y)]
         plane == ModelH * ModelW
         Written(n) == LET p == n \div plane
                           y == (n % plane) \div ModelW
                       IN <<PackRow(rows[y], ModelW, Plane(p, swapRB), n % ModelW), p>>
     IN input' = [n \in DOMAIN input |->
                    IF n \div ImgElems = i THEN Written(n % ImgElems) ELSE input[n]]
  /\ i' = i + 1
  /\ UNCHANGED <<g, mode, swapRB, image>>

Next == FillPatch

Spec == Init /\ [][Next]_vars
-----------------------------------------------------------------------------
(* The reference: real filters, no tables, no fixed point.                  *)

\* The triangle filter over the samples f, rounded to nearest.
Triangle(o, size, f) ==
  LET weight == [x \in 0 .. size - 1 |-> Quarter(o, x)]
      num == SumTo(size, [x \in 0 .. size - 1 |-> weight[x] * f[x]])
      den == SumTo(size, weight)
  IN (2 * num + den) \div (2 * den)

Sample(p, v, u, c) == Pixel(image, p * Step(g) + v, 3 * u + c)

Expected(p, y, x, c) ==
  CASE mode = "native" -> Sample(p, y, x, c)
    [] mode = "box" -> (Sample(p, 2 * y, 2 * x, c) + Sample(p, 2 * y, 2 * x + 1, c)
                         + Sample(p, 2 * y + 1, 2 * x, c)
                         + Sample(p, 2 * y + 1, 2 * x + 1, c) + 2) \div 4
    [] mode = "antialias" ->
         Triangle(y, g.patchHeight, [v \in 0 .. g.patchHeight - 1 |->
           Triangle(x, g.stripWidth, [u \in 0 .. g.stripWidth - 1 |-> Sample(p, v, u, c)])])

\* When the slot goes to qPrep every element of its input is what the model was
\* trained on for that patch, row, column and plane, and none is left over from
\* the batch before; what has not been reached yet is untouched.  Covers the byte
\* shuffles and their tail, the weights at the borders, the integer short cut, the
\* overlap of the patches, and the planes R and B change (Stages.cpp:90-371).
InputExact ==
  \A p \in 0 .. g.count - 1, plane \in 0 .. 2, y \in 0 .. ModelH - 1, x \in 0 .. ModelW - 1 :
    input[p * ImgElems + plane * ModelH * ModelW + y * ModelW + x]
      = IF p < i THEN <<Expected(p, y, x, IF swapRB THEN 2 - plane ELSE plane), plane>>
        ELSE Stale
=============================================================================
