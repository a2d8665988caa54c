----------------------------- MODULE PrepKernel -----------------------------
(***************************************************************************)
(* The arithmetic of PrepStage (Stages.cpp): from an interleaved BGR patch  *)
(* of bytes to three planes, at the size of the patch or at half of it.     *)
(* A row is a function from byte positions to bytes.  A float that goes     *)
(* into a plane is the byte and the number of the scale and offset it is    *)
(* multiplied and added with; what these are makes no difference here.      *)
(***************************************************************************)
EXTENDS Integers, Sequences, FixedPoint

\* Colours are numbered as in the strip: B 0, G 1, R 2.
Colour == 0 .. 2

\* The masks of the AVX2 branch: which byte of the register goes where, -1 none.
None == -1
Masks == <<
  <<<<0, 3, 6, 9, 12, 15, -1, -1, -1, -1, -1, -1, -1, -1, -1, -1>>,
    <<-1, -1, -1, -1, -1, -1, 2, 5, 8, 11, 14, -1, -1, -1, -1, -1>>,
    <<-1, -1, -1, -1, -1, -1, -1, -1, -1, -1, -1, 1, 4, 7, 10, 13>>>>,
  <<<<1, 4, 7, 10, 13, -1, -1, -1, -1, -1, -1, -1, -1, -1, -1, -1>>,
    <<-1, -1, -1, -1, -1, 0, 3, 6, 9, 12, 15, -1, -1, -1, -1, -1>>,
    <<-1, -1, -1, -1, -1, -1, -1, -1, -1, -1, -1, 2, 5, 8, 11, 14>>>>,
  <<<<2, 5, 8, 11, 14, -1, -1, -1, -1, -1, -1, -1, -1, -1, -1, -1>>,
    <<-1, -1, -1, -1, -1, 1, 4, 7, 10, 13, -1, -1, -1, -1, -1, -1>>,
    <<-1, -1, -1, -1, -1, -1, -1, -1, -1, -1, 0, 3, 6, 9, 12, 15>>>> >>
-----------------------------------------------------------------------------
(* A definition named Bug... is a plausible mistake in the one that follows  *)
(* it; it shows that a property would notice, and nothing else uses it.     *)

\* _mm_shuffle_epi8 on register r of the 48 bytes from `at` on; _mm_or_si128 of
\* the three, which is their sum because no two masks of a colour overlap.
Shuffle(row, at, r, mask, j) ==
  IF mask[j + 1] = None THEN 0 ELSE row[at + 16 * r + mask[j + 1]]

Deinterleave(row, at, c, j) ==
  Shuffle(row, at, 0, Masks[c + 1][1], j) + Shuffle(row, at, 1, Masks[c + 1][2], j)
    + Shuffle(row, at, 2, Masks[c + 1][3], j)

\* Which plane colour c goes to: cB, 1 and cR.
Plane(c, swapRB) == IF swapRB THEN 2 - c ELSE c

\* The blocks of 16 start at every eighth pixel.
BugPackRow(row, W, c, x) ==
  IF x < 16 * (W \div 16) THEN Deinterleave(row, 24 * (x \div 16), c, x % 16)
  ELSE row[3 * x + c]

\* PackRow: 16 pixels at a time, the rest one by one.
PackRow(row, W, c, x) ==
  IF x < 16 * (W \div 16) THEN Deinterleave(row, 48 * (x \div 16), c, x % 16)
  ELSE row[3 * x + c]

\* TriangleCoeffs for outSize = inSize / 2, the only ratio Run lets through: the
\* centre of output o is 2o + 1 and the filter reaches 2 to each side.  Weights
\* are in quarters before they are normalised.
KSize == 5

XMin(o)         == IF o = 0 THEN 0 ELSE 2 * o - 1
XMax(o, inSize) == IF 2 * o + 3 > inSize THEN inSize ELSE 2 * o + 3

Quarter(o, x) == LET d == 2 * x - 4 * o - 1
                     w == 4 - (IF d < 0 THEN -d ELSE d)
                 IN IF w < 0 THEN 0 ELSE w

\* The sum of the first n values of f.
SumTo(n, f) == LET s[k \in 0 .. n] == IF k = 0 THEN 0 ELSE s[k - 1] + f[k - 1] IN s[n]

TriangleCoeffs(o, inSize) ==
  LET first == XMin(o)
      n     == XMax(o, inSize) - first
      q     == [t \in 0 .. KSize - 1 |-> IF t < n THEN Quarter(o, first + t) ELSE 0]
      total == SumTo(n, q)
      w     == [t \in 0 .. KSize - 1 |-> (2 * q[t] * One + total) \div (2 * total)]
      isum  == SumTo(n, w)
      imax  == CHOOSE t \in 0 .. n - 1 : /\ \A u \in 0 .. n - 1 : q[u] =< q[t]
                                         /\ \A u \in 0 .. t - 1 : q[u] < q[t]
  IN [first |-> first, w |-> [w EXCEPT ![imax] = @ + One - isum]]

\* FastMask
Fast(w) == /\ w[0] = 2048 /\ w[1] = 6144 /\ w[2] = 6144 /\ w[3] = 2048
           /\ w[4] = 0

\* One output of either pass over the samples p.
Pass(o, inSize, p) ==
  LET c     == TriangleCoeffs(o, inSize)
      avail == IF KSize < inSize - c.first THEN KSize ELSE inSize - c.first
  IN IF Fast(c.w)
     THEN FastTaps(p[c.first], p[c.first + 1], p[c.first + 2], p[c.first + 3])
     ELSE RoundShiftClipU8(SumTo(avail, [k \in 0 .. avail - 1 |-> c.w[k] * p[c.first + k]]))

\* The horizontal pass, then the vertical one on its rounded result.
RunAntialias(patch, W, H, y, c, x) ==
  Pass(y, H, [v \in 0 .. H - 1 |-> Pass(x, W, [u \in 0 .. W - 1 |-> patch[v][3 * u + c]])])

RunBox(patch, y, c, x) ==
  (patch[2 * y][6 * x + c] + patch[2 * y][6 * x + 3 + c]
     + patch[2 * y + 1][6 * x + c] + patch[2 * y + 1][6 * x + 3 + c] + 2) \div 4

\* Row y of the model's input as bytes: the patch's own, or one made by Downscale2x.
ModelRow(mode, patch, W, H, y) ==
  IF mode = "native" THEN patch[y]
  ELSE [i \in 0 .. 3 * (W \div 2) - 1 |->
          IF mode = "box" THEN RunBox(patch, y, i % 3, i \div 3)
          ELSE RunAntialias(patch, W, H, y, i % 3, i \div 3)]
=============================================================================
