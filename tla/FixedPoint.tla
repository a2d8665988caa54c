----------------------------- MODULE FixedPoint -----------------------------
\* The fixed-point arithmetic of Downscale2x (Stages.cpp), with 14 bits of fraction.
EXTENDS Integers

One == 16384      \* kWeightOne
Byte == 0 .. 255

\* RoundShiftClipU8
RoundShiftClipU8(acc) ==
  LET r == (acc + 8192) \div One
  IN IF r < 0 THEN 0 ELSE IF r > 255 THEN 255 ELSE r

\* The outputs FastMask marks: [1, 3, 3, 1] / 8 without multiplications.
FastTaps(p0, p1, p2, p3) == (p0 + p3 + 3 * (p1 + p2) + 4) \div 8
=============================================================================
