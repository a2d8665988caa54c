---------------------------- MODULE PatchLayout ----------------------------
(***************************************************************************)
(* PatchLayout (PatchLayout.cpp): how the patches lie in the strip.  A      *)
(* geometry is a record with the fields of PatchGeometry.  The arithmetic   *)
(* is unsigned and 32 bits wide up to Step and the check of the             *)
(* constructor, 64 bits wide for bytes; the ranges AppConfig accepts keep   *)
(* both far from their limits, so plain integers stand for them.            *)
(***************************************************************************)
EXTENDS Integers

Step(g)         == g.patchHeight - g.overlap
RowBytes(g)     == g.stripWidth * g.channels
PatchBytes(g)   == g.patchHeight * RowBytes(g)
PayloadBytes(g) == g.stripHeight * RowBytes(g)

\* Where patch i, counted from 0, begins.
Offset(g, i) == i * Step(g) * RowBytes(g)

\* What the constructor does not refuse.
LayoutAccepts(g) ==
  /\ g.stripWidth # 0 /\ g.stripHeight # 0 /\ g.patchHeight # 0 /\ g.count # 0
  /\ g.channels \in {1, 3}
  /\ g.overlap < g.patchHeight
  /\ (g.count - 1) * Step(g) + g.patchHeight = g.stripHeight
-----------------------------------------------------------------------------
Geometry == [stripWidth : Nat, stripHeight : Nat, channels : Nat,
             patchHeight : Nat, overlap : Nat, count : Nat]

\* Every patch is inside the payload, the first begins with it, the last ends
\* with it, and no row between two patches is left out.
PatchesTileStrip(g) ==
  /\ \A i \in 0 .. g.count - 1 : Offset(g, i) + PatchBytes(g) =< PayloadBytes(g)
  /\ Offset(g, 0) = 0
  /\ Offset(g, g.count - 1) + PatchBytes(g) = PayloadBytes(g)
  /\ \A i \in 1 .. g.count - 1 : Offset(g, i) =< Offset(g, i - 1) + PatchBytes(g)
=============================================================================
