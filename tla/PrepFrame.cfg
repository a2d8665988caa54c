CONSTANTS
  Geometries <- GeometriesMC
  Modes = {"native", "box", "antialias"}
  Images <- ImagesMC
  Pixel <- PixelMC
SPECIFICATION Spec
\* The slot is full.
CHECK_DEADLOCK FALSE
INVARIANTS InputExact
