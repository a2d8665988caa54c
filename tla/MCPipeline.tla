----------------------------- MODULE MCPipeline -----------------------------
\* Pipeline on small instances.
EXTENDS Pipeline

CONSTANTS p1, p2, i1, o1, o2

OnePrep  == {p1}
TwoPreps == {p1, p2}
OneInfer == {i1}
OnePost  == {o1}
TwoPosts == {o1, o2}
=============================================================================
