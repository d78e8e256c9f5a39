--------------------------- MODULE MCAgyStream ---------------------------
(* Small instances of AgyStream for TLC.                                     *)
EXTENDS AgyStream, TLC

Symmetry == Permutations(StepIndices) \cup Permutations(Tools)
=============================================================================
