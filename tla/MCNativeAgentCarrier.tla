----------------------- MODULE MCNativeAgentCarrier -----------------------
(* Small instances of NativeAgentCarrier for TLC.                            *)
EXTENDS NativeAgentCarrier, TLC

Symmetry == Permutations(Attempts)
=============================================================================
