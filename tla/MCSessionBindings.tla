------------------------- MODULE MCSessionBindings -------------------------
(* Small instances of SessionBindings for TLC.                               *)
EXTENDS SessionBindings, TLC

(* The members of each set differ only in their identity.                    *)
Symmetry ==
    Permutations(Attempts) \cup Permutations(Resets)
    \cup Permutations(Routes) \cup Permutations(Revisions)
=============================================================================
