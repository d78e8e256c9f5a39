-------------------------- MODULE MCInventoryOwner --------------------------
(* Scopes and symmetry for InventoryOwner.                                   *)
EXTENDS InventoryOwner, TLC

MCAuthorities == Owned \cup AttemptScopes

Symmetry ==
    UNION {Permutations(S) : S \in {Callers, Coordinates, Environments, Configs \ {Undefined}}}
=============================================================================
