------------------------- MODULE MCPlatformSession -------------------------
(* Instances of PlatformSession for TLC.  Processes of one kind are alike. *)
EXTENDS PlatformOwnershipInv, TLC

Symmetry == Permutations(Uis) \cup Permutations(Exts)

=============================================================================
