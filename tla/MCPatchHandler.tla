--------------------------- MODULE MCPatchHandler ---------------------------
(* Two PATCH calls of one driver, another client, and a lagging region. *)
EXTENDS PatchHandler, TLC

Three == {3}
Symmetric == Permutations(Patches)
=============================================================================
