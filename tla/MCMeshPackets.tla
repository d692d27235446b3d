--------------------------- MODULE MCMeshPackets ---------------------------
(* Small instances of MeshPackets.                                         *)
EXTENDS MeshPackets, TLC

CONSTANTS a, b, c

\* Two devices of the default mesh name, and a third that was set up to join.
TwoNames == (a :> "My Mesh") @@ (b :> "My Mesh") @@ (c :> "Joining")
InOrder  == (a :> 1) @@ (b :> 2) @@ (c :> 3)
=============================================================================
