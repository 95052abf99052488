------------------------------ MODULE MCMapTiles ------------------------------
(***************************************************************************)
(* Small instances of MapTiles.                                            *)
(***************************************************************************)
EXTENDS MapTiles, TLC

\* No action tells two tiles of one kind apart.
TileSymmetry == Permutations(Tiles \ Missing)
=============================================================================
