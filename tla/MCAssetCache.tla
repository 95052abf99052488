---------------------------- MODULE MCAssetCache ----------------------------
(* AssetCache on two files that share two addresses: a texture, which a worker *)
(* may fail to load, and a less urgent model.                                  *)
EXTENDS AssetCache, TLC

CONSTANT Urgent

MCPriority == [o \in Objects |-> IF o \in Urgent THEN 0 ELSE 1]

=============================================================================
