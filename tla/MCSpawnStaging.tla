--------------------------- MODULE MCSpawnStaging ---------------------------
\* A creature with an addon on the tile that is loaded, a gameobject with the
\* same guid far away, a creature to place and one the server adds far away.
EXTENDS SpawnStaging, TLC

CONSTANTS guard, chest, wolf, rat, here, there, away, near, far

MCKindOf == (guard :> "creature") @@ (wolf :> "creature") @@ (rat :> "creature")
            @@ (chest :> "gameobject")
MCTileOf == (here :> near) @@ (there :> near) @@ (away :> far)
RowAt(s, p) == [spawn |-> s, at |-> p]
First(s, p) == [kind |-> MCKindOf[s], guid |-> 1, row |-> RowAt(s, p),
                addon |-> FALSE, dirty |-> FALSE, new |-> FALSE]
MCFirstRows == {First(guard, here), First(chest, away)}
MCTheirs == {RowAt(rat, away)}
MCPlaceable == {RowAt(wolf, here)}
=============================================================================
