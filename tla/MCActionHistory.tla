--------------------------- MODULE MCActionHistory ---------------------------
\* A chunk's terrain, which can be redone, and its layer infos, which cannot; a
\* map without objects, on which values and spots are interchangeable.
EXTENDS ActionHistory, TLC

CONSTANTS terrain, layers, here, there, low, high

MCLoaded == <<>>
Symmetry == Permutations({low, high}) \cup Permutations({here, there})
=============================================================================
