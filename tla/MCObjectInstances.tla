-------------------------- MODULE MCObjectInstances --------------------------
\* Two tiles A and B.  Object s stands across their border; x and y have one
\* uid and stand on A and on B, and x and s are drawn from the same model; n
\* is not placed yet.
EXTENDS ObjectInstances, TLC
CONSTANTS A, B, s, x, y, n, onA, onB, across, across2

MCTiles == {A, B}
MCObjects == {s, x, y, n}
MCModel == (s :> 1) @@ (x :> 1) @@ (y :> 2) @@ (n :> 3)
MCPlaces == {onA, onB, across, across2}
MCTouch == (onA :> {A}) @@ (onB :> {B}) @@ (across :> {A, B}) @@ (across2 :> {A, B})
MCCentre == (onA :> A) @@ (onB :> B) @@ (across :> A) @@ (across2 :> B)
MCFirstRows == {[uid |-> 1, obj |-> s, place |-> across],
                [uid |-> 2, obj |-> x, place |-> onA],
                [uid |-> 2, obj |-> y, place |-> onB]}
=============================================================================
