---------------------------- MODULE MCUpdateQueue ----------------------------
(***************************************************************************)
(* Two tiles whose border is crossed by the boxes of all objects: o stands *)
(* in both ADTs, r in one of them under a uid that is taken.               *)
(***************************************************************************)
EXTENDS UpdateQueue, TLC

CONSTANTS t1, t2, o, r

MCRows == (t1 :> {o}) @@ (t2 :> {o, r})
MCTouches == (o :> {t1, t2}) @@ (r :> {t1, t2})
=============================================================================
