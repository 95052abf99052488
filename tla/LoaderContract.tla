--------------------------- MODULE LoaderContract ---------------------------
(***************************************************************************)
(* What AsyncLoader promises about one object, whatever its threads do:    *)
(* from queue_for_load it is loaded at most once, never while a more       *)
(* urgent object is queued, and it is destroyed only when the loader is    *)
(* done with it, either because it was loaded or because ensure_deletable  *)
(* took it off the queue, after which it is never loaded.                  *)
(***************************************************************************)
EXTENDS Naturals

CONSTANTS Objects, Priority

VARIABLE status

Statuses == {"absent", "queued", "loading", "done", "dropped"}

Become(o, old, new) ==
  /\ status[o] = old
  /\ status' = [status EXCEPT ![o] = new]

Init == status = [o \in Objects |-> "absent"]

Queue(o) == Become(o, "absent", "queued")

Start(o) ==
  /\ \A x \in Objects : status[x] = "queued" => Priority[x] >= Priority[o]
  /\ Become(o, "queued", "loading")

Finish(o) == Become(o, "loading", "done")
Drop(o) == Become(o, "queued", "dropped")
Destroy(o) == Become(o, "done", "absent") \/ Become(o, "dropped", "absent")

Next == \E o \in Objects : Queue(o) \/ Start(o) \/ Finish(o) \/ Drop(o) \/ Destroy(o)

Spec == Init /\ [][Next]_status
=============================================================================
