----------------------------- MODULE AtomicFile -----------------------------
(***************************************************************************)
(* What SafeFileWrite.hpp promises of a file: its contents change in one   *)
(* step from one complete version to the next, a save that fails leaves    *)
(* them as they were, and one that succeeds has put its version there.     *)
(* The program may crash at any time; what is on disk stays.               *)
(***************************************************************************)
EXTENDS Naturals

CONSTANT Files

VARIABLES
  content,    (* the complete version a reader finds, 0 for no file         *)
  version,    (* the version in memory that is being, or was last, saved    *)
  phase,      (* how far the save has come                                  *)
  confirmed   (* the last version whose save returned true, 0 for none      *)

vars == <<content, version, phase, confirmed>>

Init ==
  /\ content \in [Files -> Nat]
  /\ version = content
  /\ phase = [f \in Files |-> "idle"]
  /\ confirmed = [f \in Files |-> 0]

(* A save of a version newer than every one before it.                     *)
Begin(f) ==
  /\ phase[f] = "idle"
  /\ version' = [version EXCEPT ![f] = @ + 1]
  /\ phase' = [phase EXCEPT ![f] = "saving"]
  /\ UNCHANGED <<content, confirmed>>

(* The only step that changes what a reader finds.                         *)
Replace(f) ==
  /\ phase[f] = "saving"
  /\ content' = [content EXCEPT ![f] = version[f]]
  /\ phase' = [phase EXCEPT ![f] = "replaced"]
  /\ UNCHANGED <<version, confirmed>>

(* true is returned only after the replacement, false only without it.     *)
Succeed(f) ==
  /\ phase[f] = "replaced"
  /\ phase' = [phase EXCEPT ![f] = "idle"]
  /\ confirmed' = [confirmed EXCEPT ![f] = version[f]]
  /\ UNCHANGED <<content, version>>

GiveUp(f) ==
  /\ phase[f] = "saving"
  /\ phase' = [phase EXCEPT ![f] = "idle"]
  /\ UNCHANGED <<content, version, confirmed>>

Crash ==
  /\ phase' = [f \in Files |-> "idle"]
  /\ UNCHANGED <<content, version, confirmed>>

Next ==
  \/ \E f \in Files : Begin(f) \/ Replace(f) \/ Succeed(f) \/ GiveUp(f)
  \/ Crash

Spec == Init /\ [][Next]_vars
=============================================================================
