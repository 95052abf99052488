--------------------------- MODULE SafeFileWrite ---------------------------
(***************************************************************************)
(* writeFileAtomically, commitReplacementFile and the reporting of a       *)
(* failure, with DBCFile::save and the writer of md5translate.trs, which   *)
(* repeat the same steps. Every call to the file system may fail, and the  *)
(* program may crash between any two of them. Power failures, which leave  *)
(* to the file system what of a file that was closed is on the disk, are   *)
(* not modelled: the code neither syncs nor says anything about them.      *)
(*                                                                         *)
(* Saves of different files may run on different threads; two saves of     *)
(* one file do not overlap (every save is made by the main thread).        *)
(***************************************************************************)
EXTENDS Naturals

CONSTANTS
  Files,       (* what is saved: an ADT, the WDT, the WDL, a DBC ...        *)
  DBCs,        (* the files of DBCFile::save                                *)
  Indexes,     (* the files of saveMinimapMD5translate                      *)
  MaxSaves     (* bound: saves in one behaviour                             *)

ASSUME FilesAssumption == DBCs \subseteq Files /\ Indexes \subseteq Files

VARIABLES
  target, tmp, bak, (* what each of the three names of a file holds         *)
  version,          (* the version the file has in memory                   *)
  pc,               (* where the save of each file is                       *)
  confirmed,        (* the last version whose save returned true            *)
  pending,          (* noggitPendingSaveFailures                            *)
  posts,            (* flushes posted to the event loop and not yet run     *)
  saves             (* the saves begun, for the bound                       *)

disk == <<target, tmp, bak>>
queue == <<pending, posts>>
vars == <<target, tmp, bak, version, pc, confirmed, pending, posts, saves>>

(* A name holds a version, whole or cut off; no file is version 0.         *)
Contents == [version : Nat, whole : BOOLEAN]
Whole(v) == [version |-> v, whole |-> TRUE]
Torn(v)  == [version |-> v, whole |-> FALSE]
Absent   == Whole(0)

(* The failed saves a user is to be told of.                               *)
Failure(f) == <<f, version[f]>>

Writing    == {"directory", "open", "write", "discard", "exists", "copy", "rename"}
Committed  == {"exists", "copy", "rename"}
Reporting  == {"post", "unlatch"}

(* What an earlier run may have left behind Crash leaves as well.          *)
Init ==
  /\ target \in [Files -> {Absent, Whole(1)}]
  /\ tmp = [f \in Files |-> Absent]
  /\ bak = [f \in Files |-> Absent]
  /\ version = [f \in Files |-> target[f].version]
  /\ pc = [f \in Files |-> "idle"]
  /\ confirmed = [f \in Files |-> 0]
  /\ pending = {}
  /\ posts = 0
  /\ saves = 0

(* DBCFile::save repeats the steps of writeFileAtomically and the commit,  *)
(* but looks neither at the result of mkpath nor, before the end, at the   *)
(* stream, and only logs a failure.                                        *)
WrittenByDBC(f) == f \in DBCs

(* saveMinimapMD5translate writes the temporary file through a text        *)
(* stream, makes no directory, and shares the commit and the report.       *)
WrittenByStream(f) == f \in Indexes

Goto(f, label) == pc' = [pc EXCEPT ![f] = label]

Save(f) ==
  /\ pc[f] = "idle" /\ saves < MaxSaves
  /\ saves' = saves + 1
  /\ version' = [version EXCEPT ![f] = @ + 1]
  /\ Goto(f, "directory")
  /\ UNCHANGED <<disk, confirmed, queue>>

(* The parent directory is there, or made, or the save has failed.         *)
CreateDirectory(f) ==
  /\ pc[f] = "directory"
  /\ \/ Goto(f, "open")
     \/ ~WrittenByDBC(f) /\ ~WrittenByStream(f) /\ Goto(f, "failed")
  /\ UNCHANGED <<disk, version, confirmed, queue, saves>>

(* Opening truncates. A DBC's stream that did not open is found out after  *)
(* it was closed.                                                          *)
Open(f) ==
  /\ pc[f] = "open"
  /\ \/ tmp' = [tmp EXCEPT ![f] = Torn(version[f])] /\ Goto(f, "write")
     \/ UNCHANGED tmp /\ Goto(f, IF WrittenByDBC(f) THEN "discard" ELSE "failed")
  /\ UNCHANGED <<target, bak, version, confirmed, queue, saves>>

WriteUnchecked(f) ==
  /\ pc[f] = "write"
  /\ tmp' \in {[tmp EXCEPT ![f] = Whole(version[f])], tmp}
  /\ Goto(f, "exists")
  /\ UNCHANGED <<target, bak, version, confirmed, queue, saves>>

(* The bytes are written and the stream is closed, and then asked.         *)
Write(f) ==
  /\ pc[f] = "write"
  /\ \/ tmp' = [tmp EXCEPT ![f] = Whole(version[f])] /\ Goto(f, "exists")
     \/ UNCHANGED tmp /\ Goto(f, "discard")
  /\ UNCHANGED <<target, bak, version, confirmed, queue, saves>>

(* The temporary file is removed, if that succeeds.                        *)
Discard(f) ==
  /\ pc[f] = "discard"
  /\ tmp' \in {[tmp EXCEPT ![f] = Absent], tmp}
  /\ Goto(f, "failed")
  /\ UNCHANGED <<target, bak, version, confirmed, queue, saves>>

BackupByRename(f) ==
  /\ pc[f] = "exists"
  /\ bak' = [bak EXCEPT ![f] = target[f]]
  /\ target' = [target EXCEPT ![f] = Absent]
  /\ Goto(f, "rename")
  /\ UNCHANGED <<tmp, version, confirmed, queue, saves>>

(* A target that exists is copied over the last backup, which the copy     *)
(* truncates first. Not finding the target, or not being able to open the  *)
(* backup, only skips the copy.                                            *)
Backup(f) ==
  /\ pc[f] = "exists"
  /\ \/ /\ target[f] # Absent
        /\ bak' = [bak EXCEPT ![f] = Torn(target[f].version)]
        /\ Goto(f, "copy")
     \/ UNCHANGED bak /\ Goto(f, "rename")
  /\ UNCHANGED <<target, tmp, version, confirmed, queue, saves>>

Copy(f) ==
  /\ pc[f] = "copy"
  /\ bak' \in {[bak EXCEPT ![f] = target[f]], bak}
  /\ Goto(f, "rename")
  /\ UNCHANGED <<target, tmp, version, confirmed, queue, saves>>

RenameUnchecked(f) ==
  /\ pc[f] = "rename"
  /\ \/ target' = [target EXCEPT ![f] = tmp[f]] /\ tmp' = [tmp EXCEPT ![f] = Absent]
     \/ UNCHANGED <<target, tmp>>
  /\ Goto(f, "saved")
  /\ UNCHANGED <<bak, version, confirmed, queue, saves>>

(* The one moment the destination changes.                                 *)
Rename(f) ==
  /\ pc[f] = "rename"
  /\ \/ /\ target' = [target EXCEPT ![f] = tmp[f]]
        /\ tmp' = [tmp EXCEPT ![f] = Absent]
        /\ Goto(f, "saved")
     \/ UNCHANGED <<target, tmp>> /\ Goto(f, "discard")
  /\ UNCHANGED <<bak, version, confirmed, queue, saves>>

ReturnTrue(f) ==
  /\ pc[f] = "saved"
  /\ Goto(f, "idle")
  /\ confirmed' = [confirmed EXCEPT ![f] = version[f]]
  /\ UNCHANGED <<disk, version, queue, saves>>

(* false is returned; the failure joins the ones that wait for a flush,    *)
(* and who finds none waiting posts one. A DBC's failure is only logged.   *)
ReportSaveFailure(f) ==
  /\ pc[f] = "failed"
  /\ IF WrittenByDBC(f)
       THEN Goto(f, "idle") /\ UNCHANGED pending
       ELSE /\ Goto(f, IF pending = {} THEN "post" ELSE "idle")
            /\ pending' = pending \union {Failure(f)}
  /\ UNCHANGED <<disk, version, confirmed, posts, saves>>

PostUnlatched(f) ==
  /\ pc[f] = "post"
  /\ posts' \in {posts, posts + 1}
  /\ Goto(f, "idle")
  /\ UNCHANGED <<disk, version, confirmed, pending, saves>>

(* The flush is posted, or there is no application to post it to.          *)
Post(f) ==
  /\ pc[f] = "post"
  /\ \/ posts' = posts + 1 /\ Goto(f, "idle")
     \/ UNCHANGED posts /\ Goto(f, "unlatch")
  /\ UNCHANGED <<disk, version, confirmed, pending, saves>>

(* The failures that wait are given up, others' that joined them too.      *)
Unlatch(f) ==
  /\ pc[f] = "unlatch"
  /\ pending' = {}
  /\ Goto(f, "idle")
  /\ UNCHANGED <<disk, version, confirmed, posts, saves>>

(* The event loop runs a posted flush: one dialog for all that wait. The   *)
(* list is taken before the dialog's own event loop runs.                  *)
ShowPendingSaveFailures ==
  /\ posts > 0
  /\ posts' = posts - 1
  /\ pending' = {}
  /\ UNCHANGED <<disk, version, pc, confirmed, saves>>

(* The program is gone, at any point, and started again.                   *)
Crash ==
  /\ pc' = [f \in Files |-> "idle"]
  /\ pending' = {}
  /\ posts' = 0
  /\ UNCHANGED <<disk, version, confirmed, saves>>

Step(f) ==
  \/ CreateDirectory(f) \/ Open(f) \/ Write(f) \/ Discard(f)
  \/ Backup(f) \/ Copy(f) \/ Rename(f) \/ ReturnTrue(f)
  \/ ReportSaveFailure(f) \/ Post(f) \/ Unlatch(f)

Next ==
  \/ \E f \in Files : Save(f) \/ Step(f)
  \/ ShowPendingSaveFailures
  \/ Crash

Spec == Init /\ [][Next]_vars

(* A thread inside a save goes on; the event loop runs what is posted.     *)
FairSpec ==
  /\ Spec
  /\ \A f \in Files : WF_vars(Step(f))
  /\ WF_vars(ShowPendingSaveFailures)
-----------------------------------------------------------------------------
TypeOK ==
  /\ target \in [Files -> Contents]
  /\ tmp \in [Files -> Contents]
  /\ bak \in [Files -> Contents]
  /\ version \in [Files -> Nat]
  /\ pc \in [Files -> {"idle", "saved", "failed"} \union Writing \union Reporting]
  /\ confirmed \in [Files -> Nat]
  /\ pending \subseteq Files \X Nat
  /\ posts \in Nat
  /\ saves \in Nat

(* What is about to be renamed is the whole new version.                   *)
TemporaryInv == \A f \in Files : pc[f] \in Committed => tmp[f] = Whole(version[f])

(* A save that says it succeeded has its version in the target, and the    *)
(* target is never newer than the memory or cut off.                       *)
TargetInv ==
  \A f \in Files :
    /\ target[f].whole
    /\ target[f].version <= version[f]
    /\ pc[f] = "saved" => target[f] = Whole(version[f])

(* ConfirmedIsOnDisk: a version whose save returned true, or a newer one,  *)
(* is in the file, whole, whatever failed or crashed since (lines 204-207  *)
(* and 223-226 of SafeFileWrite.cpp: a backup is a copy, the swap a        *)
(* rename).                                                                *)
ConfirmedIsOnDisk ==
  \A f \in Files : target[f].whole /\ confirmed[f] <= target[f].version

(* LatchInv: the threads that have found the queue empty and have not      *)
(* posted yet, and the posted flushes, are one if failures wait and none   *)
(* if none do. A failure that found the queue not empty relies on it.      *)
LatchInv ==
  /\ posts <= 1
  /\ \A f, g \in Files : pc[f] \in Reporting /\ pc[g] \in Reporting => f = g
  /\ (\E f \in Files : pc[f] \in Reporting) => posts = 0 /\ pending # {}
  /\ posts = 1 => pending # {}
  /\ pending # {} => posts = 1 \/ \E f \in Files : pc[f] \in Reporting

(* IInv: the facts above together, the inductive invariant of the module.  *)
IInv == TypeOK /\ TemporaryInv /\ TargetInv /\ ConfirmedIsOnDisk /\ LatchInv

(* Atomic: a file behaves as SafeFileWrite.hpp promises (lines 22-24),     *)
(* whatever step fails and wherever the program crashes.                   *)
Promise == INSTANCE AtomicFile WITH
  content   <- [f \in Files |-> target[f].version],
  phase     <- [f \in Files |-> IF pc[f] \in Writing \union {"failed"} THEN "saving"
                                ELSE IF pc[f] = "saved" THEN "replaced" ELSE "idle"]

Atomic == Promise!Spec

(* FailuresAreShown: failures that wait for the dialog do not wait for     *)
(* ever; no latch left set suppresses every later dialog (line 293).       *)
FailuresAreShown == pending # {} ~> pending = {}
=============================================================================
