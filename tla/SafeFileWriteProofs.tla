------------------------ MODULE SafeFileWriteProofs ------------------------
(***************************************************************************)
(* Proofs about SafeFileWrite: the inductive invariant, and that a file is *)
(* always what AtomicFile says, for any files, any number of saves and any *)
(* failures and crashes.                                                   *)
(***************************************************************************)
EXTENDS SafeFileWrite, TLAPS

(* What a name can hold.                                                   *)
LEMMA ContentsFacts ==
  /\ \A v \in Nat : /\ Whole(v) \in Contents /\ Torn(v) \in Contents
                    /\ Whole(v).version = v /\ Whole(v).whole
  /\ \A c \in Contents : c.version \in Nat
  /\ Absent \in Contents
  BY DEF Contents, Whole, Torn, Absent

(* The initial states satisfy the invariant.                               *)
LEMMA InitInv == Init => IInv
<1> SUFFICES ASSUME Init PROVE IInv
  OBVIOUS
<1>1. TypeOK
  BY ContentsFacts DEF Init, TypeOK
<1>2. TargetInv /\ ConfirmedIsOnDisk
  BY <1>1, ContentsFacts DEF Init, TypeOK, TargetInv, ConfirmedIsOnDisk, Absent
<1>3. TemporaryInv /\ LatchInv
  BY DEF Init, TemporaryInv, LatchInv, Committed, Reporting
<1> QED BY <1>1, <1>2, <1>3 DEF IInv

(* A save that begins makes a newer version and writes nothing yet.        *)
LEMMA SaveInv == ASSUME IInv, NEW f \in Files, Save(f) PROVE IInv'
<1> USE DEF IInv, disk, queue, Goto, Failure, Writing, Committed, Reporting
<1>1. TypeOK'
  BY ContentsFacts DEF Save, TypeOK
<1>2. TemporaryInv'
  BY DEF Save, TypeOK, TemporaryInv
<1>3. TargetInv' /\ ConfirmedIsOnDisk'
  BY ContentsFacts DEF Save, TypeOK, TargetInv, ConfirmedIsOnDisk
<1>4. LatchInv'
  BY DEF Save, TypeOK, LatchInv
<1> QED BY <1>1, <1>2, <1>3, <1>4

(* The steps up to the backup, and the backup, leave the target alone.     *)
LEMMA PrepareInv ==
  ASSUME IInv, NEW f \in Files,
         CreateDirectory(f) \/ Open(f) \/ Write(f) \/ Discard(f) \/ Backup(f) \/ Copy(f)
  PROVE  IInv'
<1> USE DEF IInv, disk, queue, Goto, Failure, Writing, Committed, Reporting
<1>1. ASSUME CreateDirectory(f) PROVE IInv'
  <2>1. TypeOK'
    BY ContentsFacts, <1>1 DEF CreateDirectory, TypeOK
  <2>2. TemporaryInv'
    BY <1>1 DEF CreateDirectory, TypeOK, TemporaryInv
  <2>3. TargetInv' /\ ConfirmedIsOnDisk'
    BY ContentsFacts, <1>1 DEF CreateDirectory, TypeOK, TargetInv, ConfirmedIsOnDisk
  <2>4. LatchInv'
    BY <1>1 DEF CreateDirectory, TypeOK, LatchInv
  <2> QED BY <2>1, <2>2, <2>3, <2>4
<1>2. ASSUME Open(f) PROVE IInv'
  <2> version[f] \in Nat /\ Contents # {}
    BY ContentsFacts DEF TypeOK
  <2>a. tmp' \in [Files -> Contents]
    BY ContentsFacts, <1>2 DEF Open, TypeOK
  <2>b. pc' \in [Files -> {"idle", "saved", "failed"} \union Writing \union Reporting]
    BY <1>2 DEF Open, TypeOK
  <2>1. TypeOK'
    BY <1>2, <2>a, <2>b DEF Open, TypeOK
  <2>2. TemporaryInv'
    BY <1>2 DEF Open, TypeOK, TemporaryInv
  <2>3. TargetInv' /\ ConfirmedIsOnDisk'
    BY ContentsFacts, <1>2 DEF Open, TypeOK, TargetInv, ConfirmedIsOnDisk
  <2>4. LatchInv'
    BY <1>2 DEF Open, TypeOK, LatchInv
  <2> QED BY <2>1, <2>2, <2>3, <2>4
<1>3. ASSUME Write(f) PROVE IInv'
  <2> version[f] \in Nat /\ Contents # {}
    BY ContentsFacts DEF TypeOK
  <2>a. tmp' \in [Files -> Contents]
    BY ContentsFacts, <1>3 DEF Write, TypeOK
  <2>b. pc' \in [Files -> {"idle", "saved", "failed"} \union Writing \union Reporting]
    BY <1>3 DEF Write, TypeOK
  <2>1. TypeOK'
    BY <1>3, <2>a, <2>b DEF Write, TypeOK
  <2>2. TemporaryInv'
    BY <1>3 DEF Write, TypeOK, TemporaryInv
  <2>3. TargetInv' /\ ConfirmedIsOnDisk'
    BY ContentsFacts, <1>3 DEF Write, TypeOK, TargetInv, ConfirmedIsOnDisk
  <2>4. LatchInv'
    BY <1>3 DEF Write, TypeOK, LatchInv
  <2> QED BY <2>1, <2>2, <2>3, <2>4
<1>4. ASSUME Discard(f) PROVE IInv'
  <2>1. TypeOK'
    BY ContentsFacts, <1>4 DEF Discard, TypeOK
  <2>2. TemporaryInv'
    BY <1>4 DEF Discard, TypeOK, TemporaryInv
  <2>3. TargetInv' /\ ConfirmedIsOnDisk'
    BY ContentsFacts, <1>4 DEF Discard, TypeOK, TargetInv, ConfirmedIsOnDisk
  <2>4. LatchInv'
    BY <1>4 DEF Discard, TypeOK, LatchInv
  <2> QED BY <2>1, <2>2, <2>3, <2>4
<1>5. ASSUME Backup(f) PROVE IInv'
  <2> version[f] \in Nat /\ Contents # {}
    BY ContentsFacts DEF TypeOK
  <2>a. bak' \in [Files -> Contents]
    BY ContentsFacts, <1>5 DEF Backup, TypeOK
  <2>b. pc' \in [Files -> {"idle", "saved", "failed"} \union Writing \union Reporting]
    BY <1>5 DEF Backup, TypeOK
  <2>1. TypeOK'
    BY <1>5, <2>a, <2>b DEF Backup, TypeOK
  <2>2. TemporaryInv'
    BY <1>5 DEF Backup, TypeOK, TemporaryInv
  <2>3. TargetInv' /\ ConfirmedIsOnDisk'
    BY ContentsFacts, <1>5 DEF Backup, TypeOK, TargetInv, ConfirmedIsOnDisk
  <2>4. LatchInv'
    BY <1>5 DEF Backup, TypeOK, LatchInv
  <2> QED BY <2>1, <2>2, <2>3, <2>4
<1>6. ASSUME Copy(f) PROVE IInv'
  <2>1. TypeOK'
    BY ContentsFacts, <1>6 DEF Copy, TypeOK
  <2>2. TemporaryInv'
    BY <1>6 DEF Copy, TypeOK, TemporaryInv
  <2>3. TargetInv' /\ ConfirmedIsOnDisk'
    BY ContentsFacts, <1>6 DEF Copy, TypeOK, TargetInv, ConfirmedIsOnDisk
  <2>4. LatchInv'
    BY <1>6 DEF Copy, TypeOK, LatchInv
  <2> QED BY <2>1, <2>2, <2>3, <2>4
<1> QED
  BY <1>1, <1>2, <1>3, <1>4, <1>5, <1>6

(* The rename puts the whole new version in the target.                    *)
LEMMA RenameInv == ASSUME IInv, NEW f \in Files, Rename(f) \/ ReturnTrue(f) PROVE IInv'
<1> USE DEF IInv, disk, queue, Goto, Failure, Writing, Committed, Reporting
<1>1. ASSUME Rename(f) PROVE IInv'
  <2>0. pc[f] = "rename" /\ tmp[f] = Whole(version[f]) /\ version[f] \in Nat
    BY <1>1 DEF Rename, TemporaryInv, TypeOK
  <2>a. target' \in [Files -> Contents] /\ tmp' \in [Files -> Contents]
    <3>1. /\ target \in [Files -> Contents] /\ tmp \in [Files -> Contents]
          /\ Absent \in Contents
      BY ContentsFacts DEF TypeOK
    <3>2. \/ /\ target' = [target EXCEPT ![f] = tmp[f]]
             /\ tmp' = [tmp EXCEPT ![f] = Absent]
          \/ target' = target /\ tmp' = tmp
      BY <1>1 DEF Rename
    <3> HIDE DEF IInv
    <3> QED
      BY ONLY <3>1, <3>2, f \in Files
  <2>b. pc' \in [Files -> {"idle", "saved", "failed"} \union Writing \union Reporting]
    BY <1>1 DEF Rename, TypeOK
  <2>1. TypeOK'
    BY <1>1, <2>a, <2>b DEF Rename, TypeOK
  <2>2. TemporaryInv'
    BY <1>1 DEF Rename, TypeOK, TemporaryInv
  <2>3. CASE UNCHANGED <<target, tmp>> /\ pc' = [pc EXCEPT ![f] = "discard"]
    <3>1. TargetInv' /\ ConfirmedIsOnDisk'
      BY <1>1, <2>3 DEF Rename, TypeOK, TargetInv, ConfirmedIsOnDisk
    <3>2. LatchInv'
      BY <1>1, <2>3 DEF Rename, TypeOK, LatchInv
    <3> QED BY <2>1, <2>2, <3>1, <3>2
  <2>4. CASE target' = [target EXCEPT ![f] = tmp[f]] /\ pc' = [pc EXCEPT ![f] = "saved"]
    <3>1. target'[f] = Whole(version[f]) /\ \A g \in Files \ {f} : target'[g] = target[g]
      BY <2>0, <2>4 DEF TypeOK
    <3>2. target[f].version <= version[f] /\ confirmed[f] <= target[f].version
      BY DEF TargetInv, ConfirmedIsOnDisk
    <3>3. target[f].version \in Nat /\ confirmed[f] \in Nat
      BY ContentsFacts DEF TypeOK
    <3>4. TargetInv'
      BY ContentsFacts, <1>1, <2>0, <2>4, <3>1 DEF Rename, TypeOK, TargetInv
    <3>5. ConfirmedIsOnDisk'
      BY ContentsFacts, <1>1, <2>0, <3>1, <3>2, <3>3 DEF Rename, ConfirmedIsOnDisk
    <3>6. LatchInv'
      BY <1>1, <2>4 DEF Rename, TypeOK, LatchInv
    <3> QED BY <2>1, <2>2, <3>4, <3>5, <3>6
  <2> QED BY <1>1, <2>3, <2>4 DEF Rename
<1>2. ASSUME ReturnTrue(f) PROVE IInv'
  <2>1. TypeOK'
    BY ContentsFacts, <1>2 DEF ReturnTrue, TypeOK
  <2>2. TemporaryInv'
    BY <1>2 DEF ReturnTrue, TypeOK, TemporaryInv
  <2>3. TargetInv' /\ ConfirmedIsOnDisk'
    BY ContentsFacts, <1>2 DEF ReturnTrue, TypeOK, TargetInv, ConfirmedIsOnDisk
  <2>4. LatchInv'
    BY <1>2 DEF ReturnTrue, TypeOK, LatchInv
  <2> QED BY <2>1, <2>2, <2>3, <2>4
<1> QED
  BY <1>1, <1>2

(* Reporting keeps one latch for the failures that wait.                   *)
LEMMA ReportInv ==
  ASSUME IInv, NEW f \in Files, ReportSaveFailure(f) \/ Post(f) \/ Unlatch(f) PROVE IInv'
<1> USE DEF IInv, disk, queue, Goto, Failure, Writing, Committed, Reporting
<1>1. ASSUME ReportSaveFailure(f) PROVE IInv'
  <2>0. pc[f] = "failed" /\ version[f] \in Nat
    BY <1>1 DEF ReportSaveFailure, TypeOK
  <2>1. CASE WrittenByDBC(f)
    <3>1. pc' = [pc EXCEPT ![f] = "idle"] /\ UNCHANGED <<disk, version, confirmed, pending, posts, saves>>
      BY <1>1, <2>1 DEF ReportSaveFailure
    <3>2. TypeOK' /\ TemporaryInv' /\ TargetInv' /\ ConfirmedIsOnDisk'
      BY <3>1 DEF TypeOK, TemporaryInv, TargetInv, ConfirmedIsOnDisk
    <3>3. LatchInv'
      BY <2>0, <3>1 DEF TypeOK, LatchInv
    <3> QED BY <3>2, <3>3
  <2>2. CASE ~WrittenByDBC(f)
    <3>1. /\ pc' = [pc EXCEPT ![f] = IF pending = {} THEN "post" ELSE "idle"]
          /\ pending' = pending \union {<<f, version[f]>>}
          /\ UNCHANGED <<disk, version, confirmed, posts, saves>>
      BY <1>1, <2>2 DEF ReportSaveFailure
    <3>a. pending' \subseteq Files \X Nat
      BY <2>0, <3>1 DEF TypeOK
    <3>b. pc' \in [Files -> {"idle", "saved", "failed"} \union Writing \union Reporting]
      BY <3>1 DEF TypeOK
    <3>2. TypeOK'
      BY <3>1, <3>a, <3>b DEF TypeOK
    <3>3. TemporaryInv' /\ TargetInv' /\ ConfirmedIsOnDisk'
      BY <3>1 DEF TypeOK, TemporaryInv, TargetInv, ConfirmedIsOnDisk
    <3>4. CASE pending = {}
      <4>1. posts = 0 /\ \A g \in Files : pc[g] \notin Reporting
        BY <3>4 DEF LatchInv, TypeOK
      <4>2. pc' = [pc EXCEPT ![f] = "post"] /\ pending' # {} /\ posts' = 0
        BY <3>1, <3>4, <4>1
      <4> HIDE DEF Reporting
      <4>3. "post" \in Reporting
        BY DEF Reporting
      <4>4. LatchInv'
        BY <4>1, <4>2, <4>3 DEF TypeOK, LatchInv
      <4> QED BY <3>2, <3>3, <4>4
    <3>5. CASE pending # {}
      <4>1. pc' = [pc EXCEPT ![f] = "idle"] /\ pending' # {} /\ posts' = posts
        BY <3>1, <3>5
      <4>2. LatchInv'
        BY <2>0, <3>5, <4>1 DEF TypeOK, LatchInv
      <4> QED BY <3>2, <3>3, <4>2
    <3> QED BY <3>4, <3>5
  <2> QED BY <2>1, <2>2
<1>2. ASSUME Post(f) PROVE IInv'
  <2>a. pc' \in [Files -> {"idle", "saved", "failed"} \union Writing \union Reporting]
    BY <1>2 DEF Post, TypeOK
  <2>b. posts' \in Nat
    BY <1>2 DEF Post, TypeOK
  <2>1. TypeOK'
    BY <1>2, <2>a, <2>b DEF Post, TypeOK
  <2>2. TemporaryInv'
    BY <1>2 DEF Post, TypeOK, TemporaryInv
  <2>3. TargetInv' /\ ConfirmedIsOnDisk'
    BY ContentsFacts, <1>2 DEF Post, TypeOK, TargetInv, ConfirmedIsOnDisk
  <2>4. LatchInv'
    BY <1>2 DEF Post, TypeOK, LatchInv
  <2> QED BY <2>1, <2>2, <2>3, <2>4
<1>3. ASSUME Unlatch(f) PROVE IInv'
  <2>1. TypeOK'
    BY ContentsFacts, <1>3 DEF Unlatch, TypeOK
  <2>2. TemporaryInv'
    BY <1>3 DEF Unlatch, TypeOK, TemporaryInv
  <2>3. TargetInv' /\ ConfirmedIsOnDisk'
    BY ContentsFacts, <1>3 DEF Unlatch, TypeOK, TargetInv, ConfirmedIsOnDisk
  <2>4. LatchInv'
    BY <1>3 DEF Unlatch, TypeOK, LatchInv
  <2> QED BY <2>1, <2>2, <2>3, <2>4
<1> QED
  BY <1>1, <1>2, <1>3

(* A flush takes all failures, a crash the whole memory.                   *)
LEMMA FlushInv == ASSUME IInv, ShowPendingSaveFailures \/ Crash PROVE IInv'
<1> USE DEF IInv, disk, Writing, Committed, Reporting
<1>1. ASSUME ShowPendingSaveFailures PROVE IInv'
  BY <1>1 DEF ShowPendingSaveFailures, TypeOK, TemporaryInv, TargetInv, ConfirmedIsOnDisk, LatchInv
<1>2. ASSUME Crash PROVE IInv'
  BY <1>2 DEF Crash, TypeOK, TemporaryInv, TargetInv, ConfirmedIsOnDisk, LatchInv
<1> QED
  BY <1>1, <1>2

(* Every step keeps the invariant.                                         *)
LEMMA NextInv == IInv /\ [Next]_vars => IInv'
<1> SUFFICES ASSUME IInv, [Next]_vars PROVE IInv'
  OBVIOUS
<1>1. CASE UNCHANGED vars
  BY <1>1 DEF vars, IInv, TypeOK, TemporaryInv, TargetInv, ConfirmedIsOnDisk, LatchInv
<1>2. ASSUME NEW f \in Files, Save(f) \/ Step(f) PROVE IInv'
  BY <1>2, SaveInv, PrepareInv, RenameInv, ReportInv DEF Step
<1> QED
  BY <1>1, <1>2, FlushInv DEF Next

(* Invariance: the inductive invariant of SafeFileWrite holds always.      *)
THEOREM Invariance == Spec => []IInv
  BY InitInv, NextInv, PTL DEF Spec

(* Durable: a version whose save returned true, or a newer one, is in the  *)
(* file, whole, whatever fails and wherever the program crashes.           *)
THEOREM Durable == Spec => []ConfirmedIsOnDisk
  BY Invariance, PTL DEF IInv

(* LatchHeld: while failures wait for the dialog exactly one thread is     *)
(* about to post its flush, or one flush is posted (reportSaveFailure).    *)
THEOREM LatchHeld == Spec => []LatchInv
  BY Invariance, PTL DEF IInv
-----------------------------------------------------------------------------
(* The initial states are initial states of AtomicFile.                    *)
LEMMA InitRefines == Init => Promise!Init
<1> SUFFICES ASSUME Init PROVE Promise!Init
  OBVIOUS
<1>1. [f \in Files |-> target[f].version] \in [Files -> Nat]
  BY DEF Init, Whole, Absent
<1> QED
  BY <1>1 DEF Init, Promise!Init, Writing

(* A step of a save is the same step of the promise, or none.              *)
LEMMA StepRefines ==
  ASSUME IInv, NEW f \in Files, Save(f) \/ Step(f) PROVE [Promise!Next]_Promise!vars
<1> DEFINE content == [g \in Files |-> target[g].version]
           phase == [g \in Files |-> IF pc[g] \in Writing \union {"failed"} THEN "saving"
                                     ELSE IF pc[g] = "saved" THEN "replaced" ELSE "idle"]
<1> USE DEF IInv, TypeOK, disk, queue, Goto, Writing, Reporting, Contents
<1>1. ASSUME Save(f) PROVE Promise!Begin(f)
  <2>1. /\ phase[f] = "idle"
        /\ phase' = [phase EXCEPT ![f] = "saving"]
        /\ content' = content
    BY <1>1 DEF Save
  <2> QED BY <1>1, <2>1 DEF Save, Promise!Begin
<1>2. ASSUME CreateDirectory(f) \/ Open(f) \/ Write(f) \/ Discard(f) \/ Backup(f) \/ Copy(f)
      PROVE  UNCHANGED Promise!vars
  <2>1. phase' = phase /\ content' = content
    BY <1>2 DEF CreateDirectory, Open, Write, Discard, Backup, Copy
  <2> QED BY <1>2, <2>1 DEF Promise!vars, CreateDirectory, Open, Write, Discard, Backup, Copy
<1>3. ASSUME Rename(f) PROVE Promise!Replace(f) \/ UNCHANGED Promise!vars
  <2>1. pc[f] = "rename" /\ tmp[f] = Whole(version[f])
    BY <1>3 DEF Rename, TemporaryInv, Committed
  <2>2. CASE UNCHANGED <<target, tmp>> /\ Goto(f, "discard")
    BY <1>3, <2>1, <2>2 DEF Rename, Promise!vars
  <2>3. CASE target' = [target EXCEPT ![f] = tmp[f]] /\ Goto(f, "saved")
    <3>1. /\ phase[f] = "saving"
          /\ phase' = [phase EXCEPT ![f] = "replaced"]
          /\ content' = [content EXCEPT ![f] = version[f]]
      <4>1. Whole(version[f]).version = version[f]
        BY ContentsFacts
      <4>2. content' = [content EXCEPT ![f] = version[f]]
        BY <2>1, <2>3, <4>1
      <4>3. phase[f] = "saving" /\ phase' = [phase EXCEPT ![f] = "replaced"]
        BY <2>1, <2>3
      <4> QED BY <4>2, <4>3
    <3> QED BY <1>3, <3>1 DEF Rename, Promise!Replace
  <2> QED BY <1>3, <2>2, <2>3 DEF Rename
<1>4. ASSUME ReturnTrue(f) PROVE Promise!Succeed(f)
  <2>1. /\ phase[f] = "replaced"
        /\ phase' = [phase EXCEPT ![f] = "idle"]
        /\ content' = content
    BY <1>4 DEF ReturnTrue
  <2> QED BY <1>4, <2>1 DEF ReturnTrue, Promise!Succeed
<1>5. ASSUME ReportSaveFailure(f) PROVE Promise!GiveUp(f)
  <2>1. /\ phase[f] = "saving"
        /\ phase' = [phase EXCEPT ![f] = "idle"]
        /\ content' = content
    BY <1>5 DEF ReportSaveFailure
  <2> QED BY <1>5, <2>1 DEF ReportSaveFailure, Promise!GiveUp
<1>6. ASSUME Post(f) \/ Unlatch(f) PROVE UNCHANGED Promise!vars
  <2>1. phase' = phase /\ content' = content
    BY <1>6 DEF Post, Unlatch
  <2> QED BY <1>6, <2>1 DEF Promise!vars, Post, Unlatch
<1> QED
  BY <1>1, <1>2, <1>3, <1>4, <1>5, <1>6 DEF Step, Promise!Next

(* A flush is none, a crash is a crash.                                    *)
LEMMA OthersRefine ==
  ASSUME IInv, ShowPendingSaveFailures \/ Crash \/ UNCHANGED vars
  PROVE  [Promise!Next]_Promise!vars
<1>1. ASSUME Crash PROVE Promise!Crash
  BY <1>1 DEF Crash, Promise!Crash, disk, Writing
<1>2. ASSUME ShowPendingSaveFailures \/ UNCHANGED vars PROVE UNCHANGED Promise!vars
  BY <1>2 DEF ShowPendingSaveFailures, Promise!vars, vars, disk
<1> QED
  BY <1>1, <1>2 DEF Promise!Next

(* Implementation: writing a sibling, keeping a backup and renaming        *)
(* implements a file whose contents change in one step.                    *)
THEOREM Implementation == Spec => Atomic
<1>1. IInv /\ [Next]_vars => [Promise!Next]_Promise!vars
  BY StepRefines, OthersRefine DEF Next
<1> QED
  BY InitRefines, <1>1, Invariance, PTL DEF Spec, Atomic, Promise!Spec
=============================================================================
