------------------------- MODULE SpawnStagingProofs -------------------------
(***************************************************************************)
(* What SpawnStaging promises holds for any spawns, guids, edits, failures  *)
(* and number of changesets: the names in the editor and in a changeset    *)
(* are apart, a changeset that was applied is there in full, one without   *)
(* placed spawns may be applied again, no row of a spawn that was never in *)
(* one is touched, and no spawn is lost.                                   *)
(*                                                                         *)
(* The argument has three layers.  IInv: a name the editor holds was       *)
(* issued by the database, so that the server never gives it to another    *)
(* spawn; what is under it is nothing, the spawn it was read as, or one    *)
(* that came out of a changeset.  ApartInv: entries are told apart by      *)
(* their names, and a spawn that was placed once is not placed again.      *)
(* ProgressInv: the statements are executed in the order of the script,    *)
(* and what each has achieved so far no later one has undone.              *)
(***************************************************************************)
EXTENDS SpawnStaging, SequenceTheorems, FiniteSetTheorems, TLAPS

\* An entry is of its table, a placed one is of a spawn the user may place, and
\* the name of any other was issued and means what it meant when it was read,
\* unless a changeset has been there.
MeansTheSame(e) ==
    \/ rows[e.kind][e.guid] = None
    \/ rows[e.kind][e.guid].spawn \in Placed \cup EverStaged \cup {e.row.spawn}
EntryOk(e) ==
    /\ KindOf[e.row.spawn] = e.kind
    /\ e.new => e.row.spawn \in Placed
    /\ ~e.new => e.guid <= issued[e.kind] /\ MeansTheSame(e)
ChangesOk(c) ==
    /\ \A e \in c.edited \cup c.created \cup c.removed : EntryOk(e)
    /\ \A e \in c.edited \cup c.removed : ~e.new
    /\ \A e \in c.created : e.new
NamesOk == \A e \in scene \cup removed : EntryOk(e)
IsWritten(c) == \E i \in DOMAIN files : files[i].changes = c
FilesOk == \A c \in Changeset : IsWritten(c) => ChangesOk(c)
JobOk == job # None => IsWritten(job.changes)

IInv == TypeOK /\ NamesOk /\ FilesOk /\ JobOk

-----------------------------------------------------------------------------
\* Lemmas about the operators

LEMMA GuidFacts == /\ MaxGuid \in Nat /\ Base \in 1..MaxGuid
                   /\ \A g \in Guids : g \in Nat /\ g >= 1 /\ g <= MaxGuid
                   /\ Provisional \subseteq Guids /\ Base \in Provisional
  BY GuidsAssumption DEF Guids, Provisional

\* The row of a name is that of an entry that has it.
LEMMA RowOfIsThere ==
    ASSUME NEW S, NEW k, NEW g, Named(S, k, g)
    PROVE  \E e \in S : e.kind = k /\ e.guid = g /\ RowOf(S, k, g) = e.row
  BY DEF Named, RowOf, Names

\* The highest guid is no smaller than any in the table.
LEMMA HighestBounds ==
    ASSUME NEW t, NEW m \in Highest(t)
    PROVE  m \in 0..MaxGuid /\ \A g \in Guids : t[g] # None => g <= m
  BY GuidFacts DEF Highest, Guids

\* Steps that leave every row, clear it, put a spawn there that comes out of a
\* changeset, or take a guid that was never issued, keep entries right.
LEMMA EntriesStay ==
    ASSUME TypeOK,
           \A k \in Kinds : issued[k] <= issued'[k] /\ issued'[k] \in Nat,
           EverStaged \subseteq EverStaged',
           \A k \in Kinds, g \in Guids :
              \/ rows'[k][g] = rows[k][g]
              \/ rows'[k][g] = None
              \/ rows'[k][g].spawn \in Placed \cup EverStaged
              \/ g > issued[k],
           NEW e \in Entry, EntryOk(e)
    PROVE  EntryOk(e)'
<1>1. e.kind \in Kinds /\ e.guid \in Guids
  BY DEF Entry
<1>2. issued[e.kind] \in Nat /\ issued'[e.kind] \in Nat /\ issued[e.kind] <= issued'[e.kind]
  BY <1>1, GuidFacts DEF TypeOK
<1>3. ASSUME ~e.new PROVE e.guid <= issued'[e.kind] /\ MeansTheSame(e)'
  <2>1. e.guid <= issued[e.kind] /\ MeansTheSame(e)
    BY <1>3 DEF EntryOk
  <2>2. e.guid \in Nat
    BY <1>1, GuidFacts
  <2>3. ~(e.guid > issued[e.kind])
    BY <1>2, <2>1, <2>2
  <2>4. \/ rows'[e.kind][e.guid] = rows[e.kind][e.guid]
        \/ rows'[e.kind][e.guid] = None
        \/ rows'[e.kind][e.guid].spawn \in Placed \cup EverStaged
    BY <1>1, <2>3
  <2>5. e.guid <= issued'[e.kind]
    BY <1>2, <2>1, <2>2
  <2>6. MeansTheSame(e)'
    BY <2>1, <2>4 DEF MeansTheSame
  <2> QED
    BY <2>5, <2>6
<1> QED
  BY <1>3 DEF EntryOk

\* ... and what a step leaves alone with them.
LEMMA ChangesStay ==
    ASSUME NEW c \in Changeset, ChangesOk(c), \A e \in Entry : EntryOk(e) => EntryOk(e)'
    PROVE  ChangesOk(c)'
<1>1. c.edited \subseteq Entry /\ c.created \subseteq Entry /\ c.removed \subseteq Entry
  BY DEF Changeset
<1> QED
  BY <1>1 DEF ChangesOk

\* A step that changes neither the database nor the files keeps entries right.
LEMMA EntriesStayIdle ==
    ASSUME TypeOK, UNCHANGED <<rows, issued, files>>, NEW e \in Entry, EntryOk(e)
    PROVE  EntryOk(e)'
  BY DEF EntryOk, MeansTheSame, EverStaged

\* The changes of the job are those of a file, and right.
LEMMA JobIsOk ==
    ASSUME IInv, job # None
    PROVE  /\ job \in Job /\ job.changes \in Changeset /\ ChangesOk(job.changes)
           /\ StagedIn(job.changes) \subseteq EverStaged
           /\ job.changes.edited \subseteq Entry /\ job.changes.created \subseteq Entry
           /\ job.changes.removed \subseteq Entry
<1>1. job \in Job
  BY DEF IInv, TypeOK
<1>2. job.changes \in Changeset
  BY <1>1 DEF Job
<1>3. PICK i \in DOMAIN files : files[i].changes = job.changes
  BY DEF IInv, JobOk, IsWritten
<1>4. ChangesOk(job.changes)
  BY <1>2, <1>3 DEF IInv, FilesOk, IsWritten
<1>5. files[i] \in Range(files)
  BY <1>3 DEF Range
<1>6. StagedIn(job.changes) \subseteq EverStaged
  BY <1>3, <1>5 DEF EverStaged
<1> QED
  BY <1>1, <1>2, <1>4, <1>6 DEF Changeset

\* What is right stays right in the files, in the editor, and for the job.
LEMMA FilesStay ==
    ASSUME IInv, UNCHANGED files, \A e \in Entry : EntryOk(e) => EntryOk(e)'
    PROVE  FilesOk'
<1> SUFFICES ASSUME NEW c \in Changeset, IsWritten(c)' PROVE ChangesOk(c)'
  BY DEF FilesOk
<1>1. ChangesOk(c)
  BY DEF IInv, FilesOk, IsWritten
<1> QED
  BY <1>1, ChangesStay

LEMMA NamesStay ==
    ASSUME IInv, \A e \in Entry : EntryOk(e) => EntryOk(e)',
           \A e \in scene' \cup removed' : e \in Entry /\ EntryOk(e)
    PROVE  NamesOk'
  BY DEF NamesOk

\* Entries whose row alone was moved, or whose flag alone was cleared.
LEMMA AcceptedOk ==
    ASSUME NEW S, \A e \in S : e \in Entry /\ EntryOk(e)
    PROVE  \A e \in Accepted(S) : e \in Entry /\ ~e.new /\ EntryOk(e)
<1> SUFFICES ASSUME NEW e \in S, ~e.new
             PROVE  LET f == [e EXCEPT !.dirty = FALSE]
                    IN  f \in Entry /\ ~f.new /\ EntryOk(f)
  BY DEF Accepted
<1>1. e \in Entry /\ EntryOk(e)
  OBVIOUS
<1> DEFINE f == [e EXCEPT !.dirty = FALSE]
<1>2. f \in Entry /\ f.kind = e.kind /\ f.guid = e.guid /\ f.row = e.row /\ f.new = e.new
  BY <1>1 DEF Entry
<1>3. EntryOk(f)
  <2> HIDE DEF f
  <2> QED
    BY <1>1, <1>2 DEF EntryOk, MeansTheSame
<1> QED
  BY <1>2, <1>3

LEMMA MovedOk ==
    ASSUME NEW e \in Entry, EntryOk(e), NEW p \in Places
    PROVE  LET f == [e EXCEPT !.row.at = p, !.dirty = TRUE] IN f \in Entry /\ EntryOk(f)
<1> DEFINE f == [e EXCEPT !.row.at = p, !.dirty = TRUE]
<1>1. /\ f \in Entry /\ f.kind = e.kind /\ f.guid = e.guid /\ f.new = e.new
      /\ f.row.spawn = e.row.spawn
  BY DEF Entry, Row
<1>2. EntryOk(f)
  <2> HIDE DEF f
  <2> QED
    BY <1>1 DEF EntryOk, MeansTheSame
<1> QED
  BY <1>1, <1>2

\* A row that is read is right.
LEMMA ReadOk ==
    ASSUME IInv, NEW k \in Kinds, NEW g \in Guids, rows[k][g] # None
    PROVE  EntryOf(k, g) \in Entry /\ EntryOk(EntryOf(k, g))
<1>1. rows[k][g] \in Row /\ KindOf[rows[k][g].spawn] = k /\ g <= issued[k]
  BY DEF IInv, TypeOK
<1> DEFINE e == EntryOf(k, g)
<1>2. e \in Entry /\ e.kind = k /\ e.guid = g /\ e.row = rows[k][g] /\ e.new = FALSE
  BY <1>1 DEF EntryOf, Entry
<1>3. EntryOk(e)
  <2> HIDE DEF e
  <2> QED
    BY <1>1, <1>2 DEF EntryOk, MeansTheSame
<1> QED
  BY <1>2, <1>3

-----------------------------------------------------------------------------
\* The initial states

LEMMA Initially == Init => IInv
<1> SUFFICES ASSUME Init PROVE IInv
  OBVIOUS
<1>1. \A k \in Kinds, g \in Guids :
         \/ rows[k][g] = None
         \/ \E e \in FirstRows : e.kind = k /\ rows[k][g] = e.row
  BY RowOfIsThere DEF Init
<1>2. rows \in [Kinds -> [Guids -> Row \cup {None}]]
  <2> SUFFICES ASSUME NEW k \in Kinds PROVE rows[k] \in [Guids -> Row \cup {None}]
    BY DEF Init
  <2>1. rows[k] = [g \in Guids |->
                     IF Named(FirstRows, k, g) THEN RowOf(FirstRows, k, g) ELSE None]
    BY DEF Init
  <2>2. \A g \in Guids : rows[k][g] \in Row \cup {None}
    BY <1>1, RowsAssumption DEF Entry
  <2> QED
    BY <2>1, <2>2
<1>3. issued \in [Kinds -> 0..MaxGuid]
  BY DEF Init
<1>4. \A k \in Kinds, g \in Guids : rows[k][g] # None =>
         KindOf[rows[k][g].spawn] = k /\ g <= issued[k]
  <2> SUFFICES ASSUME NEW k \in Kinds, NEW g \in Guids, rows[k][g] # None
               PROVE  KindOf[rows[k][g].spawn] = k /\ g <= issued[k]
    OBVIOUS
  <2>1. PICK e \in FirstRows : e.kind = k /\ rows[k][g] = e.row
    BY <1>1
  <2>2. KindOf[rows[k][g].spawn] = k
    BY <2>1, RowsAssumption
  <2>3. issued[k] \in Highest(rows[k])
    BY DEF Init
  <2> QED
    BY <2>2, <2>3, HighestBounds
<1>5. addon \in [Guids -> Addons]
  BY DEF Init, Addons
<1>6. next \in Provisional /\ scene = {} /\ removed = {} /\ files = <<>> /\ job = None /\ used = {}
  BY GuidFacts DEF Init
<1>7. TypeOK
  BY <1>2, <1>3, <1>4, <1>5, <1>6, GuidsAssumption DEF TypeOK
<1> QED
  BY <1>6, <1>7 DEF IInv, NamesOk, FilesOk, JobOk, IsWritten

-----------------------------------------------------------------------------
\* The editor's steps that leave the database, the files and the job alone

LEMMA EditorStays ==
    ASSUME IInv, UNCHANGED <<database, files, job>>,
           \A e \in scene' \cup removed' : e \in Entry /\ EntryOk(e),
           \A e \in removed' : ~e.new,
           next' \in Provisional, used' \in SUBSET (Theirs \cup Placeable)
    PROVE  IInv'
<1>1. \A e \in Entry : EntryOk(e) => EntryOk(e)'
  BY EntriesStayIdle DEF IInv, database
<1>2. TypeOK'
  BY DEF IInv, TypeOK, database
<1>3. NamesOk'
  BY <1>1, NamesStay
<1>4. FilesOk'
  BY <1>1, FilesStay
<1>5. JobOk'
  BY DEF IInv, JobOk, IsWritten
<1> QED
  BY <1>2, <1>3, <1>4, <1>5 DEF IInv

\* Every entry of the editor is one, and right.
LEMMA EntriesOk ==
    ASSUME IInv
    PROVE  /\ \A e \in scene \cup removed : e \in Entry /\ EntryOk(e)
           /\ \A e \in removed : ~e.new
           /\ next \in Provisional /\ used \in SUBSET (Theirs \cup Placeable)
  BY DEF IInv, TypeOK, NamesOk

LEMMA StageStep == IInv /\ Stage => IInv'
<1> SUFFICES ASSUME IInv, Stage PROVE IInv'
  OBVIOUS
<1>0. /\ \A e \in scene \cup removed : e \in Entry /\ EntryOk(e)
      /\ \A e \in removed : ~e.new
      /\ next \in Provisional /\ used \in SUBSET (Theirs \cup Placeable)
  BY EntriesOk
<1>1. ASSUME NEW S \in SUBSET Tiles, Load(S) PROVE IInv'
  <2>1. \A e \in scene' : e \in Entry /\ EntryOk(e)
    <3> SUFFICES ASSUME NEW e \in scene' PROVE e \in Entry /\ EntryOk(e)
      OBVIOUS
    <3>1. PICK n \in Kinds \X Guids : rows[n[1]][n[2]] # None /\ e = EntryOf(n[1], n[2])
      BY <1>1 DEF Load
    <3> QED
      BY <3>1, ReadOk
  <2> QED
    BY <1>0, <1>1, <2>1, EditorStays DEF Load
<1>2. ASSUME NEW e \in scene, NEW p \in Places, Move(e, p) PROVE IInv'
  <2> DEFINE f == [e EXCEPT !.row.at = p, !.dirty = TRUE]
  <2>1. f \in Entry /\ EntryOk(f)
    BY <1>0, MovedOk
  <2>2. scene' = (scene \ {e}) \cup {f} /\ UNCHANGED <<database, removed, next, files, job, used>>
    BY <1>2 DEF Move, Replace
  <2> HIDE DEF f
  <2> QED
    BY <1>0, <2>1, <2>2, EditorStays
<1>3. ASSUME NEW e \in scene, Remove(e) PROVE IInv'
  <2>1. scene' \subseteq scene /\ removed' \subseteq removed \cup {e} /\ (e.new => removed' = removed)
    BY <1>3 DEF Remove
  <2>2. \A f \in removed' : ~f.new
    BY <1>0, <2>1
  <2>3. UNCHANGED <<database, next, files, job, used>>
    BY <1>3 DEF Remove
  <2> QED
    BY <1>0, <2>1, <2>2, <2>3, EditorStays
<1>4. ASSUME NEW r \in Placeable, Place(r) PROVE IInv'
  <2>1. PICK g \in FirstFree :
          /\ scene' = scene \cup {[kind |-> KindOf[r.spawn], guid |-> g, row |-> r,
                                   addon |-> FALSE, dirty |-> FALSE, new |-> TRUE]}
          /\ next' = IF g = MaxGuid THEN Base ELSE g + 1
    BY <1>4 DEF Place
  <2> DEFINE e == [kind |-> KindOf[r.spawn], guid |-> g, row |-> r,
                   addon |-> FALSE, dirty |-> FALSE, new |-> TRUE]
  <2>2. g \in Provisional
    BY <2>1 DEF FirstFree
  <2>3. r \in Row /\ KindOf[r.spawn] \in Kinds /\ r.spawn \in Placed
    BY SpawnsAssumption DEF Row, Placed
  <2>4. e \in Entry /\ e.new /\ e.row.spawn \in Placed /\ KindOf[e.row.spawn] = e.kind
    BY <2>2, <2>3, GuidFacts DEF Entry
  <2>5. EntryOk(e)
    <3> HIDE DEF e
    <3> QED
      BY <2>4 DEF EntryOk
  <2>6. next' \in Provisional
    BY <2>1, <2>2, GuidFacts DEF Provisional, Guids
  <2>7. scene' = scene \cup {e}
    BY <2>1
  <2>8. UNCHANGED <<database, removed, files, job>> /\ used' = used \cup {r}
    BY <1>4 DEF Place
  <2> HIDE DEF e
  <2> QED
    BY <1>0, <2>4, <2>5, <2>6, <2>7, <2>8, EditorStays
<1>5. ASSUME Discard PROVE IInv'
  <2>1. \A e \in Accepted(scene \cup removed) : e \in Entry /\ ~e.new /\ EntryOk(e)
    BY <1>0, AcceptedOk
  <2> QED
    BY <1>0, <1>5, <2>1, EditorStays DEF Discard
<1>6. ASSUME Leave PROVE IInv'
  BY <1>0, <1>6, GuidFacts, EditorStays DEF Leave
<1> QED
  BY <1>1, <1>2, <1>3, <1>4, <1>5, <1>6 DEF Stage

-----------------------------------------------------------------------------
\* Writing a changeset, and the jobs

\* What the editor has staged is a changeset, and right.
LEMMA StagedIsOk ==
    ASSUME IInv
    PROVE  Staged \in Changeset /\ ChangesOk(Staged)
<1>1. /\ \A e \in scene \cup removed : e \in Entry /\ EntryOk(e)
      /\ \A e \in removed : ~e.new
  BY EntriesOk
<1>2. /\ Staged.edited \subseteq scene /\ \A e \in Staged.edited : ~e.new
      /\ Staged.created \subseteq scene /\ \A e \in Staged.created : e.new
      /\ Staged.removed = removed
  BY DEF Staged, DirtyOf
<1>3. Staged \in Changeset
  BY <1>1, <1>2 DEF Changeset, Staged
<1> QED
  BY <1>1, <1>2, <1>3 DEF ChangesOk

LEMMA JobIsTyped ==
    ASSUME NEW c \in Changeset, NEW b \in BOOLEAN, StartJob(c, b)
    PROVE  job' \in Job /\ job'.changes = c
<1>1. 0 \in 0..MaxGuid
  BY GuidFacts
<1>2. [k \in Kinds |-> 0] \in [Kinds -> 0..MaxGuid]
  BY <1>1
<1>3. Script(c) \subseteq DOMAIN Statements
  BY DEF Script
<1> QED
  BY <1>2, <1>3 DEF StartJob, Job

\* The files grow by what was staged.
LEMMA WriteStep ==
    ASSUME IInv, WriteChangeset, UNCHANGED <<database, used, next>>,
           \A e \in scene' \cup removed' : e \in Entry /\ EntryOk(e),
           \A e \in removed' : ~e.new,
           \/ UNCHANGED job
           \/ job' \in Job /\ job'.changes = Staged
    PROVE  IInv'
<1>1. PICK ok \in BOOLEAN : files' = Append(files, [changes |-> Staged, whole |-> ok])
  BY DEF WriteChangeset
<1>2. Staged \in Changeset /\ ChangesOk(Staged)
  BY StagedIsOk
<1> DEFINE F == [changes : Changeset, whole : BOOLEAN]
<1> DEFINE x == [changes |-> Staged, whole |-> ok]
<1>3. files \in Seq(F) /\ x \in F /\ files' = Append(files, x) /\ x.changes = Staged
  BY <1>1, <1>2 DEF IInv, TypeOK
<1>4. Len(files) < MaxSaves /\ MaxSaves \in Nat
  BY GuidsAssumption DEF WriteChangeset
<1> HIDE DEF F, x
<1>5. /\ files' \in Seq(F) /\ Len(files') = Len(files) + 1
      /\ DOMAIN files' = DOMAIN files \cup {Len(files) + 1}
      /\ \A i \in DOMAIN files : files'[i] = files[i]
      /\ files'[Len(files) + 1] = x
      /\ Len(files) \in Nat
  BY <1>3
<1>6. \A c : IsWritten(c)' <=> IsWritten(c) \/ c = Staged
  BY <1>3, <1>5 DEF IsWritten
<1>7. EverStaged \subseteq EverStaged'
  <2> SUFFICES ASSUME NEW i \in DOMAIN files
               PROVE  \E j \in DOMAIN files' : files'[j] = files[i]
    BY DEF EverStaged, Range
  <2> QED
    BY <1>5
<1>8. \A k \in Kinds : issued[k] \in Nat
  BY GuidFacts DEF IInv, TypeOK
<1>9. \A e \in Entry : EntryOk(e) => EntryOk(e)'
  BY <1>7, <1>8, EntriesStay DEF IInv, database
<1>10. TypeOK'
  <2>1. files' \in Seq([changes : Changeset, whole : BOOLEAN]) /\ Len(files') <= MaxSaves
    BY <1>4, <1>5 DEF F
  <2>2. job' \in Job \cup {None}
    BY DEF IInv, TypeOK
  <2> QED
    BY <2>1, <2>2 DEF IInv, TypeOK, database
<1>11. FilesOk'
  <2> SUFFICES ASSUME NEW c \in Changeset, IsWritten(c)' PROVE ChangesOk(c)'
    BY DEF FilesOk
  <2>1. ChangesOk(c)
    BY <1>2, <1>6 DEF IInv, FilesOk
  <2> QED
    BY <1>9, <2>1, ChangesStay
<1>12. JobOk'
  <2> SUFFICES ASSUME job' # None PROVE IsWritten(job.changes)'
    BY DEF JobOk
  <2>1. job'.changes = Staged \/ IsWritten(job'.changes)
    BY DEF IInv, JobOk
  <2>2. \E i \in DOMAIN files' : files'[i].changes = job'.changes
    <3>1. CASE job'.changes = Staged
      BY <1>3, <1>5, <3>1
    <3>2. CASE IsWritten(job'.changes)
      BY <1>5, <3>2 DEF IsWritten
    <3> QED
      BY <2>1, <3>1, <3>2
  <2> QED
    BY <2>2 DEF IsWritten
<1>13. NamesOk'
  BY <1>9, NamesStay
<1> QED
  BY <1>10, <1>11, <1>12, <1>13 DEF IInv

LEMMA SaveStep == IInv /\ (SaveFile \/ SaveApply \/ ApplyByHand) => IInv'
<1> SUFFICES ASSUME IInv, SaveFile \/ SaveApply \/ ApplyByHand PROVE IInv'
  OBVIOUS
<1>0. /\ \A e \in scene \cup removed : e \in Entry /\ EntryOk(e)
      /\ \A e \in removed : ~e.new
      /\ next \in Provisional /\ used \in SUBSET (Theirs \cup Placeable)
  BY EntriesOk
<1>1. CASE SaveFile
  <2>1. \A e \in Accepted(scene) : e \in Entry /\ ~e.new /\ EntryOk(e)
    BY <1>0, AcceptedOk
  <2>2. WriteChangeset /\ scene' = Accepted(scene) /\ removed' = {}
        /\ UNCHANGED <<database, next, job, used>>
    BY <1>1 DEF SaveFile, ClearPending
  <2> QED
    BY <2>1, <2>2, WriteStep
<1>2. CASE SaveApply
  <2>1. job' \in Job /\ job'.changes = Staged
    BY <1>2, StagedIsOk, JobIsTyped DEF SaveApply
  <2>2. WriteChangeset /\ UNCHANGED <<database, editor, used>>
    BY <1>2 DEF SaveApply
  <2> QED
    BY <1>0, <2>1, <2>2, WriteStep DEF editor
<1>3. CASE ApplyByHand
  <2> DEFINE c == files[Len(files)].changes
  <2>1. files \in Seq([changes : Changeset, whole : BOOLEAN]) /\ files # <<>>
    BY <1>3 DEF ApplyByHand, IInv, TypeOK
  <2>2. Len(files) \in DOMAIN files /\ c \in Changeset
    <3> DEFINE F == [changes : Changeset, whole : BOOLEAN]
    <3>1. files \in Seq(F) /\ files # <<>>
      BY <2>1
    <3> HIDE DEF F
    <3>2. Len(files) \in Nat \ {0}
      BY <3>1, EmptySeq
    <3>3. files \in [1..Len(files) -> F]
      BY <3>1, LenProperties
    <3>4. Len(files) \in 1..Len(files) /\ DOMAIN files = 1..Len(files) /\ files[Len(files)] \in F
      BY <3>2, <3>3
    <3> QED
      BY <3>4 DEF F
  <2>3. StartJob(c, TRUE) /\ UNCHANGED <<database, editor, files, used>>
    BY <1>3 DEF ApplyByHand
  <2>4. job' \in Job /\ job'.changes = c
    <3> HIDE DEF c
    <3> QED
      BY <2>2, <2>3, JobIsTyped
  <2>5. \A e \in Entry : EntryOk(e) => EntryOk(e)'
    BY <2>3, EntriesStayIdle DEF IInv, database
  <2>6. TypeOK'
    BY <2>3, <2>4 DEF IInv, TypeOK, database, editor
  <2>7. NamesOk'
    BY <1>0, <2>3, <2>5, NamesStay DEF editor
  <2>8. FilesOk'
    BY <2>3, <2>5, FilesStay
  <2>9. JobOk'
    BY <2>2, <2>3, <2>4 DEF JobOk, IsWritten
  <2> QED
    BY <2>6, <2>7, <2>8, <2>9 DEF IInv
<1> QED
  BY <1>1, <1>2, <1>3

-----------------------------------------------------------------------------
\* The statements, the server, and the end of a job

LEMMA DatabaseStep ==
    ASSUME IInv, UNCHANGED <<files, used>>,
           \A e \in scene' \cup removed' : e \in Entry /\ EntryOk(e),
           \A e \in removed' : ~e.new,
           next' \in Provisional,
           job' \in Job \cup {None},
           job' # None => job # None /\ job'.changes = job.changes,
           rows' \in [Kinds -> [Guids -> Row \cup {None}]],
           issued' \in [Kinds -> 0..MaxGuid],
           addon' \in [Guids -> Addons],
           \A k \in Kinds, g \in Guids : rows'[k][g] # None =>
              KindOf[rows'[k][g].spawn] = k /\ g <= issued'[k],
           \A k \in Kinds : issued[k] <= issued'[k],
           \A k \in Kinds, g \in Guids :
              \/ rows'[k][g] = rows[k][g]
              \/ rows'[k][g] = None
              \/ rows'[k][g].spawn \in Placed \cup EverStaged
              \/ g > issued[k]
    PROVE  IInv'
<1>1. EverStaged' = EverStaged
  BY DEF EverStaged
<1>2. \A k \in Kinds : issued'[k] \in Nat
  BY GuidFacts
<1>3. \A e \in Entry : EntryOk(e) => EntryOk(e)'
  BY <1>1, <1>2, EntriesStay DEF IInv
<1>4. TypeOK'
  BY DEF IInv, TypeOK
<1>5. NamesOk'
  BY <1>3, NamesStay
<1>6. FilesOk'
  BY <1>3, FilesStay
<1>7. JobOk'
  BY DEF IInv, JobOk, IsWritten
<1> QED
  BY <1>4, <1>5, <1>6, <1>7 DEF IInv

\* The next statement leaves the changes of the job, and its type.
LEMMA AdvanceOk ==
    ASSUME IInv, NEW what, NEW of, Executes(what, of), Advance(what, of)
    PROVE  job' \in Job /\ job # None /\ job'.changes = job.changes
<1>1. job # None /\ job \in Job
  BY DEF Executes, IInv, TypeOK
<1>2. Without(what, of) \subseteq DOMAIN Statements
  BY <1>1 DEF Without, Job
<1> QED
  BY <1>1, <1>2 DEF Advance, Job

LEMMA AllocateStep == ASSUME IInv, NEW k \in Kinds, Allocate(k) PROVE IInv'
<1>1. PICK m \in Highest(rows[k]) :
        job' = [job EXCEPT !.left = Without("allocate", k), !.top[k] = m]
  BY DEF Allocate
<1>2. m \in 0..MaxGuid
  BY HighestBounds
<1>3. job # None /\ job \in Job
  BY DEF Allocate, Executes, IInv, TypeOK
<1>4. Without("allocate", k) \subseteq DOMAIN Statements
  BY <1>3 DEF Without, Job
<1>5. job' \in Job /\ job'.changes = job.changes
  BY <1>1, <1>2, <1>3, <1>4 DEF Job
<1>6. UNCHANGED <<rows, addon, issued, scene, removed, next, files, used>>
  BY DEF Allocate, database, editor
<1>7. \A l \in Kinds : issued[l] <= issued[l]
  BY GuidFacts DEF IInv, TypeOK
<1> QED
  BY <1>3, <1>5, <1>6, <1>7, EntriesOk, DatabaseStep DEF IInv, TypeOK

\* The entries of the job that a table's statements are about.
LEMMA EntriesOfJob ==
    ASSUME IInv, job # None
    PROVE  /\ \A e \in job.changes.edited \cup job.changes.removed :
                /\ e \in Entry /\ EntryOk(e) /\ ~e.new
                /\ e.row.spawn \in EverStaged
           /\ \A e \in job.changes.created : e \in Entry /\ EntryOk(e) /\ e.new
<1>1. /\ ChangesOk(job.changes) /\ StagedIn(job.changes) \subseteq EverStaged
      /\ job.changes.edited \subseteq Entry /\ job.changes.created \subseteq Entry
      /\ job.changes.removed \subseteq Entry
  BY JobIsOk
<1>2. \A e \in job.changes.edited \cup job.changes.removed : e.row.spawn \in EverStaged
  BY <1>1 DEF StagedIn
<1> QED
  BY <1>1, <1>2 DEF ChangesOk

LEMMA DeleteStep == ASSUME IInv, NEW k \in Kinds, DeleteRows(k) PROVE IInv'
<1>1. /\ rows' = [rows EXCEPT ![k] = [g \in Guids |->
                     IF Named(job.changes.edited \cup job.changes.removed, k, g)
                     THEN None ELSE @[g]]]
      /\ UNCHANGED <<addon, issued, scene, removed, next, files, used>>
  BY DEF DeleteRows, editor
<1>2. job' \in Job /\ job # None /\ job'.changes = job.changes
  BY AdvanceOk DEF DeleteRows
<1>3. /\ rows \in [Kinds -> [Guids -> Row \cup {None}]]
      /\ \A l \in Kinds, g \in Guids : rows[l][g] # None =>
            KindOf[rows[l][g].spawn] = l /\ g <= issued[l]
  BY DEF IInv, TypeOK
<1>4. rows' \in [Kinds -> [Guids -> Row \cup {None}]]
  BY <1>1, <1>3
<1>5. \A l \in Kinds, g \in Guids : rows'[l][g] \in {rows[l][g], None}
  BY <1>1, <1>3
<1>6. \A l \in Kinds : issued[l] <= issued[l]
  BY GuidFacts DEF IInv, TypeOK
<1>7. addon' \in [Guids -> Addons] /\ issued' \in [Kinds -> 0..MaxGuid]
  BY <1>1 DEF IInv, TypeOK
<1> QED
  BY <1>1, <1>2, <1>3, <1>4, <1>5, <1>6, <1>7, EntriesOk, DatabaseStep

LEMMA InsertStep == ASSUME IInv, NEW k \in Kinds, InsertRows(k) PROVE IInv'
<1>1. /\ rows' = [rows EXCEPT ![k] = [g \in Guids |->
                     IF Named(job.changes.edited, k, g)
                     THEN RowOf(job.changes.edited, k, g) ELSE @[g]]]
      /\ UNCHANGED <<addon, issued, scene, removed, next, files, used>>
  BY DEF InsertRows, editor
<1>2. job' \in Job /\ job # None /\ job'.changes = job.changes
  BY AdvanceOk DEF InsertRows
<1>3. /\ rows \in [Kinds -> [Guids -> Row \cup {None}]]
      /\ \A l \in Kinds, g \in Guids : rows[l][g] # None =>
            KindOf[rows[l][g].spawn] = l /\ g <= issued[l]
  BY DEF IInv, TypeOK
<1>4. \A g \in Guids : Named(job.changes.edited, k, g) =>
         \E e \in job.changes.edited : /\ e.kind = k /\ e.guid = g
                                       /\ RowOf(job.changes.edited, k, g) = e.row
  BY RowOfIsThere
<1>5. \A e \in job.changes.edited :
         e \in Entry /\ EntryOk(e) /\ ~e.new /\ e.row.spawn \in EverStaged
  BY <1>2, EntriesOfJob
<1>6. \A g \in Guids : Named(job.changes.edited, k, g) =>
         LET r == RowOf(job.changes.edited, k, g)
         IN  r \in Row /\ KindOf[r.spawn] = k /\ g <= issued[k] /\ r.spawn \in EverStaged
  BY <1>4, <1>5 DEF EntryOk, Entry
<1> DEFINE R(g) == RowOf(job.changes.edited, k, g)
<1> DEFINE N(g) == Named(job.changes.edited, k, g)
<1>7. rows' = [rows EXCEPT ![k] = [g \in Guids |-> IF N(g) THEN R(g) ELSE @[g]]]
  BY <1>1
<1>8. \A g \in Guids : N(g) =>
         R(g) \in Row /\ KindOf[R(g).spawn] = k /\ g <= issued[k] /\ R(g).spawn \in EverStaged
  BY <1>6
<1> HIDE DEF R, N
<1>9. rows' \in [Kinds -> [Guids -> Row \cup {None}]]
  BY <1>3, <1>7, <1>8
<1>10. \A l \in Kinds, g \in Guids :
          \/ rows'[l][g] = rows[l][g]
          \/ l = k /\ N(g) /\ rows'[l][g] = R(g)
  BY <1>3, <1>7
<1>11. \A l \in Kinds, g \in Guids : rows'[l][g] # None =>
          KindOf[rows'[l][g].spawn] = l /\ g <= issued'[l]
  BY <1>1, <1>3, <1>8, <1>10
<1>12. \A l \in Kinds, g \in Guids :
          \/ rows'[l][g] = rows[l][g]
          \/ rows'[l][g].spawn \in Placed \cup EverStaged
  BY <1>8, <1>10
<1>13. \A l \in Kinds : issued[l] <= issued[l]
  BY GuidFacts DEF IInv, TypeOK
<1>14. addon' \in [Guids -> Addons] /\ issued' \in [Kinds -> 0..MaxGuid]
  BY <1>1 DEF IInv, TypeOK
<1> QED
  BY <1>1, <1>2, <1>9, <1>11, <1>12, <1>13, <1>14, EntriesOk, DatabaseStep

LEMMA CreateStep == ASSUME IInv, NEW k \in Kinds, CreateRows(k) PROVE IInv'
<1> DEFINE N(g) == \E e \in CreatedOf(k) : NewGuid(e) = g
<1> DEFINE R(g) == (CHOOSE e \in CreatedOf(k) : NewGuid(e) = g).row
<1>1. /\ rows' = [rows EXCEPT ![k] = [g \in Guids |-> IF N(g) THEN R(g) ELSE @[g]]]
      /\ UNCHANGED <<addon, scene, removed, next, files, used>>
  BY DEF CreateRows, editor
<1>2. job' \in Job /\ job # None /\ job'.changes = job.changes
  BY AdvanceOk DEF CreateRows
<1>3. /\ rows \in [Kinds -> [Guids -> Row \cup {None}]]
      /\ \A l \in Kinds, g \in Guids : rows[l][g] # None =>
            KindOf[rows[l][g].spawn] = l /\ g <= issued[l]
      /\ issued \in [Kinds -> 0..MaxGuid]
  BY DEF IInv, TypeOK
<1>4. PICK m \in Highest(rows'[k]) : issued' = [issued EXCEPT ![k] = IF m > @ THEN m ELSE @]
  BY DEF CreateRows
<1>5. m \in 0..MaxGuid /\ \A g \in Guids : rows'[k][g] # None => g <= m
  BY <1>4, HighestBounds
<1>6. \A e \in CreatedOf(k) : e \in Entry /\ EntryOk(e) /\ e.new /\ e.kind = k
  BY <1>2, EntriesOfJob DEF CreatedOf
<1>7. \A g \in Guids : N(g) =>
         R(g) \in Row /\ KindOf[R(g).spawn] = k /\ R(g).spawn \in Placed
  <2> SUFFICES ASSUME NEW g \in Guids, N(g)
               PROVE  R(g) \in Row /\ KindOf[R(g).spawn] = k /\ R(g).spawn \in Placed
    OBVIOUS
  <2>1. PICK e \in CreatedOf(k) : R(g) = e.row
    OBVIOUS
  <2> HIDE DEF R
  <2> QED
    BY <1>6, <2>1 DEF Entry, EntryOk
<1> HIDE DEF N, R
<1>8. rows' \in [Kinds -> [Guids -> Row \cup {None}]]
  BY <1>1, <1>3, <1>7
<1>9. \A l \in Kinds, g \in Guids :
         \/ rows'[l][g] = rows[l][g]
         \/ l = k /\ N(g) /\ rows'[l][g] = R(g)
  BY <1>1, <1>3
<1>10. issued' \in [Kinds -> 0..MaxGuid]
  BY <1>3, <1>4, <1>5
<1>11. \A l \in Kinds : /\ issued[l] <= issued'[l]
                        /\ l = k => m <= issued'[l]
  BY <1>3, <1>4, <1>5, GuidFacts
<1>12. \A l \in Kinds, g \in Guids : rows'[l][g] # None =>
          KindOf[rows'[l][g].spawn] = l /\ g <= issued'[l]
  <2> SUFFICES ASSUME NEW l \in Kinds, NEW g \in Guids, rows'[l][g] # None
               PROVE  KindOf[rows'[l][g].spawn] = l /\ g <= issued'[l]
    OBVIOUS
  <2>1. KindOf[rows'[l][g].spawn] = l
    BY <1>3, <1>7, <1>9
  <2>2. g \in Nat /\ issued[l] \in Nat /\ issued'[l] \in Nat /\ m \in Nat
    BY <1>3, <1>5, <1>10, GuidFacts
  <2>3. CASE l = k
    BY <1>5, <1>11, <2>1, <2>2, <2>3
  <2>4. CASE l # k
    <3>1. g <= issued[l]
      BY <1>3, <1>9, <2>4
    <3> QED
      BY <1>11, <2>1, <2>2, <3>1
  <2> QED
    BY <2>3, <2>4
<1>13. \A l \in Kinds, g \in Guids :
          \/ rows'[l][g] = rows[l][g]
          \/ rows'[l][g].spawn \in Placed \cup EverStaged
  BY <1>7, <1>9
<1>14. addon' \in [Guids -> Addons]
  BY <1>1 DEF IInv, TypeOK
<1>15. \A l \in Kinds : issued[l] <= issued'[l]
  BY <1>11
<1> QED
  BY <1>1, <1>2, <1>8, <1>10, <1>12, <1>13, <1>14, <1>15, EntriesOk, DatabaseStep

LEMMA AddonStep == ASSUME IInv, DeleteAddons \/ UpsertAddons PROVE IInv'
<1>1. job' \in Job /\ job # None /\ job'.changes = job.changes
  BY AdvanceOk DEF DeleteAddons, UpsertAddons
<1>2. UNCHANGED <<rows, issued, scene, removed, next, files, used>>
  BY DEF DeleteAddons, UpsertAddons, editor
<1>3. addon' \in [Guids -> Addons]
  <2>1. \A g \in Guids : addon[g] \in Addons
    BY DEF IInv, TypeOK
  <2>2. "absent" \in Addons /\ "default" \in Addons
    BY DEF Addons
  <2>3. CASE DeleteAddons
    <3>1. addon' = [g \in Guids |->
                      IF Named(job.changes.removed, "creature", g) THEN "absent" ELSE addon[g]]
      BY <2>3 DEF DeleteAddons
    <3> QED
      BY <2>1, <2>2, <3>1
  <2>4. CASE UpsertAddons
    <3>1. addon' = [g \in Guids |->
                      IF addon[g] = "absent"
                         /\ Named({e \in job.changes.edited : e.addon}, "creature", g)
                      THEN "default" ELSE addon[g]]
      BY <2>4 DEF UpsertAddons
    <3> QED
      BY <2>1, <2>2, <3>1
  <2> QED
    BY <2>3, <2>4
<1>4. \A l \in Kinds : issued[l] <= issued[l]
  BY GuidFacts DEF IInv, TypeOK
<1> QED
  BY <1>1, <1>2, <1>3, <1>4, EntriesOk, DatabaseStep DEF IInv, TypeOK

LEMMA EndStep == ASSUME IInv, Fail \/ Succeed PROVE IInv'
<1>1. UNCHANGED <<rows, addon, issued, next, files, used>> /\ job' = None
  BY DEF Fail, Succeed, database, editor
<1>2. \A e \in Accepted(scene) : e \in Entry /\ ~e.new /\ EntryOk(e)
  BY EntriesOk, AcceptedOk
<1>3. \/ UNCHANGED <<scene, removed>>
      \/ scene' = Accepted(scene) /\ removed' = {}
  BY DEF Fail, Succeed, ClearPending, editor
<1>4. /\ \A e \in scene' \cup removed' : e \in Entry /\ EntryOk(e)
      /\ \A e \in removed' : ~e.new
  BY <1>2, <1>3, EntriesOk
<1>5. \A l \in Kinds : issued[l] <= issued[l]
  BY GuidFacts DEF IInv, TypeOK
<1> QED
  BY <1>1, <1>4, <1>5, EntriesOk, DatabaseStep DEF IInv, TypeOK

\* The server's guid is new to its table, so nothing is there.
LEMMA ServerStep == ASSUME IInv, NEW r \in Theirs, NEW g \in Guids, ServerAdds(r, g) PROVE IInv'
<1> DEFINE k == KindOf[r.spawn]
<1>1. r \in Row /\ k \in Kinds
  BY SpawnsAssumption DEF Row
<1> HIDE DEF k
<1>2. /\ rows' = [rows EXCEPT ![k][g] = r] /\ issued' = [issued EXCEPT ![k] = g]
      /\ g > issued[k] /\ used' = used \cup {r}
      /\ UNCHANGED <<addon, scene, removed, next, files, job>>
  BY DEF ServerAdds, editor, k
<1>3. /\ rows \in [Kinds -> [Guids -> Row \cup {None}]]
      /\ \A l \in Kinds, h \in Guids : rows[l][h] # None =>
            KindOf[rows[l][h].spawn] = l /\ h <= issued[l]
      /\ issued \in [Kinds -> 0..MaxGuid]
  BY DEF IInv, TypeOK
<1>4. g \in Nat /\ g <= MaxGuid /\ issued[k] \in Nat
  BY <1>1, <1>3, GuidFacts
<1>5. rows' \in [Kinds -> [Guids -> Row \cup {None}]]
  BY <1>1, <1>2, <1>3
<1>6. issued' \in [Kinds -> 0..MaxGuid] /\ \A l \in Kinds : issued[l] <= issued'[l]
  BY <1>1, <1>2, <1>3, <1>4, GuidFacts
<1>7. \A l \in Kinds, h \in Guids :
         \/ rows'[l][h] = rows[l][h]
         \/ l = k /\ h = g /\ rows'[l][h] = r
  BY <1>1, <1>2, <1>3
<1>8. \A l \in Kinds, h \in Guids : rows'[l][h] # None =>
         KindOf[rows'[l][h].spawn] = l /\ h <= issued'[l]
  <2> SUFFICES ASSUME NEW l \in Kinds, NEW h \in Guids, rows'[l][h] # None
               PROVE  KindOf[rows'[l][h].spawn] = l /\ h <= issued'[l]
    OBVIOUS
  <2>1. h \in Nat /\ issued[l] \in Nat /\ issued'[l] \in Nat /\ issued[l] <= issued'[l]
    BY <1>3, <1>6, GuidFacts
  <2>2. CASE rows'[l][h] = rows[l][h]
    BY <1>3, <2>1, <2>2
  <2>3. CASE l = k /\ h = g /\ rows'[l][h] = r
    BY <1>1, <1>2, <1>3, <1>4, <2>3 DEF k
  <2> QED
    BY <1>7, <2>2, <2>3
<1>9. \A l \in Kinds, h \in Guids : rows'[l][h] = rows[l][h] \/ h > issued[l]
  BY <1>2, <1>7
<1>10. \A e \in Entry : EntryOk(e) => EntryOk(e)'
  <2>1. EverStaged' = EverStaged
    BY <1>2 DEF EverStaged
  <2>2. \A l \in Kinds : issued'[l] \in Nat
    BY <1>6, GuidFacts
  <2> QED
    BY <1>6, <1>9, <2>1, <2>2, EntriesStay DEF IInv
<1>11. used' \in SUBSET (Theirs \cup Placeable)
  BY <1>2, EntriesOk
<1>12. TypeOK'
  BY <1>2, <1>5, <1>6, <1>8, <1>11 DEF IInv, TypeOK
<1>13. NamesOk'
  BY <1>2, <1>10, EntriesOk, NamesStay
<1>14. FilesOk'
  BY <1>2, <1>10, FilesStay
<1>15. JobOk'
  BY <1>2 DEF IInv, JobOk, IsWritten
<1> QED
  BY <1>12, <1>13, <1>14, <1>15 DEF IInv

-----------------------------------------------------------------------------
\* The theorems

LEMMA Consecution == IInv /\ [Next]_vars => IInv'
<1> SUFFICES ASSUME IInv, [Next]_vars PROVE IInv'
  OBVIOUS
<1>1. CASE Stage
  BY <1>1, StageStep
<1>2. CASE SaveFile \/ SaveApply \/ ApplyByHand
  BY <1>2, SaveStep
<1>3. CASE Statement
  BY <1>3, AllocateStep, DeleteStep, InsertStep, CreateStep, AddonStep DEF Statement
<1>4. CASE Fail \/ Succeed
  BY <1>4, EndStep
<1>5. CASE \E r \in Theirs, g \in Guids : ServerAdds(r, g)
  BY <1>5, ServerStep
<1>6. CASE UNCHANGED vars
  <2>1. UNCHANGED <<database, files, job, scene, removed, next, used>>
    BY <1>6 DEF vars, editor
  <2> QED
    BY <2>1, EntriesOk, EditorStays
<1> QED
  BY <1>1, <1>2, <1>3, <1>4, <1>5, <1>6 DEF Next

\* The types hold: a row is in the table of its spawn, no row has a guid above
\* the highest one issued, and a tombstone is of a spawn of the database.
THEOREM TypeCorrect == Spec => []TypeOK
<1>1. IInv => TypeOK
  BY DEF IInv
<1> QED
  BY <1>1, Initially, Consecution, PTL DEF Spec

\* No step changes the row of a spawn that was never in a changeset.
LEMMA OthersStay ==
    ASSUME IInv, [Next]_vars, NEW k \in Kinds, NEW g \in Guids,
           rows[k][g] # None, rows'[k][g] # rows[k][g]
    PROVE  rows[k][g].spawn \in Placed \cup EverStaged
<1>1. rows \in [Kinds -> [Guids -> Row \cup {None}]]
  BY DEF IInv, TypeOK
<1>2. rows' # rows
  OBVIOUS
<1>3. PICK l \in Kinds : \/ DeleteRows(l) \/ InsertRows(l) \/ CreateRows(l)
                        \/ \E r \in Theirs, h \in Guids : ServerAdds(r, h)
  BY <1>2 DEF Next, Stage, Statement, Load, Move, Remove, Place, Discard, Leave, SaveFile,
              SaveApply, ApplyByHand, Allocate, DeleteAddons, UpsertAddons, Fail, Succeed,
              vars, database
<1>4. CASE DeleteRows(l)
  <2>1. Named(job.changes.edited \cup job.changes.removed, k, g)
    BY <1>1, <1>4 DEF DeleteRows
  <2>2. PICK e \in job.changes.edited \cup job.changes.removed : e.kind = k /\ e.guid = g
    BY <2>1 DEF Named, Names
  <2>3. job # None
    BY <1>4 DEF DeleteRows, Executes
  <2>4. EntryOk(e) /\ ~e.new /\ e.row.spawn \in EverStaged
    BY <2>2, <2>3, EntriesOfJob
  <2> QED
    BY <2>2, <2>4 DEF EntryOk, MeansTheSame
<1>5. CASE InsertRows(l)
  <2>1. l = k /\ Named(job.changes.edited, k, g)
    BY <1>1, <1>5 DEF InsertRows
  <2> QED
    BY <1>5, <2>1 DEF InsertRows, Named, Names
<1>6. CASE CreateRows(l)
  <2>1. l = k /\ \E e \in CreatedOf(k) : NewGuid(e) = g
    BY <1>1, <1>6 DEF CreateRows
  <2> QED
    BY <1>6, <2>1 DEF CreateRows
<1>7. CASE \E r \in Theirs, h \in Guids : ServerAdds(r, h)
  <2>1. PICK r \in Theirs, h \in Guids : ServerAdds(r, h)
    BY <1>7
  <2>2. KindOf[r.spawn] = k /\ h = g /\ g > issued[k]
    BY <1>1, <2>1 DEF ServerAdds
  <2>3. g <= issued[k] /\ issued[k] \in Nat /\ g \in Nat
    BY GuidFacts DEF IInv, TypeOK
  <2> QED
    BY <2>2, <2>3
<1> QED
  BY <1>3, <1>4, <1>5, <1>6, <1>7

\* Applying changesets never changes the row of a spawn that was in none,
\* whatever guids the editor makes up and the server hands out.
THEOREM OthersAreSafe == Spec => OthersSurvive
<1>1. IInv /\ [Next]_vars =>
        [\A k \in Kinds, g \in Guids :
            rows[k][g] # None /\ rows'[k][g] # rows[k][g] =>
               rows[k][g].spawn \in Placed \cup EverStaged]_vars
  BY OthersStay
<1> QED
  BY <1>1, Initially, Consecution, PTL DEF Spec, OthersSurvive

\* A pose that somebody authored goes only with its creature, in a changeset
\* that removes it.
THEOREM PosesAreSafe == Spec => PosesSurvive
<1>1. [Next]_vars =>
        [\A g \in Guids : addon[g] = "authored" /\ addon'[g] # "authored" =>
            job # None /\ Named(job.changes.removed, "creature", g)]_vars
  <2> SUFFICES ASSUME [Next]_vars, NEW g \in Guids,
                      addon[g] = "authored", addon'[g] # "authored"
               PROVE  job # None /\ Named(job.changes.removed, "creature", g)
    OBVIOUS
  <2>1. DeleteAddons \/ UpsertAddons
    BY DEF Next, Stage, Statement, Load, Move, Remove, Place, Discard, Leave, SaveFile,
           SaveApply, ApplyByHand, Allocate, DeleteRows, InsertRows, CreateRows, Fail,
           Succeed, ServerAdds, vars, database
  <2>2. CASE DeleteAddons
    <3>1. addon'[g] = IF Named(job.changes.removed, "creature", g) THEN "absent" ELSE addon[g]
      BY <2>2 DEF DeleteAddons
    <3> QED
      BY <2>2, <3>1 DEF DeleteAddons, Executes
  <2>3. CASE UpsertAddons
    <3>1. \/ addon'[g] = addon[g]
          \/ addon[g] = "absent"
      BY <2>3 DEF UpsertAddons
    <3> QED
      BY <3>1
  <2> QED
    BY <2>1, <2>2, <2>3
<1> QED
  BY <1>1, PTL DEF Spec, PosesSurvive

-----------------------------------------------------------------------------
\* What the editor stages and writes is told apart by its names, and a spawn
\* that was placed once is not placed again.

\* A spawn the user may place that is anywhere was placed.
IsUsed(u, s) == s \in Placed => \E r \in u : r.spawn = s
ChangesApart(c) ==
    /\ Apart(c.edited, c.removed)
    /\ Unique(c.created)
    /\ \A e \in c.created, f \in c.removed : e.row.spawn # f.row.spawn
    /\ \A e \in c.edited \cup c.created \cup c.removed : IsUsed(used, e.row.spawn)
EditorApart ==
    /\ Apart(scene, removed)
    /\ \A e, f \in scene \cup removed : e.new /\ ~f.new => e.row.spawn # f.row.spawn
    /\ \A e \in scene \cup removed : IsUsed(used, e.row.spawn)
RowsUsed == \A k \in Kinds, g \in Guids : rows[k][g] # None => IsUsed(used, rows[k][g].spawn)
FilesApart == \A c \in Changeset : IsWritten(c) => ChangesApart(c)

ApartInv == EditorApart /\ RowsUsed /\ FilesApart

\* What the statements that were executed have achieved so far.
Executed(what, of) == \A i \in job.left : Statements[i] # <<what, of>>
InOrder ==
    /\ job.left \subseteq Script(job.changes)
    /\ \A i \in Script(job.changes) \ job.left, j \in job.left : i < j
EditedDone(k) ==
    Executed("insert", k) =>
        \A e \in job.changes.edited : e.kind = k => rows[k][e.guid] = e.row
RemovedDone(k) ==
    Executed("delete", k) =>
        \A e \in job.changes.removed : e.kind = k => rows[k][e.guid] # e.row
CreatedDone(k) ==
    Executed("create", k) =>
        \A e \in job.changes.created : e.kind = k => \E g \in Guids : rows[k][g] = e.row
AddonsDone ==
    Executed("delete", "addon") =>
        \A e \in job.changes.removed : e.kind = "creature" => addon[e.guid] = "absent"

\* Where the changes come from that are applied.
JobSource ==
    IF job.byHand
    THEN \E i \in DOMAIN files : files[i].whole /\ files[i].changes = job.changes
    ELSE job.changes = Staged

ProgressInv ==
    job # None =>
        /\ InOrder
        /\ \A k \in Kinds : EditedDone(k) /\ RemovedDone(k) /\ CreatedDone(k)
        /\ AddonsDone
        /\ JobSource

\* What was used stays used.
LEMMA UsedStays ==
    ASSUME used \subseteq used', NEW s, IsUsed(used, s)
    PROVE  IsUsed(used', s)
  BY DEF IsUsed

\* Entries whose flags are cleared keep their names.
LEMMA AcceptedEntries ==
    ASSUME NEW S \in SUBSET Entry
    PROVE  /\ \A e \in Accepted(S) : \E f \in S :
                /\ ~f.new /\ e = [f EXCEPT !.dirty = FALSE]
                /\ e.kind = f.kind /\ e.guid = f.guid /\ e.row = f.row /\ e.new = FALSE
           /\ Unique(S) => Unique(Accepted(S))
<1>1. \A e \in Accepted(S) : \E f \in S :
         /\ ~f.new /\ e = [f EXCEPT !.dirty = FALSE]
         /\ e.kind = f.kind /\ e.guid = f.guid /\ e.row = f.row /\ e.new = FALSE
  <2> SUFFICES ASSUME NEW f \in S, ~f.new
               PROVE  LET e == [f EXCEPT !.dirty = FALSE]
                      IN  e.kind = f.kind /\ e.guid = f.guid /\ e.row = f.row /\ e.new = FALSE
    BY DEF Accepted
  <2> QED
    BY DEF Entry
<1>2. Unique(S) => Unique(Accepted(S))
  <2> SUFFICES ASSUME Unique(S), NEW e \in Accepted(S), NEW f \in Accepted(S),
                      e.kind = f.kind, e.guid = f.guid
               PROVE  e = f
    BY DEF Unique
  <2>1. PICK a \in S : /\ e = [a EXCEPT !.dirty = FALSE]
                       /\ e.kind = a.kind /\ e.guid = a.guid
    BY <1>1
  <2>2. PICK b \in S : /\ f = [b EXCEPT !.dirty = FALSE]
                       /\ f.kind = b.kind /\ f.guid = b.guid
    BY <1>1
  <2>3. a = b
    BY <2>1, <2>2 DEF Unique
  <2> QED
    BY <2>1, <2>2, <2>3
<1> QED
  BY <1>1, <1>2

\* An editor whose entries were accepted is in order.
LEMMA AcceptedApart ==
    ASSUME IInv, EditorApart, used \subseteq used', removed' = {},
           scene' = Accepted(scene) \/ scene' = Accepted(scene \cup removed)
    PROVE  EditorApart'
<1>1. scene \in SUBSET Entry /\ scene \cup removed \in SUBSET Entry
  BY EntriesOk
<1>2. Unique(scene \cup removed) /\ Unique(scene)
  BY DEF EditorApart, Apart, Unique
<1>3. PICK S \in {scene, scene \cup removed} : scene' = Accepted(S)
  OBVIOUS
<1>4. S \in SUBSET Entry /\ Unique(S) /\ S \subseteq scene \cup removed
  BY <1>1, <1>2
<1>5. Unique(scene')
  BY <1>3, <1>4, AcceptedEntries
<1>6. \A e \in scene' : ~e.new /\ \E f \in scene \cup removed : e.row = f.row
  <2> SUFFICES ASSUME NEW e \in scene'
               PROVE  ~e.new /\ \E f \in scene \cup removed : e.row = f.row
    OBVIOUS
  <2>1. \E f \in S : e.row = f.row /\ e.new = FALSE
    BY <1>3, <1>4, AcceptedEntries
  <2> QED
    BY <1>4, <2>1
<1>7. \A e \in scene' : IsUsed(used', e.row.spawn)
  BY <1>6, UsedStays DEF EditorApart
<1> QED
  BY <1>5, <1>6, <1>7 DEF EditorApart, Apart

\* What is staged can be told apart.
LEMMA StagedApart ==
    ASSUME IInv, EditorApart
    PROVE  ChangesApart(Staged)
<1>1. /\ Staged.edited \subseteq scene /\ \A e \in Staged.edited : ~e.new
      /\ Staged.created \subseteq scene /\ \A e \in Staged.created : e.new
      /\ Staged.removed = removed
  BY DEF Staged, DirtyOf
<1>2. Apart(Staged.edited, Staged.removed) /\ Unique(Staged.created)
  BY <1>1 DEF EditorApart, Apart, Unique
<1>3. \A e \in Staged.edited \cup Staged.created \cup Staged.removed : e \in scene \cup removed
  BY <1>1
<1>4. \A e \in Staged.created, f \in Staged.removed : e.row.spawn # f.row.spawn
  <2>1. \A f \in Staged.removed : ~f.new
    BY <1>1, EntriesOk
  <2> QED
    BY <1>1, <1>3, <2>1 DEF EditorApart
<1>5. \A e \in Staged.edited \cup Staged.created \cup Staged.removed : IsUsed(used, e.row.spawn)
  BY <1>3 DEF EditorApart
<1> QED
  BY <1>1, <1>2, <1>4, <1>5 DEF ChangesApart

LEMMA InitApart == Init => ApartInv
<1> SUFFICES ASSUME Init PROVE ApartInv
  OBVIOUS
<1>1. scene = {} /\ removed = {} /\ files = <<>>
  BY DEF Init
<1>2. EditorApart
  BY <1>1 DEF EditorApart, Apart, Unique
<1>3. RowsUsed
  <2> SUFFICES ASSUME NEW k \in Kinds, NEW g \in Guids, rows[k][g] # None
               PROVE  rows[k][g].spawn \notin Placed
    BY DEF RowsUsed, IsUsed
  <2>1. PICK e \in FirstRows : rows[k][g] = e.row
    BY RowOfIsThere DEF Init
  <2> QED
    BY <2>1, RowsAssumption DEF Placed
<1>4. FilesApart
  BY <1>1 DEF FilesApart, IsWritten
<1> QED
  BY <1>2, <1>3, <1>4 DEF ApartInv

\* Changesets that are written stay as they are.
LEMMA FilesApartStay ==
    ASSUME FilesApart, used \subseteq used',
           \A c \in Changeset : IsWritten(c)' => IsWritten(c) \/ ChangesApart(c)
    PROVE  FilesApart'
<1> SUFFICES ASSUME NEW c \in Changeset, IsWritten(c)' PROVE ChangesApart(c)'
  BY DEF FilesApart
<1>1. ChangesApart(c)
  BY DEF FilesApart
<1> QED
  BY <1>1, UsedStays DEF ChangesApart

\* Rows that are new are of spawns that were used.
LEMMA RowsUsedStay ==
    ASSUME RowsUsed, used \subseteq used',
           \A k \in Kinds, g \in Guids :
              \/ rows'[k][g] = rows[k][g]
              \/ rows'[k][g] = None
              \/ IsUsed(used', rows'[k][g].spawn)
    PROVE  RowsUsed'
<1> SUFFICES ASSUME NEW k \in Kinds, NEW g \in Guids, rows'[k][g] # None
             PROVE  IsUsed(used', rows'[k][g].spawn)
  BY DEF RowsUsed
<1>1. CASE rows'[k][g] = rows[k][g]
  BY <1>1, UsedStays DEF RowsUsed
<1> QED
  BY <1>1

\* An edit in the view keeps the names apart.
LEMMA StageEditorApart == IInv /\ ApartInv /\ Stage => EditorApart'
<1> SUFFICES ASSUME IInv, ApartInv, Stage PROVE EditorApart'
  OBVIOUS
<1>0. /\ \A e \in scene \cup removed : e \in Entry
      /\ \A e \in removed : ~e.new
      /\ EditorApart /\ RowsUsed
  BY EntriesOk DEF ApartInv
<1>1. ASSUME NEW S \in SUBSET Tiles, Load(S) PROVE EditorApart'
  <2>1. removed' = {} /\ used' = used
    BY <1>1 DEF Load
  <2>2. \A e \in scene' : \E k \in Kinds, g \in Guids :
           rows[k][g] # None /\ e = EntryOf(k, g)
    BY <1>1 DEF Load
  <2>3. \A e \in scene' : e = EntryOf(e.kind, e.guid) /\ ~e.new
    BY <2>2 DEF EntryOf
  <2>4. \A e \in scene' : IsUsed(used', e.row.spawn)
    <3> SUFFICES ASSUME NEW e \in scene' PROVE IsUsed(used', e.row.spawn)
      OBVIOUS
    <3>1. PICK k \in Kinds, g \in Guids : rows[k][g] # None /\ e.row = rows[k][g]
      BY <2>2 DEF EntryOf
    <3>2. IsUsed(used, e.row.spawn)
      BY <1>0, <3>1 DEF RowsUsed
    <3> QED
      BY <2>1, <3>2 DEF IsUsed
  <2>5. Apart(scene', removed')
    BY <2>1, <2>3 DEF Apart, Unique
  <2> QED
    BY <2>1, <2>3, <2>4, <2>5 DEF EditorApart
<1>2. ASSUME NEW e \in scene, NEW p \in Places, Move(e, p) PROVE EditorApart'
  <2> DEFINE f == [e EXCEPT !.row.at = p, !.dirty = TRUE]
  <2>1. f.kind = e.kind /\ f.guid = e.guid /\ f.new = e.new /\ f.row.spawn = e.row.spawn
    BY <1>0 DEF Entry, Row
  <2>2. scene' = (scene \ {e}) \cup {f} /\ removed' = removed /\ used' = used
    BY <1>2 DEF Move, Replace
  <2> HIDE DEF f
  <2>3. Apart(scene', removed')
    <3>1. Apart(scene, removed)
      BY <1>0 DEF EditorApart
    <3>2. ASSUME NEW a \in scene' \cup removed', NEW b \in scene' \cup removed',
                 a.kind = b.kind, a.guid = b.guid
          PROVE  a = b
      BY <2>1, <2>2, <3>1, <3>2 DEF Apart, Unique
    <3>3. f \notin removed
      BY <2>1, <3>1 DEF Apart, Unique
    <3>4. scene' \cap removed' = {}
      BY <2>2, <3>1, <3>3 DEF Apart
    <3> QED
      BY <3>2, <3>4 DEF Apart, Unique
  <2>4. \A a \in scene' \cup removed' : \E b \in scene \cup removed :
           a.new = b.new /\ a.row.spawn = b.row.spawn
    BY <2>1, <2>2
  <2>5. \A s : IsUsed(used', s) = IsUsed(used, s)
    BY <2>2 DEF IsUsed
  <2>6. \A a, b \in scene' \cup removed' : a.new /\ ~b.new => a.row.spawn # b.row.spawn
    <3> SUFFICES ASSUME NEW a \in scene' \cup removed', NEW b \in scene' \cup removed',
                        a.new, ~b.new
                 PROVE  a.row.spawn # b.row.spawn
      OBVIOUS
    <3>1. PICK c \in scene \cup removed : a.new = c.new /\ a.row.spawn = c.row.spawn
      BY <2>4
    <3>2. PICK d \in scene \cup removed : b.new = d.new /\ b.row.spawn = d.row.spawn
      BY <2>4
    <3> QED
      BY <1>0, <3>1, <3>2 DEF EditorApart
  <2>7. \A a \in scene' \cup removed' : IsUsed(used', a.row.spawn)
    BY <1>0, <2>4, <2>5 DEF EditorApart
  <2> QED
    BY <2>3, <2>6, <2>7 DEF EditorApart
<1>3. ASSUME NEW e \in scene, Remove(e) PROVE EditorApart'
  <2>1. /\ scene' = scene \ {e} /\ used' = used
        /\ removed' = removed \/ removed' = removed \cup {e}
    BY <1>3 DEF Remove
  <2>2. Apart(scene', removed')
    BY <1>0, <2>1 DEF EditorApart, Apart, Unique
  <2> QED
    BY <1>0, <2>1, <2>2 DEF EditorApart, IsUsed
<1>4. ASSUME NEW r \in Placeable, Place(r) PROVE EditorApart'
  <2>1. PICK g \in FirstFree :
          scene' = scene \cup {[kind |-> KindOf[r.spawn], guid |-> g, row |-> r,
                                addon |-> FALSE, dirty |-> FALSE, new |-> TRUE]}
    BY <1>4 DEF Place
  <2>2. removed' = removed /\ used' = used \cup {r} /\ r \notin used
    BY <1>4 DEF Place
  <2> DEFINE e == [kind |-> KindOf[r.spawn], guid |-> g, row |-> r,
                   addon |-> FALSE, dirty |-> FALSE, new |-> TRUE]
  <2>3. e.guid = g /\ e.row = r /\ e.new = TRUE /\ scene' = scene \cup {e}
    BY <2>1
  <2> HIDE DEF e
  <2>4. \A f \in scene \cup removed : f.guid # g
    BY DEF FirstFree, IsTaken
  <2>5. Apart(scene', removed')
    BY <1>0, <2>2, <2>3, <2>4 DEF EditorApart, Apart, Unique
  <2>6. r.spawn \in Placed /\ \A t \in used : t.spawn # r.spawn
    <3>1. \A t \in used : t \in Theirs \cup Placeable
      BY DEF IInv, TypeOK
    <3> QED
      BY <2>2, <3>1, SpawnsAssumption DEF Placed
  <2>7. \A f \in scene \cup removed : f.row.spawn # r.spawn
    BY <1>0, <2>6 DEF EditorApart, IsUsed
  <2>8. IsUsed(used', r.spawn) /\ used \subseteq used'
    BY <2>2 DEF IsUsed
  <2>9. \A f \in scene \cup removed : IsUsed(used', f.row.spawn)
    BY <1>0, <2>8, UsedStays DEF EditorApart
  <2> QED
    BY <1>0, <2>2, <2>3, <2>5, <2>7, <2>8, <2>9 DEF EditorApart
<1>5. ASSUME Discard PROVE EditorApart'
  BY <1>0, <1>5, AcceptedApart DEF Discard
<1>6. ASSUME Leave PROVE EditorApart'
  BY <1>6 DEF Leave, EditorApart, Apart, Unique
<1> QED
  BY <1>1, <1>2, <1>3, <1>4, <1>5, <1>6 DEF Stage

\* No step gives a row a spawn that may be placed and was not.
LEMMA RowsUsedStep == IInv /\ ApartInv /\ [Next]_vars => used \subseteq used' /\ RowsUsed'
<1> SUFFICES ASSUME IInv, ApartInv, [Next]_vars PROVE used \subseteq used' /\ RowsUsed'
  OBVIOUS
<1>0. rows \in [Kinds -> [Guids -> Row \cup {None}]] /\ RowsUsed
  BY DEF IInv, TypeOK, ApartInv
<1>1. used \subseteq used'
  BY DEF Next, Stage, Statement, Load, Move, Remove, Place, Discard, Leave, SaveFile,
         SaveApply, ApplyByHand, Allocate, DeleteRows, InsertRows, CreateRows, DeleteAddons,
         UpsertAddons, Fail, Succeed, ServerAdds, vars
<1>2. CASE UNCHANGED rows
  BY <1>0, <1>1, <1>2, RowsUsedStay
<1>3. CASE \E k \in Kinds : DeleteRows(k)
  <2>1. \A k \in Kinds, g \in Guids : rows'[k][g] \in {rows[k][g], None}
    BY <1>0, <1>3 DEF DeleteRows
  <2> QED
    BY <1>0, <1>1, <2>1, RowsUsedStay
<1>4. ASSUME NEW e \in job.changes.edited \cup job.changes.created, job # None
      PROVE  IsUsed(used', e.row.spawn)
  <2>1. ChangesApart(job.changes)
    BY <1>4, JobIsOk DEF IInv, JobOk, ApartInv, FilesApart
  <2> QED
    BY <1>1, <1>4, <2>1, UsedStays DEF ChangesApart
<1>5. ASSUME NEW l \in Kinds, InsertRows(l) PROVE RowsUsed'
  <2>1. job # None
    BY <1>5 DEF InsertRows, Executes
  <2>2. \A k \in Kinds, g \in Guids :
           \/ rows'[k][g] = rows[k][g]
           \/ Named(job.changes.edited, l, g) /\ rows'[k][g] = RowOf(job.changes.edited, l, g)
    BY <1>0, <1>5 DEF InsertRows
  <2>3. \A k \in Kinds, g \in Guids :
           \/ rows'[k][g] = rows[k][g]
           \/ \E e \in job.changes.edited : rows'[k][g] = e.row
    <3> SUFFICES ASSUME NEW k \in Kinds, NEW g \in Guids, rows'[k][g] # rows[k][g]
                 PROVE  \E e \in job.changes.edited : rows'[k][g] = e.row
      OBVIOUS
    <3>1. Named(job.changes.edited, l, g) /\ rows'[k][g] = RowOf(job.changes.edited, l, g)
      BY <2>2
    <3> QED
      BY <3>1, RowOfIsThere
  <2>4. \A k \in Kinds, g \in Guids :
           rows'[k][g] = rows[k][g] \/ IsUsed(used', rows'[k][g].spawn)
    BY <1>4, <2>1, <2>3
  <2> QED
    BY <1>0, <1>1, <2>4, RowsUsedStay
<1>6. ASSUME NEW l \in Kinds, CreateRows(l) PROVE RowsUsed'
  <2>1. job # None
    BY <1>6 DEF CreateRows, Executes
  <2>2. \A k \in Kinds, g \in Guids :
           \/ rows'[k][g] = rows[k][g]
           \/ \E e \in job.changes.created : rows'[k][g] = e.row
    <3> SUFFICES ASSUME NEW k \in Kinds, NEW g \in Guids, rows'[k][g] # rows[k][g]
                 PROVE  \E e \in job.changes.created : rows'[k][g] = e.row
      OBVIOUS
    <3>1. /\ \E e \in CreatedOf(l) : NewGuid(e) = g
          /\ rows'[k][g] = (CHOOSE e \in CreatedOf(l) : NewGuid(e) = g).row
      BY <1>0, <1>6 DEF CreateRows
    <3>2. CreatedOf(l) \subseteq job.changes.created
      BY DEF CreatedOf
    <3> QED
      BY <3>1, <3>2
  <2>3. \A k \in Kinds, g \in Guids :
           rows'[k][g] = rows[k][g] \/ IsUsed(used', rows'[k][g].spawn)
    BY <1>4, <2>1, <2>2
  <2> QED
    BY <1>0, <1>1, <2>3, RowsUsedStay
<1>7. ASSUME NEW r \in Theirs, NEW h \in Guids, ServerAdds(r, h) PROVE RowsUsed'
  <2>1. IsUsed(used', r.spawn)
    BY <1>7 DEF ServerAdds, IsUsed
  <2>2. KindOf[r.spawn] \in Kinds
    BY SpawnsAssumption DEF Row
  <2>3. \A k \in Kinds, g \in Guids : rows'[k][g] = rows[k][g] \/ rows'[k][g] = r
    BY <1>0, <1>7, <2>2 DEF ServerAdds
  <2> QED
    BY <1>0, <1>1, <2>1, <2>3, RowsUsedStay
<1>8. \/ UNCHANGED rows
      \/ \E k \in Kinds : DeleteRows(k) \/ InsertRows(k) \/ CreateRows(k)
      \/ \E r \in Theirs, h \in Guids : ServerAdds(r, h)
  BY DEF Next, Stage, Statement, Load, Move, Remove, Place, Discard, Leave, SaveFile,
         SaveApply, ApplyByHand, Allocate, DeleteAddons, UpsertAddons, Fail, Succeed,
         vars, database
<1> QED
  BY <1>1, <1>2, <1>3, <1>5, <1>6, <1>7, <1>8

\* What a save writes is what is staged.
LEMMA WrittenNext ==
    ASSUME IInv, WriteChangeset
    PROVE  /\ \A c : IsWritten(c)' <=> IsWritten(c) \/ c = Staged
           /\ DOMAIN files \subseteq DOMAIN files'
           /\ \A i \in DOMAIN files : files'[i] = files[i]
           /\ Len(files') \in DOMAIN files'
           /\ files'[Len(files')].changes = Staged
           /\ files'[Len(files')].whole \in BOOLEAN
<1>1. PICK ok \in BOOLEAN : files' = Append(files, [changes |-> Staged, whole |-> ok])
  BY DEF WriteChangeset
<1> DEFINE F == [changes : Changeset, whole : BOOLEAN]
<1> DEFINE x == [changes |-> Staged, whole |-> ok]
<1>2. files \in Seq(F) /\ x \in F /\ x.changes = Staged /\ x.whole \in BOOLEAN
      /\ files' = Append(files, x)
  BY <1>1, StagedIsOk DEF IInv, TypeOK
<1> HIDE DEF F, x
<1>3. /\ Len(files') = Len(files) + 1 /\ Len(files) \in Nat
      /\ DOMAIN files = 1..Len(files)
      /\ DOMAIN files' = 1..(Len(files) + 1)
      /\ \A i \in DOMAIN files : files'[i] = files[i]
      /\ files'[Len(files')] = x
  BY <1>2
<1>4. DOMAIN files' = DOMAIN files \cup {Len(files')} /\ Len(files') \in DOMAIN files'
  BY <1>3
<1>5. \A c : IsWritten(c)' <=> IsWritten(c) \/ c = Staged
  BY <1>2, <1>3, <1>4 DEF IsWritten
<1> QED
  BY <1>2, <1>3, <1>4, <1>5

LEMMA ApartStep == IInv /\ ApartInv /\ [Next]_vars => ApartInv'
<1> SUFFICES ASSUME IInv, ApartInv, [Next]_vars PROVE ApartInv'
  OBVIOUS
<1>1. used \subseteq used' /\ RowsUsed'
  BY RowsUsedStep
<1>2. EditorApart /\ FilesApart
  BY DEF ApartInv
<1>3. EditorApart'
  <2>1. CASE Stage
    BY <2>1, StageEditorApart
  <2>2. CASE UNCHANGED <<scene, removed>>
    BY <1>1, <1>2, <2>2, UsedStays DEF EditorApart
  <2>3. CASE scene' = Accepted(scene) /\ removed' = {}
    BY <1>1, <1>2, <2>3, AcceptedApart
  <2>4. \/ Stage \/ UNCHANGED <<scene, removed>>
        \/ scene' = Accepted(scene) /\ removed' = {}
    BY DEF Next, Statement, SaveFile, SaveApply, ApplyByHand, Allocate, DeleteRows, InsertRows,
           CreateRows, DeleteAddons, UpsertAddons, Fail, Succeed, ServerAdds, ClearPending,
           vars, editor
  <2> QED
    BY <2>1, <2>2, <2>3, <2>4
<1>4. FilesApart'
  <2>1. CASE UNCHANGED files
    BY <1>1, <1>2, <2>1, FilesApartStay DEF IsWritten
  <2>2. CASE WriteChangeset
    <3>1. ChangesApart(Staged)
      BY <1>2, StagedApart
    <3> QED
      BY <1>1, <1>2, <2>2, <3>1, WrittenNext, FilesApartStay
  <2>3. UNCHANGED files \/ WriteChangeset
    BY DEF Next, Stage, Statement, Load, Move, Remove, Place, Discard, Leave, SaveFile,
           SaveApply, ApplyByHand, Allocate, DeleteRows, InsertRows, CreateRows, DeleteAddons,
           UpsertAddons, Fail, Succeed, ServerAdds, vars
  <2> QED
    BY <2>1, <2>2, <2>3
<1> QED
  BY <1>1, <1>3, <1>4 DEF ApartInv

\* moveTo, rotateTo and remove act on the entry the user picked, and no
\* changeset has a guid twice, though provisional guids may be guids the
\* database has issued and may come round.
THEOREM NamesHold == Spec => []NamesAreUnique
<1>1. IInv /\ ApartInv => NamesAreUnique
  <2> SUFFICES ASSUME IInv, ApartInv PROVE NamesAreUnique
    OBVIOUS
  <2>1. Apart(scene, removed)
    BY DEF ApartInv, EditorApart
  <2>2. ASSUME NEW i \in DOMAIN files
        PROVE  Apart(files[i].changes.edited, files[i].changes.removed)
    <3> DEFINE F == [changes : Changeset, whole : BOOLEAN]
    <3>1. files \in Seq(F)
      BY DEF IInv, TypeOK
    <3> HIDE DEF F
    <3>2. files[i] \in F
      BY <2>2, <3>1
    <3>3. files[i].changes \in Changeset
      BY <3>2 DEF F
    <3>4. ChangesApart(files[i].changes)
      BY <3>3 DEF ApartInv, FilesApart, IsWritten
    <3> QED
      BY <3>4 DEF ChangesApart
  <2> QED
    BY <2>1, <2>2 DEF NamesAreUnique, Range
<1> QED
  BY <1>1, Initially, Consecution, InitApart, ApartStep, PTL DEF Spec

-----------------------------------------------------------------------------
\* The statements of a changeset and their order

LEMMA StatementOrder ==
    /\ DOMAIN Statements = 1..10
    /\ \A i, j \in DOMAIN Statements : Statements[i] = Statements[j] => i = j
    /\ \A i \in DOMAIN Statements : Statements[i] = <<Statements[i][1], Statements[i][2]>>
    /\ \A k \in Kinds : \E d, i, c \in DOMAIN Statements :
          /\ d < i /\ i < c
          /\ Statements[d] = <<"delete", k>>
          /\ Statements[i] = <<"insert", k>>
          /\ Statements[c] = <<"create", k>>
    /\ \E d, u \in DOMAIN Statements :
          /\ d < u
          /\ Statements[d] = <<"delete", "addon">>
          /\ Statements[u] = <<"upsert", "addon">>
<1>1. DOMAIN Statements = 1..10
  BY DEF Statements
<1>2. \A i, j \in 1..10 : Statements[i] = Statements[j] => i = j
  BY DEF Statements
<1>3. \A i \in 1..10 : Statements[i] = <<Statements[i][1], Statements[i][2]>>
  BY DEF Statements
<1>4. /\ 3 < 4 /\ 4 < 5 /\ 8 < 9 /\ 9 < 10 /\ 6 < 7
      /\ 3 \in 1..10 /\ 4 \in 1..10 /\ 5 \in 1..10 /\ 6 \in 1..10 /\ 7 \in 1..10
      /\ 8 \in 1..10 /\ 9 \in 1..10 /\ 10 \in 1..10
  OBVIOUS
<1>5. /\ Statements[3] = <<"delete", "creature">> /\ Statements[4] = <<"insert", "creature">>
      /\ Statements[5] = <<"create", "creature">>
      /\ Statements[6] = <<"delete", "addon">> /\ Statements[7] = <<"upsert", "addon">>
      /\ Statements[8] = <<"delete", "gameobject">> /\ Statements[9] = <<"insert", "gameobject">>
      /\ Statements[10] = <<"create", "gameobject">>
  BY DEF Statements
<1>6. \A k \in Kinds : \E d, i, c \in 1..10 :
          /\ d < i /\ i < c
          /\ Statements[d] = <<"delete", k>>
          /\ Statements[i] = <<"insert", k>>
          /\ Statements[c] = <<"create", k>>
  BY <1>4, <1>5 DEF Kinds
<1>7. \E d, u \in 1..10 :
          /\ d < u
          /\ Statements[d] = <<"delete", "addon">>
          /\ Statements[u] = <<"upsert", "addon">>
  BY <1>4, <1>5
<1>8. /\ \A i, j \in DOMAIN Statements : Statements[i] = Statements[j] => i = j
      /\ \A i \in DOMAIN Statements : Statements[i] = <<Statements[i][1], Statements[i][2]>>
  BY <1>1, <1>2, <1>3
<1>9. \A k \in Kinds : \E d, i, c \in DOMAIN Statements :
          /\ d < i /\ i < c
          /\ Statements[d] = <<"delete", k>>
          /\ Statements[i] = <<"insert", k>>
          /\ Statements[c] = <<"create", k>>
  BY <1>1, <1>6
<1>10. \E d, u \in DOMAIN Statements :
          /\ d < u
          /\ Statements[d] = <<"delete", "addon">>
          /\ Statements[u] = <<"upsert", "addon">>
  BY <1>1, <1>7
<1> QED
  BY <1>1, <1>8, <1>9, <1>10

LEMMA EmitsFacts ==
    ASSUME NEW c, NEW k \in Kinds
    PROVE  /\ Emits(c, "create", k) <=> \E e \in c.created : e.kind = k
           /\ Emits(c, "delete", k) <=> \E e \in c.edited \cup c.removed : e.kind = k
           /\ Emits(c, "insert", k) <=> \E e \in c.edited : e.kind = k
           /\ Emits(c, "delete", "addon") <=> \E e \in c.removed : e.kind = "creature"
  BY DEF Emits, Kinds

\* A statement that is part of the script is executed before the job is done.
LEMMA OnScript ==
    ASSUME NEW what, NEW of, NEW c, Emits(c, what, of),
           NEW i \in DOMAIN Statements, Statements[i] = <<what, of>>
    PROVE  i \in Script(c)
  BY DEF Script

\* The one executed is the first of those left, and goes.
LEMMA Advances ==
    ASSUME IInv, InOrder, NEW what, NEW of, Executes(what, of),
           job'.changes = job.changes, job'.left = Without(what, of)
    PROVE  /\ InOrder'
           /\ \A v, p : Executed(v, p)' => Executed(v, p) \/ <<v, p>> = <<what, of>>
<1>1. job # None /\ job \in Job /\ job.left \subseteq DOMAIN Statements
  BY DEF Executes, IInv, TypeOK, Job
<1>2. PICK i \in job.left : (\A j \in job.left : i <= j) /\ Statements[i] = <<what, of>>
  BY DEF Executes
<1>3. \A j \in DOMAIN Statements : Statements[j] = <<what, of>> => j = i
  BY <1>1, <1>2, StatementOrder
<1>4. Without(what, of) = job.left \ {i}
  BY <1>1, <1>2, <1>3 DEF Without
<1>5. \A j \in DOMAIN Statements : j \in Nat
  BY StatementOrder
<1>6. Script(job.changes) \subseteq DOMAIN Statements
  BY DEF Script
<1>7. InOrder'
  <2> SUFFICES ASSUME NEW j \in Script(job.changes) \ (job.left \ {i}), NEW l \in job.left \ {i}
               PROVE  j < l
    BY <1>4 DEF InOrder
  <2>1. CASE j = i
    <3>1. i <= l /\ i # l /\ i \in Nat /\ l \in Nat
      BY <1>1, <1>2, <1>5
    <3> QED
      BY <2>1, <3>1
  <2>2. CASE j # i
    BY <2>2 DEF InOrder
  <2> QED
    BY <2>1, <2>2
<1>8. \A v, p : Executed(v, p)' => Executed(v, p) \/ <<v, p>> = <<what, of>>
  BY <1>2, <1>4 DEF Executed
<1> QED
  BY <1>7, <1>8
\* What comes later in the script is still to be executed.
LEMMA LaterIsLeft ==
    ASSUME IInv, InOrder, NEW what, NEW of, Executes(what, of),
           NEW i \in DOMAIN Statements, NEW j \in Script(job.changes),
           Statements[i] = <<what, of>>, i < j
    PROVE  ~Executed(Statements[j][1], Statements[j][2])
<1>1. job # None /\ job \in Job /\ job.left \subseteq DOMAIN Statements
  BY DEF Executes, IInv, TypeOK, Job
<1>2. PICK l \in job.left : Statements[l] = <<what, of>>
  BY DEF Executes
<1>3. l = i /\ i \in Nat /\ j \in Nat /\ j \in DOMAIN Statements
  <2>1. j \in DOMAIN Statements
    BY DEF Script
  <2>2. l \in DOMAIN Statements /\ Statements[l] = Statements[i]
    BY <1>1, <1>2
  <2>3. l = i
    BY <2>2, StatementOrder
  <2>4. DOMAIN Statements = 1..10
    BY StatementOrder
  <2> QED
    BY <2>1, <2>3, <2>4
<1>4. j \in job.left
  <2>1. ~(j < i)
    BY <1>3
  <2> QED
    BY <1>2, <1>3, <2>1 DEF InOrder
<1>5. Statements[j] = <<Statements[j][1], Statements[j][2]>>
  BY <1>3, StatementOrder
<1> QED
  BY <1>4, <1>5 DEF Executed

LEMMA NotYet ==
    ASSUME IInv, InOrder, NEW k \in Kinds
    PROVE  /\ Executes("delete", k) /\ (\E e \in job.changes.edited : e.kind = k) =>
                 ~Executed("insert", k)
           /\ /\ Executes("delete", k) \/ Executes("insert", k)
              /\ \E e \in job.changes.created : e.kind = k
              => ~Executed("create", k)
<1>1. PICK d, i, c \in DOMAIN Statements :
          /\ d < i /\ i < c
          /\ Statements[d] = <<"delete", k>>
          /\ Statements[i] = <<"insert", k>>
          /\ Statements[c] = <<"create", k>>
  BY StatementOrder
<1>2. d \in Nat /\ i \in Nat /\ c \in Nat
  BY StatementOrder
<1>3. d < c
  BY <1>1, <1>2
<1>4. (\E e \in job.changes.edited : e.kind = k) => i \in Script(job.changes)
  BY <1>1, EmitsFacts, OnScript
<1>5. (\E e \in job.changes.created : e.kind = k) => c \in Script(job.changes)
  BY <1>1, EmitsFacts, OnScript
<1>6. Statements[i][1] = "insert" /\ Statements[i][2] = k
      /\ Statements[c][1] = "create" /\ Statements[c][2] = k
  BY <1>1
<1>7. Executes("delete", k) /\ (\E e \in job.changes.edited : e.kind = k) =>
         ~Executed("insert", k)
  BY <1>1, <1>4, <1>6, LaterIsLeft
<1>8. Executes("delete", k) /\ (\E e \in job.changes.created : e.kind = k) =>
         ~Executed("create", k)
  BY <1>1, <1>3, <1>5, <1>6, LaterIsLeft
<1>9. Executes("insert", k) /\ (\E e \in job.changes.created : e.kind = k) =>
         ~Executed("create", k)
  BY <1>1, <1>5, <1>6, LaterIsLeft
<1> QED
  BY <1>7, <1>8, <1>9

\* A job starts with the whole script.
LEMMA JobBegins ==
    ASSUME NEW c, NEW b, StartJob(c, b)
    PROVE  /\ job'.changes = c /\ job'.byHand = b
           /\ InOrder'
           /\ \A k \in Kinds : EditedDone(k)' /\ RemovedDone(k)' /\ CreatedDone(k)'
           /\ AddonsDone'
<1>1. job'.changes = c /\ job'.byHand = b /\ job'.left = Script(c)
  BY DEF StartJob
<1>2. InOrder'
  BY <1>1 DEF InOrder
<1>3. ASSUME NEW what, NEW of, NEW i \in DOMAIN Statements, Statements[i] = <<what, of>>,
             Emits(c, what, of)
      PROVE  ~Executed(what, of)'
  BY <1>1, <1>3, OnScript DEF Executed
<1>4. ASSUME NEW k \in Kinds PROVE EditedDone(k)' /\ RemovedDone(k)' /\ CreatedDone(k)'
  <2>1. PICK d, i, l \in DOMAIN Statements :
          /\ d < i /\ i < l
          /\ Statements[d] = <<"delete", k>>
          /\ Statements[i] = <<"insert", k>>
          /\ Statements[l] = <<"create", k>>
    BY StatementOrder
  <2>2. /\ (\E e \in c.created : e.kind = k) => ~Executed("create", k)'
        /\ (\E e \in c.edited \cup c.removed : e.kind = k) => ~Executed("delete", k)'
        /\ (\E e \in c.edited : e.kind = k) => ~Executed("insert", k)'
    BY <1>3, <2>1, EmitsFacts
  <2> QED
    BY <1>1, <2>2 DEF EditedDone, RemovedDone, CreatedDone
<1>5. AddonsDone'
  <2>1. PICK d \in DOMAIN Statements : Statements[d] = <<"delete", "addon">>
    BY StatementOrder
  <2>2. (\E e \in c.removed : e.kind = "creature") => ~Executed("delete", "addon")'
    BY <1>3, <2>1, EmitsFacts DEF Kinds
  <2> QED
    BY <1>1, <2>2 DEF AddonsDone
<1> QED
  BY <1>1, <1>2, <1>4, <1>5
-----------------------------------------------------------------------------
\* What a job has achieved stays

\* The guids of placed spawns are apart.
LEMMA NewGuidsApart ==
    ASSUME IInv, ApartInv, job # None, NEW k \in Kinds,
           NEW e \in CreatedOf(k), NEW f \in CreatedOf(k), NewGuid(e) = NewGuid(f)
    PROVE  e = f
<1> DEFINE Below(g) == {x \in CreatedOf(k) : x.guid <= g}
<1>1. job \in Job /\ job.changes \in Changeset
  BY JobIsOk
<1>2. ChangesApart(job.changes)
  BY <1>1 DEF IInv, JobOk, ApartInv, FilesApart
<1>3. \A x \in CreatedOf(k) : x \in Entry /\ x.kind = k /\ x.guid \in Guids /\ x.guid \in Nat
  <2>1. job.changes.created \subseteq Entry
    BY <1>1 DEF Changeset
  <2> QED
    BY <2>1, GuidFacts DEF CreatedOf, Entry
<1>4. \A x, y \in CreatedOf(k) : x.guid = y.guid => x = y
  BY <1>2, <1>3 DEF ChangesApart, Unique, CreatedOf
<1>5. IsFiniteSet(CreatedOf(k))
  <2> DEFINE h == [x \in CreatedOf(k) |-> x.guid]
  <2>1. h \in Injection(CreatedOf(k), 0..MaxGuid)
    <3>1. h \in [CreatedOf(k) -> 0..MaxGuid]
      BY <1>3, GuidFacts
    <3>2. IsInjective(h)
      BY <1>4 DEF IsInjective
    <3> QED
      BY <3>1, <3>2 DEF Injection
  <2>2. IsFiniteSet(0..MaxGuid)
    BY GuidFacts, FS_Interval
  <2> HIDE DEF h
  <2> QED
    BY <2>1, <2>2, FS_Injection
<1>6. job.top[k] \in Nat
  BY <1>1, GuidFacts DEF Job
<1>7. \A x \in CreatedOf(k) : /\ IsFiniteSet(Below(x.guid))
                              /\ Cardinality(Below(x.guid)) \in Nat
                              /\ NewGuid(x) = job.top[k] + Cardinality(Below(x.guid))
  <2> SUFFICES ASSUME NEW x \in CreatedOf(k)
               PROVE  /\ IsFiniteSet(Below(x.guid))
                      /\ Cardinality(Below(x.guid)) \in Nat
                      /\ NewGuid(x) = job.top[k] + Cardinality(Below(x.guid))
    OBVIOUS
  <2>1. Below(x.guid) \in SUBSET CreatedOf(k)
    OBVIOUS
  <2>2. IsFiniteSet(Below(x.guid))
    BY <1>5, <2>1, FS_Subset
  <2>3. NewGuid(x) = job.top[k] + Cardinality(Below(x.guid))
    BY <1>3 DEF NewGuid
  <2> QED
    BY <2>2, <2>3, FS_CardinalityType
<1>8. Cardinality(Below(e.guid)) = Cardinality(Below(f.guid))
  <2> DEFINE m == Cardinality(Below(e.guid))
  <2> DEFINE n == Cardinality(Below(f.guid))
  <2>1. m \in Nat /\ n \in Nat /\ job.top[k] + m = job.top[k] + n
    BY <1>7
  <2> HIDE DEF m, n
  <2>2. m = n
    BY <1>6, <2>1
  <2> QED
    BY <2>2 DEF m, n
<1>9. e.guid <= f.guid \/ f.guid <= e.guid
  BY <1>3
<1>10. ASSUME NEW x \in CreatedOf(k), NEW y \in CreatedOf(k), x.guid <= y.guid,
              Cardinality(Below(x.guid)) = Cardinality(Below(y.guid))
       PROVE  x = y
  <2>1. Below(x.guid) \in SUBSET Below(y.guid)
    BY <1>3, <1>10
  <2>2. Below(x.guid) = Below(y.guid)
    BY <1>7, <1>10, <2>1, FS_Subset
  <2>3. y.guid <= x.guid
    BY <1>3, <2>2
  <2> QED
    BY <1>3, <1>4, <1>10, <2>3
<1> QED
  BY <1>8, <1>9, <1>10
LEMMA JobEntries ==
    ASSUME IInv, ApartInv, job # None
    PROVE  /\ ChangesApart(job.changes)
           /\ job.changes \in Changeset
           /\ \A e \in job.changes.edited \cup job.changes.removed :
                 /\ e.kind \in Kinds /\ e.guid \in Guids /\ e.row \in Row /\ e.row # None
                 /\ e.guid <= issued[e.kind]
           /\ \A e \in job.changes.created :
                 e.kind \in Kinds /\ e.guid \in Guids /\ e.row \in Row /\ e.row # None
<1>1. job.changes \in Changeset
  BY JobIsOk
<1>2. ChangesApart(job.changes)
  BY <1>1 DEF IInv, JobOk, ApartInv, FilesApart
<1>3. \A e \in job.changes.edited \cup job.changes.removed :
         e \in Entry /\ e.guid <= issued[e.kind]
  BY EntriesOfJob DEF EntryOk
<1>4. \A e \in job.changes.created : e \in Entry
  BY EntriesOfJob
<1> QED
  BY <1>1, <1>2, <1>3, <1>4, NoneAssumption DEF Entry

LEMMA KindStays ==
    ASSUME NEW k \in Kinds, EditedDone(k), RemovedDone(k), CreatedDone(k),
           rows'[k] = rows[k], job'.changes = job.changes,
           \A v \in {"delete", "insert", "create"} : Executed(v, k)' => Executed(v, k)
    PROVE  EditedDone(k)' /\ RemovedDone(k)' /\ CreatedDone(k)'
  BY DEF EditedDone, RemovedDone, CreatedDone

LEMMA AddonsStay ==
    ASSUME AddonsDone, addon' = addon, job'.changes = job.changes,
           Executed("delete", "addon")' => Executed("delete", "addon")
    PROVE  AddonsDone'
  BY DEF AddonsDone

LEMMA DeleteProgress ==
    ASSUME IInv, ApartInv, ProgressInv, NEW l \in Kinds, DeleteRows(l)
    PROVE  /\ \A k \in Kinds : EditedDone(k)' /\ RemovedDone(k)' /\ CreatedDone(k)'
           /\ AddonsDone' /\ InOrder'
<1>1. /\ Executes("delete", l) /\ Advance("delete", l)
      /\ rows' = [rows EXCEPT ![l] = [g \in Guids |->
                     IF Named(job.changes.edited \cup job.changes.removed, l, g)
                     THEN None ELSE @[g]]]
      /\ UNCHANGED addon
  BY DEF DeleteRows
<1>2. job # None /\ job' \in Job /\ job'.changes = job.changes /\ job'.left = Without("delete", l)
  BY <1>1, AdvanceOk DEF Advance, IInv, TypeOK, Job
<1>3. /\ InOrder /\ AddonsDone
      /\ \A k \in Kinds : EditedDone(k) /\ RemovedDone(k) /\ CreatedDone(k)
  BY <1>2 DEF ProgressInv
<1>4. /\ InOrder'
      /\ \A v, p : Executed(v, p)' => Executed(v, p) \/ <<v, p>> = <<"delete", l>>
  BY <1>1, <1>2, <1>3, Advances
<1>5. rows \in [Kinds -> [Guids -> Row \cup {None}]]
  BY DEF IInv, TypeOK
<1>6. ASSUME NEW k \in Kinds PROVE EditedDone(k)' /\ RemovedDone(k)' /\ CreatedDone(k)'
  <2>1. CASE k # l
    <3>1. rows'[k] = rows[k]
      BY <1>1, <1>5, <2>1
    <3>2. \A v \in {"delete", "insert", "create"} : Executed(v, k)' => Executed(v, k)
      BY <1>4, <2>1
    <3> QED
      BY <1>2, <1>3, <3>1, <3>2, KindStays
  <2>2. CASE k = l
    <3>1. EditedDone(k)'
      <4>1. Executed("insert", k)' => Executed("insert", k)
        BY <1>4
      <4> QED
        BY <1>1, <1>2, <1>3, <2>2, <4>1, NotYet DEF EditedDone
    <3>2. CreatedDone(k)'
      <4>1. Executed("create", k)' => Executed("create", k)
        BY <1>4
      <4> QED
        BY <1>1, <1>2, <1>3, <2>2, <4>1, NotYet DEF CreatedDone
    <3>3. RemovedDone(k)'
      <4> SUFFICES ASSUME NEW e \in job.changes.removed, e.kind = k
                   PROVE  rows'[k][e.guid] # e.row
        BY <1>2 DEF RemovedDone
      <4>1. e.guid \in Guids /\ e.row # None
        BY <1>2, JobEntries
      <4>2. Named(job.changes.edited \cup job.changes.removed, k, e.guid)
        BY DEF Named, Names
      <4>3. rows'[k][e.guid] = None
        BY <1>1, <1>5, <2>2, <4>1, <4>2
      <4> QED
        BY <4>1, <4>3
    <3> QED
      BY <3>1, <3>2, <3>3
  <2> QED
    BY <2>1, <2>2
<1>7. AddonsDone'
  <2>1. Executed("delete", "addon")' => Executed("delete", "addon")
    <3>1. <<"delete", "addon">> # <<"delete", l>>
      BY DEF Kinds
    <3> QED
      BY <1>4, <3>1
  <2> QED
    BY <1>1, <1>2, <1>3, <2>1, AddonsStay
<1> QED
  BY <1>4, <1>6, <1>7

LEMMA InsertProgress ==
    ASSUME IInv, ApartInv, ProgressInv, NEW l \in Kinds, InsertRows(l)
    PROVE  /\ \A k \in Kinds : EditedDone(k)' /\ RemovedDone(k)' /\ CreatedDone(k)'
           /\ AddonsDone' /\ InOrder'
<1>1. /\ Executes("insert", l) /\ Advance("insert", l)
      /\ rows' = [rows EXCEPT ![l] = [g \in Guids |->
                     IF Named(job.changes.edited, l, g)
                     THEN RowOf(job.changes.edited, l, g) ELSE @[g]]]
      /\ UNCHANGED addon
  BY DEF InsertRows
<1>2. job # None /\ job' \in Job /\ job'.changes = job.changes /\ job'.left = Without("insert", l)
  BY <1>1, AdvanceOk DEF Advance, IInv, TypeOK, Job
<1>3. /\ InOrder /\ AddonsDone
      /\ \A k \in Kinds : EditedDone(k) /\ RemovedDone(k) /\ CreatedDone(k)
  BY <1>2 DEF ProgressInv
<1>4. /\ InOrder'
      /\ \A v, p : Executed(v, p)' => Executed(v, p) \/ <<v, p>> = <<"insert", l>>
  BY <1>1, <1>2, <1>3, Advances
<1>5. rows \in [Kinds -> [Guids -> Row \cup {None}]]
  BY DEF IInv, TypeOK
<1>6. ASSUME NEW k \in Kinds PROVE EditedDone(k)' /\ RemovedDone(k)' /\ CreatedDone(k)'
  <2>1. CASE k # l
    <3>1. rows'[k] = rows[k]
      BY <1>1, <1>5, <2>1
    <3>2. \A v \in {"delete", "insert", "create"} : Executed(v, k)' => Executed(v, k)
      BY <1>4, <2>1
    <3> QED
      BY <1>2, <1>3, <3>1, <3>2, KindStays
  <2>2. CASE k = l
    <3>1. EditedDone(k)'
      <4> SUFFICES ASSUME NEW e \in job.changes.edited, e.kind = k
                   PROVE  rows'[k][e.guid] = e.row
        BY <1>2 DEF EditedDone
      <4>1. e.guid \in Guids /\ Named(job.changes.edited, k, e.guid)
        BY <1>2, JobEntries DEF Named, Names
      <4>2. rows'[k][e.guid] = RowOf(job.changes.edited, k, e.guid)
        BY <1>1, <1>5, <2>2, <4>1
      <4>3. PICK f \in job.changes.edited :
              f.kind = k /\ f.guid = e.guid /\ RowOf(job.changes.edited, k, e.guid) = f.row
        BY <4>1, RowOfIsThere
      <4>4. f = e
        BY <1>2, <4>3, JobEntries DEF ChangesApart, Apart, Unique
      <4> QED
        BY <4>2, <4>3, <4>4
    <3>2. CreatedDone(k)'
      <4>1. Executed("create", k)' => Executed("create", k)
        BY <1>4
      <4> QED
        BY <1>1, <1>2, <1>3, <2>2, <4>1, NotYet DEF CreatedDone
    <3>3. RemovedDone(k)'
      <4>1. Executed("delete", k)' => Executed("delete", k)
        BY <1>4
      <4> SUFFICES ASSUME Executed("delete", k), NEW e \in job.changes.removed, e.kind = k
                   PROVE  rows'[k][e.guid] # e.row
        BY <1>2, <4>1 DEF RemovedDone
      <4>2. e.guid \in Guids /\ rows[k][e.guid] # e.row
        BY <1>2, <1>3, JobEntries DEF RemovedDone
      <4>3. ~Named(job.changes.edited, k, e.guid)
        BY <1>2, JobEntries DEF ChangesApart, Apart, Unique, Named, Names
      <4> QED
        BY <1>1, <1>5, <2>2, <4>2, <4>3
    <3> QED
      BY <3>1, <3>2, <3>3
  <2> QED
    BY <2>1, <2>2
<1>7. AddonsDone'
  BY <1>1, <1>2, <1>3, <1>4, AddonsStay
<1> QED
  BY <1>4, <1>6, <1>7

LEMMA CreateProgress ==
    ASSUME IInv, ApartInv, ProgressInv, NEW l \in Kinds, CreateRows(l)
    PROVE  /\ \A k \in Kinds : EditedDone(k)' /\ RemovedDone(k)' /\ CreatedDone(k)'
           /\ AddonsDone' /\ InOrder'
<1> DEFINE N(g) == \E e \in CreatedOf(l) : NewGuid(e) = g
<1> DEFINE R(g) == (CHOOSE e \in CreatedOf(l) : NewGuid(e) = g).row
<1>1. /\ Executes("create", l) /\ Advance("create", l)
      /\ \A e \in CreatedOf(l) : NewGuid(e) \in Guids /\ rows[l][NewGuid(e)] = None
      /\ rows' = [rows EXCEPT ![l] = [g \in Guids |-> IF N(g) THEN R(g) ELSE @[g]]]
      /\ UNCHANGED addon
  BY DEF CreateRows
<1>2. job # None /\ job' \in Job /\ job'.changes = job.changes /\ job'.left = Without("create", l)
  BY <1>1, AdvanceOk DEF Advance, IInv, TypeOK, Job
<1>3. /\ InOrder /\ AddonsDone
      /\ \A k \in Kinds : EditedDone(k) /\ RemovedDone(k) /\ CreatedDone(k)
  BY <1>2 DEF ProgressInv
<1>4. /\ InOrder'
      /\ \A v, p : Executed(v, p)' => Executed(v, p) \/ <<v, p>> = <<"create", l>>
  BY <1>1, <1>2, <1>3, Advances
<1>5. rows \in [Kinds -> [Guids -> Row \cup {None}]]
  BY DEF IInv, TypeOK
<1>6. CreatedOf(l) = {e \in job.changes.created : e.kind = l}
  BY DEF CreatedOf
<1>7. \A e \in CreatedOf(l) : N(NewGuid(e)) /\ R(NewGuid(e)) = e.row
  <2> SUFFICES ASSUME NEW e \in CreatedOf(l) PROVE R(NewGuid(e)) = e.row
    OBVIOUS
  <2> DEFINE f == CHOOSE x \in CreatedOf(l) : NewGuid(x) = NewGuid(e)
  <2>1. f \in CreatedOf(l) /\ NewGuid(f) = NewGuid(e)
    OBVIOUS
  <2>2. f = e
    <3> HIDE DEF f
    <3> QED
      BY <1>2, <2>1, NewGuidsApart
  <2> QED
    BY <2>2
<1>8. \A g \in Guids : N(g) => rows[l][g] = None /\ \E e \in CreatedOf(l) : R(g) = e.row
  BY <1>1
<1> HIDE DEF N, R
<1>9. ASSUME NEW k \in Kinds PROVE EditedDone(k)' /\ RemovedDone(k)' /\ CreatedDone(k)'
  <2>1. CASE k # l
    <3>1. rows'[k] = rows[k]
      BY <1>1, <1>5, <2>1
    <3>2. \A v \in {"delete", "insert", "create"} : Executed(v, k)' => Executed(v, k)
      BY <1>4, <2>1
    <3> QED
      BY <1>2, <1>3, <3>1, <3>2, KindStays
  <2>2. CASE k = l
    <3>0. \A g \in Guids : rows'[l][g] = IF N(g) THEN R(g) ELSE rows[l][g]
      BY <1>1, <1>5
    <3>1. EditedDone(k)'
      <4>1. Executed("insert", k)' => Executed("insert", k)
        BY <1>4
      <4> SUFFICES ASSUME Executed("insert", k), NEW e \in job.changes.edited, e.kind = k
                   PROVE  rows'[k][e.guid] = e.row
        BY <1>2, <4>1 DEF EditedDone
      <4>2. e.guid \in Guids /\ rows[k][e.guid] = e.row /\ e.row # None
        BY <1>2, <1>3, JobEntries DEF EditedDone
      <4> QED
        BY <1>8, <2>2, <3>0, <4>2
    <3>2. CreatedDone(k)'
      <4> SUFFICES ASSUME NEW e \in job.changes.created, e.kind = k
                   PROVE  \E g \in Guids : rows'[k][g] = e.row
        BY <1>2 DEF CreatedDone
      <4>1. e \in CreatedOf(l)
        BY <1>6, <2>2
      <4>2. NewGuid(e) \in Guids /\ rows'[l][NewGuid(e)] = e.row
        BY <1>1, <1>7, <3>0, <4>1
      <4> QED
        BY <2>2, <4>2
    <3>3. RemovedDone(k)'
      <4>1. Executed("delete", k)' => Executed("delete", k)
        BY <1>4
      <4> SUFFICES ASSUME Executed("delete", k), NEW e \in job.changes.removed, e.kind = k
                   PROVE  rows'[k][e.guid] # e.row
        BY <1>2, <4>1 DEF RemovedDone
      <4>2. e.guid \in Guids /\ rows[k][e.guid] # e.row
        BY <1>2, <1>3, JobEntries DEF RemovedDone
      <4>3. \A f \in CreatedOf(l) : f.row # e.row
        <5>1. \A f \in job.changes.created : f.row.spawn # e.row.spawn
          BY <1>2, JobEntries DEF ChangesApart
        <5> QED
          BY <1>6, <5>1
      <4> QED
        BY <1>8, <2>2, <3>0, <4>2, <4>3
    <3> QED
      BY <3>1, <3>2, <3>3
  <2> QED
    BY <2>1, <2>2
<1>10. AddonsDone'
  BY <1>1, <1>2, <1>3, <1>4, AddonsStay
<1> QED
  BY <1>4, <1>9, <1>10
LEMMA OtherProgress ==
    ASSUME IInv, ApartInv, ProgressInv,
           DeleteAddons \/ UpsertAddons \/ \E l \in Kinds : Allocate(l)
    PROVE  /\ \A k \in Kinds : EditedDone(k)' /\ RemovedDone(k)' /\ CreatedDone(k)'
           /\ AddonsDone' /\ InOrder'
<1>1. PICK what \in {"allocate", "delete", "upsert"}, of \in Kinds \cup {"addon"} :
         /\ Executes(what, of)
         /\ \/ DeleteAddons /\ what = "delete" /\ of = "addon"
            \/ UpsertAddons /\ what = "upsert" /\ of = "addon"
            \/ of \in Kinds /\ what = "allocate" /\ Allocate(of)
  BY DEF DeleteAddons, UpsertAddons, Allocate
<1>2. job # None /\ job \in Job
  BY <1>1 DEF Executes, IInv, TypeOK
<1>3. job'.changes = job.changes /\ job'.left = Without(what, of) /\ rows' = rows
  BY <1>1, <1>2 DEF DeleteAddons, UpsertAddons, Allocate, Advance, Job, database
<1>4. /\ InOrder /\ AddonsDone
      /\ \A k \in Kinds : EditedDone(k) /\ RemovedDone(k) /\ CreatedDone(k)
  BY <1>2 DEF ProgressInv
<1>5. /\ InOrder'
      /\ \A v, p : Executed(v, p)' => Executed(v, p) \/ <<v, p>> = <<what, of>>
  BY <1>1, <1>3, <1>4, Advances
<1>6. ASSUME NEW k \in Kinds PROVE EditedDone(k)' /\ RemovedDone(k)' /\ CreatedDone(k)'
  <2>1. \A v \in {"delete", "insert", "create"} : <<v, k>> # <<what, of>>
    BY <1>1 DEF Kinds
  <2>2. \A v \in {"delete", "insert", "create"} : Executed(v, k)' => Executed(v, k)
    BY <1>5, <2>1
  <2> QED
    BY <1>3, <1>4, <2>2, KindStays
<1>7. AddonsDone'
  <2>1. CASE DeleteAddons
    <3> SUFFICES ASSUME NEW e \in job.changes.removed, e.kind = "creature"
                 PROVE  addon'[e.guid] = "absent"
      BY <1>3 DEF AddonsDone
    <3>1. e.guid \in Guids /\ Named(job.changes.removed, "creature", e.guid)
      BY <1>2, JobEntries DEF Named, Names
    <3> QED
      BY <2>1, <3>1 DEF DeleteAddons
  <2>2. CASE UpsertAddons /\ what = "upsert"
    <3>1. <<"delete", "addon">> # <<what, of>>
      BY <2>2
    <3>2. Executed("delete", "addon")' => Executed("delete", "addon")
      BY <1>5, <3>1
    <3> SUFFICES ASSUME Executed("delete", "addon"), NEW e \in job.changes.removed,
                        e.kind = "creature"
                 PROVE  addon'[e.guid] = "absent"
      BY <1>3, <3>2 DEF AddonsDone
    <3>3. e.guid \in Guids /\ addon[e.guid] = "absent"
      BY <1>2, <1>4, JobEntries DEF AddonsDone
    <3>4. ~Named({f \in job.changes.edited : f.addon}, "creature", e.guid)
      BY <1>2, JobEntries DEF ChangesApart, Apart, Unique, Named, Names
    <3> QED
      BY <2>2, <3>3, <3>4 DEF UpsertAddons
  <2>3. CASE what = "allocate"
    <3>1. addon' = addon
      BY <1>1, <2>3 DEF Allocate, database
    <3>2. <<"delete", "addon">> # <<what, of>>
      BY <2>3
    <3> QED
      BY <1>3, <1>4, <1>5, <3>1, <3>2, AddonsStay
  <2> QED
    BY <1>1, <2>1, <2>2, <2>3
<1> QED
  BY <1>5, <1>6, <1>7

\* The server adds a spawn where no statement has been.
LEMMA ServerProgress ==
    ASSUME IInv, ApartInv, ProgressInv, job # None,
           NEW r \in Theirs, NEW h \in Guids, ServerAdds(r, h)
    PROVE  \A k \in Kinds : EditedDone(k)' /\ RemovedDone(k)' /\ CreatedDone(k)'
<1>1. /\ h > issued[KindOf[r.spawn]]
      /\ rows' = [rows EXCEPT ![KindOf[r.spawn]][h] = r]
      /\ job' = job
  BY DEF ServerAdds
<1>2. /\ rows \in [Kinds -> [Guids -> Row \cup {None}]]
      /\ \A k \in Kinds, g \in Guids : rows[k][g] # None => g <= issued[k]
      /\ \A k \in Kinds : issued[k] \in Nat
  BY GuidFacts DEF IInv, TypeOK
<1>3. \A k \in Kinds, g \in Guids :
         rows'[k][g] = rows[k][g] \/ (rows[k][g] = None /\ g > issued[k])
  <2> SUFFICES ASSUME NEW k \in Kinds, NEW g \in Guids, rows'[k][g] # rows[k][g]
               PROVE  rows[k][g] = None /\ g > issued[k]
    OBVIOUS
  <2>1. KindOf[r.spawn] = k /\ h = g
    BY <1>1, <1>2
  <2>2. g \in Nat /\ g > issued[k]
    BY <1>1, <2>1, GuidFacts
  <2>3. ~(g <= issued[k])
    BY <1>2, <2>2
  <2> QED
    BY <1>2, <2>2, <2>3
<1>4. ASSUME NEW k \in Kinds PROVE EditedDone(k)' /\ RemovedDone(k)' /\ CreatedDone(k)'
  <2>1. EditedDone(k) /\ RemovedDone(k) /\ CreatedDone(k)
    BY DEF ProgressInv
  <2>2. \A v : Executed(v, k)' = Executed(v, k)
    BY <1>1 DEF Executed
  <2>3. \A e \in job.changes.edited \cup job.changes.removed :
           e.kind = k => rows'[k][e.guid] = rows[k][e.guid]
    <3> SUFFICES ASSUME NEW e \in job.changes.edited \cup job.changes.removed, e.kind = k
                 PROVE  rows'[k][e.guid] = rows[k][e.guid]
      OBVIOUS
    <3>1. e.guid \in Guids /\ e.guid \in Nat /\ e.guid <= issued[k]
      BY JobEntries, GuidFacts
    <3>2. ~(e.guid > issued[k])
      BY <1>2, <3>1
    <3> QED
      BY <1>3, <3>1, <3>2
  <2>4. EditedDone(k)' /\ RemovedDone(k)'
    BY <1>1, <2>1, <2>2, <2>3 DEF EditedDone, RemovedDone
  <2>5. CreatedDone(k)'
    <3> SUFFICES ASSUME Executed("create", k), NEW e \in job.changes.created, e.kind = k
                 PROVE  \E g \in Guids : rows'[k][g] = e.row
      BY <1>1, <2>2 DEF CreatedDone
    <3>1. PICK g \in Guids : rows[k][g] = e.row
      BY <2>1 DEF CreatedDone
    <3>2. e.row # None
      BY JobEntries
    <3> QED
      BY <1>3, <3>1, <3>2
  <2> QED
    BY <2>4, <2>5
<1> QED
  BY <1>4

\* A written changeset stays written, and whole if it was.
LEMMA SourceStays ==
    ASSUME IInv, job.byHand, JobSource, job' = job, UNCHANGED files \/ WriteChangeset
    PROVE  JobSource'
<1>1. PICK i \in DOMAIN files : files[i].whole /\ files[i].changes = job.changes
  BY DEF JobSource
<1>2. i \in DOMAIN files' /\ files'[i] = files[i]
  BY <1>1, WrittenNext
<1> QED
  BY <1>1, <1>2 DEF JobSource

LEMMA ProgressStep == IInv /\ ApartInv /\ ProgressInv /\ [Next]_vars => ProgressInv'
<1> SUFFICES ASSUME IInv, ApartInv, ProgressInv, [Next]_vars, job' # None
             PROVE  /\ InOrder'
                    /\ \A k \in Kinds : EditedDone(k)' /\ RemovedDone(k)' /\ CreatedDone(k)'
                    /\ AddonsDone'
                    /\ JobSource'
  BY DEF ProgressInv
<1>1. CASE SaveApply
  <2>1. StartJob(Staged, FALSE) /\ Staged' = Staged
    BY <1>1 DEF SaveApply, editor, Staged
  <2>2. JobSource'
    BY <2>1, JobBegins DEF JobSource
  <2> QED
    BY <2>1, <2>2, JobBegins
<1>2. CASE ApplyByHand
  <2>1. /\ files # <<>> /\ files[Len(files)].whole /\ files' = files
        /\ StartJob(files[Len(files)].changes, TRUE)
    BY <1>2 DEF ApplyByHand
  <2>2. Len(files) \in DOMAIN files
    <3> DEFINE F == [changes : Changeset, whole : BOOLEAN]
    <3>1. files \in Seq(F)
      BY DEF IInv, TypeOK
    <3> HIDE DEF F
    <3>2. Len(files) \in Nat \ {0} /\ DOMAIN files = 1..Len(files)
      BY <2>1, <3>1, EmptySeq, LenProperties
    <3> QED
      BY <3>2
  <2>3. JobSource'
    BY <2>1, <2>2, JobBegins DEF JobSource
  <2> QED
    BY <2>1, <2>3, JobBegins
<1>3. CASE Statement
  <2>1. /\ InOrder' /\ AddonsDone'
        /\ \A k \in Kinds : EditedDone(k)' /\ RemovedDone(k)' /\ CreatedDone(k)'
    BY <1>3, DeleteProgress, InsertProgress, CreateProgress, OtherProgress DEF Statement
  <2>2. UNCHANGED <<editor, files>>
    BY <1>3 DEF Statement, Allocate, DeleteRows, InsertRows, CreateRows, DeleteAddons, UpsertAddons
  <2>3. job # None /\ job \in Job
    BY <1>3 DEF Statement, Allocate, DeleteRows, InsertRows, CreateRows, DeleteAddons,
                UpsertAddons, Executes, IInv, TypeOK
  <2>4. job'.changes = job.changes /\ job'.byHand = job.byHand
    BY <1>3, <2>3 DEF Statement, Allocate, DeleteRows, InsertRows, CreateRows, DeleteAddons,
                      UpsertAddons, Advance, Job
  <2>5. JobSource
    BY <2>3 DEF ProgressInv
  <2>6. JobSource'
    BY <2>2, <2>4, <2>5 DEF JobSource, Staged, editor
  <2> QED
    BY <2>1, <2>6
<1>4. CASE \E r \in Theirs, g \in Guids : ServerAdds(r, g)
  <2>1. UNCHANGED <<addon, editor, files, job>>
    BY <1>4 DEF ServerAdds
  <2>2. \A k \in Kinds : EditedDone(k)' /\ RemovedDone(k)' /\ CreatedDone(k)'
    BY <1>4, <2>1, ServerProgress
  <2>3. InOrder /\ AddonsDone /\ JobSource
    BY <2>1 DEF ProgressInv
  <2>4. InOrder' /\ AddonsDone' /\ JobSource'
    BY <2>1, <2>3 DEF InOrder, AddonsDone, Executed, JobSource, Staged, editor
  <2> QED
    BY <2>2, <2>4
<1>5. CASE Stage \/ SaveFile \/ UNCHANGED vars
  <2>1. UNCHANGED <<database, job>> /\ (UNCHANGED files \/ WriteChangeset)
    BY <1>5 DEF Stage, Load, Move, Remove, Place, Discard, Leave, SaveFile, vars
  <2>2. /\ InOrder /\ AddonsDone /\ JobSource
        /\ \A k \in Kinds : EditedDone(k) /\ RemovedDone(k) /\ CreatedDone(k)
    BY <2>1 DEF ProgressInv
  <2>3. /\ InOrder' /\ AddonsDone'
        /\ \A k \in Kinds : EditedDone(k)' /\ RemovedDone(k)' /\ CreatedDone(k)'
    BY <2>1, <2>2 DEF InOrder, AddonsDone, EditedDone, RemovedDone, CreatedDone, Executed, database
  <2>4. CASE job.byHand
    BY <2>1, <2>2, <2>3, <2>4, SourceStays
  <2>5. CASE ~job.byHand
    <3>1. UNCHANGED <<editor, files>>
      BY <1>5, <2>1, <2>5 DEF Stage, Load, Move, Remove, Place, Discard, Leave, SaveFile,
                              WriteChangeset, EditorFree, vars
    <3> QED
      BY <2>1, <2>2, <2>3, <3>1 DEF JobSource, Staged, editor
  <2> QED
    BY <2>3, <2>4, <2>5
<1>6. CASE Fail \/ Succeed
  BY <1>6 DEF Fail, Succeed
<1> QED
  BY <1>1, <1>2, <1>3, <1>4, <1>5, <1>6 DEF Next

LEMMA FullInvariant == Spec => [](IInv /\ ApartInv /\ ProgressInv)
<1>1. Init => ProgressInv
  BY DEF Init, ProgressInv
<1> QED
  BY <1>1, Initially, Consecution, InitApart, ApartStep, ProgressStep, PTL DEF Spec

\* A changeset whose last statement was executed is in the database: a
\* statement only counts on those before it, and what one has done no later one
\* undoes, nor the server.
LEMMA DoneIsComplete ==
    ASSUME IInv, ProgressInv, job # None, job.left = {}
    PROVE  /\ \A e \in job.changes.edited : rows[e.kind][e.guid] = e.row
           /\ \A e \in job.changes.removed :
                 /\ rows[e.kind][e.guid] # e.row
                 /\ e.kind = "creature" => addon[e.guid] = "absent"
           /\ \A e \in job.changes.created : \E g \in Guids : rows[e.kind][g] = e.row
<1>1. \A v, p : Executed(v, p)
  BY DEF Executed
<1>2. /\ \A k \in Kinds : EditedDone(k) /\ RemovedDone(k) /\ CreatedDone(k)
      /\ AddonsDone
  BY DEF ProgressInv
<1>3. \A e \in job.changes.edited \cup job.changes.removed \cup job.changes.created :
         e.kind \in Kinds
  BY EntriesOfJob DEF Entry
<1> QED
  BY <1>1, <1>2, <1>3 DEF EditedDone, RemovedDone, CreatedDone, AddonsDone

\* When the last statement of a changeset has been executed all of it is in the
\* database, whatever was applied of it before and what the server added.
THEOREM AppliedInFull == Spec => []AppliedIsComplete
<1>1. IInv /\ ProgressInv => AppliedIsComplete
  BY DoneIsComplete DEF AppliedIsComplete
<1> QED
  BY <1>1, FullInvariant, PTL

-----------------------------------------------------------------------------
\* What a step of a job may do

LEMMA GoalStays ==
    ASSUME IInv, ApartInv, job # None, Statement, job.changes.created = {}
    PROVE  /\ RowsGoal(job.changes, rows') = RowsGoal(job.changes, rows)
           /\ AddonsGoal(job.changes, addon') = AddonsGoal(job.changes, addon)
<1> DEFINE c == job.changes
<1> DEFINE Edited(k, g) == Named(c.edited, k, g)
<1> DEFINE Removed(k, g) == Named(c.removed, k, g)
<1> DEFINE Carried(g) == Named({e \in c.edited : e.addon}, "creature", g)
<1>1. rows \in [Kinds -> [Guids -> Row \cup {None}]] /\ addon \in [Guids -> Addons]
  BY DEF IInv, TypeOK
<1>2. \A k \in Kinds, g \in Guids :
         Named(c.edited \cup c.removed, k, g) => Edited(k, g) \/ Removed(k, g)
  BY DEF Named
<1>3. \A k \in Kinds, g \in Guids :
         rows'[k][g] = rows[k][g] \/ Edited(k, g) \/ Removed(k, g)
  <2>1. ASSUME NEW l \in Kinds, DeleteRows(l), NEW k \in Kinds, NEW g \in Guids
        PROVE  rows'[k][g] = rows[k][g] \/ Edited(k, g) \/ Removed(k, g)
    <3>1. rows'[k][g] = rows[k][g] \/ Named(c.edited \cup c.removed, k, g)
      BY <1>1, <2>1 DEF DeleteRows
    <3> QED
      BY <1>2, <3>1
  <2>2. ASSUME NEW l \in Kinds, InsertRows(l), NEW k \in Kinds, NEW g \in Guids
        PROVE  rows'[k][g] = rows[k][g] \/ Edited(k, g)
    BY <1>1, <2>2 DEF InsertRows
  <2>3. ASSUME NEW l \in Kinds, CreateRows(l), NEW k \in Kinds, NEW g \in Guids
        PROVE  rows'[k][g] = rows[k][g]
    <3>1. CreatedOf(l) = {}
      BY DEF CreatedOf
    <3> QED
      BY <1>1, <2>3, <3>1 DEF CreateRows
  <2>4. \/ UNCHANGED rows
        \/ \E k \in Kinds : DeleteRows(k) \/ InsertRows(k) \/ CreateRows(k)
    BY DEF Statement, Allocate, DeleteAddons, UpsertAddons, database
  <2> QED
    BY <2>1, <2>2, <2>3, <2>4
<1>4. RowsGoal(c, rows') = RowsGoal(c, rows)
  <2> HIDE DEF c
  <2> QED
    BY <1>3 DEF RowsGoal
<1>5. \A g \in Guids : ~(Carried(g) /\ Removed("creature", g))
  BY JobEntries DEF ChangesApart, Apart, Unique, Named, Names
<1>6. \A g \in Guids : \/ addon'[g] = addon[g]
                       \/ Removed("creature", g) /\ addon'[g] = "absent"
                       \/ Carried(g) /\ addon[g] = "absent" /\ addon'[g] = "default"
  <2>1. CASE DeleteAddons
    BY <1>1, <2>1 DEF DeleteAddons
  <2>2. CASE UpsertAddons
    BY <1>1, <2>2 DEF UpsertAddons
  <2>3. UNCHANGED addon \/ DeleteAddons \/ UpsertAddons
    BY DEF Statement, Allocate, DeleteRows, InsertRows, CreateRows, database
  <2> QED
    BY <2>1, <2>2, <2>3
<1>7. AddonsGoal(c, addon') = AddonsGoal(c, addon)
  <2> DEFINE G(a, g) == IF Carried(g) /\ a[g] = "absent" THEN "default"
                        ELSE IF Removed("creature", g) THEN "absent" ELSE a[g]
  <2>1. \A g \in Guids : G(addon', g) = G(addon, g)
    <3> HIDE DEF Carried, Removed
    <3> QED
      BY <1>5, <1>6
  <2>2. /\ AddonsGoal(c, addon') = [g \in Guids |-> G(addon', g)]
        /\ AddonsGoal(c, addon) = [g \in Guids |-> G(addon, g)]
    BY DEF AddonsGoal
  <2> HIDE DEF G, c, Carried, Removed
  <2> QED
    BY <2>1, <2>2
<1> QED
  BY <1>4, <1>7

\* A changeset that creates nothing may be applied again after any part of it:
\* no statement changes what the whole of it leads to.
THEOREM AppliedAgain == Spec => Reapplicable
<1>1. IInv /\ ApartInv /\ [Next]_vars =>
        [job # None /\ Statement /\ job.changes.created = {} =>
            /\ RowsGoal(job.changes, rows') = RowsGoal(job.changes, rows)
            /\ AddonsGoal(job.changes, addon') = AddonsGoal(job.changes, addon)]_vars
  BY GoalStays
<1> QED
  BY <1>1, FullInvariant, PTL DEF Spec, Reapplicable

\* Where a spawn is kept, step by step.
IsRow(s) == \E k \in Kinds, g \in Guids : rows[k][g] # None /\ rows[k][g].spawn = s
IsFiled(s) == \E f \in Range(files) : f.whole /\
                 \E e \in f.changes.edited \cup f.changes.created : e.row.spawn = s

LEMMA FiledStays ==
    ASSUME IInv, UNCHANGED files \/ WriteChangeset, NEW s, IsFiled(s)
    PROVE  IsFiled(s)'
<1>1. PICK i \in DOMAIN files :
        /\ files[i].whole
        /\ \E e \in files[i].changes.edited \cup files[i].changes.created : e.row.spawn = s
  BY DEF IsFiled, Range
<1>2. i \in DOMAIN files' /\ files'[i] = files[i]
  BY WrittenNext
<1>3. files'[i] \in Range(files')
  BY <1>2 DEF Range
<1> QED
  BY <1>1, <1>2, <1>3 DEF IsFiled

\* A row goes only with a statement that deletes it.
LEMMA RowStays ==
    ASSUME IInv, ProgressInv, [Next]_vars, NEW s, IsRow(s)
    PROVE  IsRow(s)' \/ IsKept(s)' \/ GivenUp(s)
<1>1. PICK k \in Kinds, g \in Guids : rows[k][g] # None /\ rows[k][g].spawn = s
  BY DEF IsRow
<1>2. /\ rows \in [Kinds -> [Guids -> Row \cup {None}]]
      /\ g <= issued[k] /\ issued[k] \in Nat /\ g \in Nat
  BY <1>1, GuidFacts DEF IInv, TypeOK
<1> SUFFICES ASSUME rows'[k][g] # rows[k][g] PROVE IsKept(s)' \/ GivenUp(s)
  BY <1>1 DEF IsRow
<1>3. PICK l \in Kinds : \/ DeleteRows(l) \/ InsertRows(l) \/ CreateRows(l)
                        \/ \E r \in Theirs, h \in Guids : ServerAdds(r, h)
  <2>1. rows' # rows
    OBVIOUS
  <2> QED
    BY <2>1 DEF Next, Stage, Statement, Load, Move, Remove, Place, Discard, Leave, SaveFile,
              SaveApply, ApplyByHand, Allocate, DeleteAddons, UpsertAddons, Fail, Succeed,
              vars, database
<1>4. CASE DeleteRows(l)
  <2>1. job # None /\ UNCHANGED <<scene, files>>
    BY <1>4 DEF DeleteRows, Executes, editor
  <2>2. Named(job.changes.edited \cup job.changes.removed, k, g)
    BY <1>2, <1>4 DEF DeleteRows
  <2>3. PICK e \in job.changes.edited \cup job.changes.removed : e.kind = k /\ e.guid = g
    BY <2>2 DEF Named, Names
  <2>4. CASE e.row.spawn # s
    BY <1>1, <2>1, <2>3, <2>4 DEF GivenUp, IsStale
  <2>5. CASE e.row.spawn = s /\ e \in job.changes.removed
    BY <2>1, <2>5 DEF GivenUp
  <2>6. CASE e.row.spawn = s /\ e \in job.changes.edited
    <3>1. JobSource
      BY <2>1 DEF ProgressInv
    <3>2. CASE job.byHand
      <4>1. PICK i \in DOMAIN files : files[i].whole /\ files[i].changes = job.changes
        BY <3>1, <3>2 DEF JobSource
      <4>2. files[i] \in Range(files')
        BY <2>1, <4>1 DEF Range
      <4> QED
        BY <2>1, <2>6, <4>1, <4>2 DEF IsKept
    <3>3. CASE ~job.byHand
      <4>1. e \in scene' /\ e.dirty
        BY <2>1, <2>6, <3>1, <3>3 DEF JobSource, Staged, DirtyOf
      <4> QED
        BY <2>6, <4>1 DEF IsKept, IsStaged
    <3> QED
      BY <3>2, <3>3
  <2> QED
    BY <2>3, <2>4, <2>5, <2>6
<1>5. CASE InsertRows(l)
  <2>1. l = k /\ Named(job.changes.edited, k, g)
    BY <1>2, <1>5 DEF InsertRows
  <2> QED
    BY <1>1, <1>5, <2>1 DEF InsertRows, Named, Names
<1>6. CASE CreateRows(l)
  <2>1. l = k /\ \E e \in CreatedOf(k) : NewGuid(e) = g
    BY <1>2, <1>6 DEF CreateRows
  <2> QED
    BY <1>1, <1>6, <2>1 DEF CreateRows
<1>7. CASE \E r \in Theirs, h \in Guids : ServerAdds(r, h)
  <2>1. g > issued[k]
    BY <1>2, <1>7 DEF ServerAdds
  <2> QED
    BY <1>2, <2>1
<1> QED
  BY <1>3, <1>4, <1>5, <1>6, <1>7

\* What is staged is given up, or written, or applied to the end.
LEMMA StagedStays ==
    ASSUME IInv, ProgressInv, [Next]_vars, NEW s, IsStaged(s)
    PROVE  IsStaged(s)' \/ IsRow(s)' \/ IsFiled(s)' \/ GivenUp(s)
<1>1. PICK e \in scene : (e.dirty \/ e.new) /\ e.row.spawn = s
  BY DEF IsStaged
<1>2. e \in Entry
  BY EntriesOk
<1>3. e \in Staged.edited \cup Staged.created
  BY <1>1 DEF Staged, DirtyOf
<1>4. ASSUME NEW f \in scene, NEW p \in Places, Move(f, p) PROVE IsStaged(s)'
  <2> DEFINE n == [f EXCEPT !.row.at = p, !.dirty = TRUE]
  <2>1. scene' = (scene \ {f}) \cup {n}
    BY <1>4 DEF Move, Replace
  <2>2. n.dirty /\ n.row.spawn = f.row.spawn
    BY EntriesOk DEF Entry, Row
  <2> HIDE DEF n
  <2> QED
    BY <1>1, <2>1, <2>2 DEF IsStaged
<1>5. ASSUME NEW f \in scene, Remove(f) PROVE IsStaged(s)' \/ GivenUp(s)
  <2>1. scene' = scene \ {f}
    BY <1>5 DEF Remove
  <2>2. CASE f = e
    BY <1>1, <1>5, <2>2 DEF GivenUp
  <2>3. CASE f # e
    BY <1>1, <2>1, <2>3 DEF IsStaged
  <2> QED
    BY <2>2, <2>3
<1>6. ASSUME NEW r \in Placeable, Place(r) PROVE IsStaged(s)'
  <2>1. scene \subseteq scene'
    BY <1>6 DEF Place
  <2> QED
    BY <1>1, <2>1 DEF IsStaged
<1>7. CASE SaveFile
  <2>1. CASE files'[Len(files')].whole
    <3>1. /\ files'[Len(files')].changes = Staged
          /\ files'[Len(files')] \in Range(files')
      BY <1>7, WrittenNext DEF SaveFile, Range
    <3> QED
      BY <1>1, <1>3, <2>1, <3>1 DEF IsFiled
  <2> QED
    BY <1>7, <2>1 DEF GivenUp
<1>8. CASE Succeed
  <2>1. CASE job.byHand
    BY <1>1, <1>8, <2>1 DEF Succeed, IsStaged
  <2>2. CASE ~job.byHand
    <3>1. job # None /\ job.left = {} /\ rows' = rows
      BY <1>8 DEF Succeed, database
    <3>2. job.changes = Staged
      BY <2>2, <3>1 DEF ProgressInv, JobSource
    <3>3. \E g \in Guids : rows[e.kind][g] = e.row
      BY <1>2, <1>3, <3>1, <3>2, DoneIsComplete DEF Entry
    <3>4. e.kind \in Kinds /\ e.row # None
      BY <1>2, NoneAssumption DEF Entry
    <3> QED
      BY <1>1, <3>1, <3>3, <3>4 DEF IsRow
  <2> QED
    BY <2>1, <2>2
<1>9. \/ \E S \in SUBSET Tiles : Load(S)
      \/ \E f \in scene : (\E p \in Places : Move(f, p)) \/ Remove(f)
      \/ \E r \in Placeable : Place(r)
      \/ Discard \/ Leave \/ SaveFile \/ Succeed
      \/ UNCHANGED scene
  BY DEF Next, Stage, SaveApply, ApplyByHand, Statement, Allocate, DeleteRows, InsertRows,
         CreateRows, DeleteAddons, UpsertAddons, Fail, ServerAdds, vars, editor
<1>10. CASE (\E S \in SUBSET Tiles : Load(S)) \/ Discard \/ Leave
  BY <1>10 DEF GivenUp
<1>11. CASE UNCHANGED scene
  BY <1>1, <1>11 DEF IsStaged
<1> QED
  BY <1>4, <1>5, <1>6, <1>7, <1>8, <1>9, <1>10, <1>11

\* A spawn is in the database, staged, or in a changeset on disk until it is
\* given up: a job that fails half-way loses nothing.
THEOREM NoSpawnIsLost == Spec => NothingIsLost
<1>1. IInv /\ ProgressInv /\ [Next]_vars =>
        [\A s \in Spawns : IsKept(s) => IsKept(s)' \/ GivenUp(s)]_vars
  <2> SUFFICES ASSUME IInv, ProgressInv, [Next]_vars, NEW s \in Spawns, IsKept(s)
               PROVE  IsKept(s)' \/ GivenUp(s)
    OBVIOUS
  <2>1. IsKept(s) <=> IsStaged(s) \/ IsRow(s) \/ IsFiled(s)
    BY DEF IsKept, IsRow, IsFiled
  <2>2. IsKept(s)' <=> IsStaged(s)' \/ IsRow(s)' \/ IsFiled(s)'
    BY DEF IsKept, IsRow, IsFiled
  <2>3. UNCHANGED files \/ WriteChangeset
    BY DEF Next, Stage, Statement, Load, Move, Remove, Place, Discard, Leave, SaveFile,
           SaveApply, ApplyByHand, Allocate, DeleteRows, InsertRows, CreateRows, DeleteAddons,
           UpsertAddons, Fail, Succeed, ServerAdds, vars
  <2> QED
    BY <2>1, <2>2, <2>3, FiledStays, RowStays, StagedStays
<1> QED
  BY <1>1, FullInvariant, PTL DEF Spec, NothingIsLost
=============================================================================
