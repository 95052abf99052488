---------------------------- MODULE SpawnStaging ----------------------------
(***************************************************************************)
(* Spawns of the world database that are edited in the view: what the      *)
(* editor has staged (SpawnSceneCache.cpp), the changesets it writes       *)
(* (ChangesetBuilder.cpp, MapView.cpp), and the database they are applied  *)
(* to, statement by statement and without a transaction                    *)
(* (WorldDatabaseConnection.cpp), by the editor or by hand.                *)
(*                                                                         *)
(* A row is named by its table and its guid; the two tables count their    *)
(* guids separately.  A spawn the user places has no guid before it is     *)
(* written: until then it goes by a provisional one, from a range the      *)
(* tables are not expected to reach, which must never get into a           *)
(* changeset.  Meanwhile the game server adds spawns of its own.           *)
(***************************************************************************)
EXTENDS Naturals, Sequences, FiniteSets, Functions

CONSTANTS
    Spawns,       \* what a spawn is: its template and the other columns
    KindOf,       \* per spawn, the table it belongs to
    Theirs,       \* the rows the server may add
    Placeable,    \* the rows the user may place, and move from there
    Places,       \* position and orientation
    TileOf,       \* per place, the tile it is on
    Tiles,        \* the tiles that may be loaded
    FirstRows,    \* the spawns the database starts with
    FirstAddons,  \* the guids of creatures with a row in creature_addon
    Base,         \* PROVISIONAL_GUID_BASE
    MaxGuid,      \* bound: highest guid of either kind, 2^32 - 1 in the code
    MaxSaves,     \* bound: changesets written
    None

Kinds == {"creature", "gameobject"}
Guids == 1..MaxGuid
Provisional == Base..MaxGuid
Row == [spawn : Spawns, at : Places]
Entry == [kind : Kinds, guid : Guids, row : Row, addon : BOOLEAN,
          dirty : BOOLEAN, new : BOOLEAN]
Placed == {r.spawn : r \in Placeable}
Changeset == [edited : SUBSET Entry, created : SUBSET Entry, removed : SUBSET Entry]

ASSUME GuidsAssumption == MaxGuid \in Nat /\ Base \in Guids /\ MaxSaves \in Nat
ASSUME SpawnsAssumption ==
    /\ KindOf \in [Spawns -> Kinds]
    /\ Theirs \subseteq Row /\ Placeable \subseteq Row
    /\ \A r, t \in Theirs \cup Placeable : r.spawn = t.spawn => r = t
    /\ Theirs \cap Placeable = {}
ASSUME RowsAssumption ==
    /\ DOMAIN TileOf = Places
    /\ FirstRows \subseteq {e \in Entry : ~e.dirty /\ ~e.new}
    /\ \A e, f \in FirstRows : e.kind = f.kind /\ e.guid = f.guid => e = f
    /\ \A e \in FirstRows : /\ e.kind = KindOf[e.row.spawn]
                            /\ \A r \in Theirs \cup Placeable : r.spawn # e.row.spawn
    /\ FirstAddons \subseteq Guids
ASSUME NoneAssumption == None \notin Row

VARIABLES
    rows,    \* the tables creature and gameobject: per guid the row, or None
    addon,   \* the table creature_addon, per guid
    issued,  \* per kind, the highest guid the table has ever had
    scene,   \* SpawnSceneCache::_tiles, the entries of all tiles
    removed, \* SpawnSceneCache::_removed
    next,    \* _next_provisional_guid
    files,   \* the changesets written, oldest first, and if their files are whole
    job,     \* the changeset that is being applied, or None
    used     \* rows the user or the server has added already

editor == <<scene, removed, next>>
database == <<rows, addon, issued>>
vars == <<database, editor, files, job, used>>

\* A row of creature_addon has a pose that somebody authored, or the default
\* one it is inserted with.
Addons == {"absent", "default", "authored"}

Names(e, k, g) == e.kind = k /\ e.guid = g
Named(S, k, g) == \E e \in S : Names(e, k, g)
RowOf(S, k, g) == (CHOOSE e \in S : Names(e, k, g)).row

\* The one highest guid of a table, 0 when it is empty.
Highest(t) ==
    {m \in {0} \cup {g \in Guids : t[g] # None} : \A g \in Guids : t[g] # None => g <= m}

Init ==
    /\ rows = [k \in Kinds |-> [g \in Guids |->
                  IF Named(FirstRows, k, g) THEN RowOf(FirstRows, k, g) ELSE None]]
    /\ addon = [g \in Guids |-> IF g \in FirstAddons THEN "authored" ELSE "absent"]
    /\ issued \in [Kinds -> 0..MaxGuid]
    /\ \A k \in Kinds : issued[k] \in Highest(rows[k])
    /\ scene = {} /\ removed = {} /\ next = Base
    /\ files = <<>> /\ job = None /\ used = {}

-----------------------------------------------------------------------------
\* Staging edits in the view.  While the editor applies a changeset itself it
\* does nothing else.

EditorFree == job # None => job.byHand

EntryOf(k, g) ==
    [kind |-> k, guid |-> g, row |-> rows[k][g],
     addon |-> k = "creature" /\ addon[g] # "absent", dirty |-> FALSE, new |-> FALSE]

\* loadDatabaseSpawnsForTiles: what was staged is thrown away, which the user
\* has agreed to.
Load(S) ==
    /\ EditorFree
    /\ scene' = {EntryOf(n[1], n[2]) : n \in {x \in Kinds \X Guids :
                   /\ rows[x[1]][x[2]] # None
                   /\ TileOf[rows[x[1]][x[2]].at] \in S}}
    /\ removed' = {}
    /\ UNCHANGED <<database, next, files, job, used>>

Replace(e, f) == scene' = (scene \ {e}) \cup {f}

\* moveTo and rotateTo, to a place that is in the view.
Move(e, p) ==
    /\ EditorFree
    /\ e \in scene /\ p # e.row.at /\ TileOf[p] \in Tiles
    /\ Replace(e, [e EXCEPT !.row.at = p, !.dirty = TRUE])
    /\ UNCHANGED <<database, removed, next, files, job, used>>

\* nextProvisionalGuid: the first guid from the counter on, back at Base after
\* the last, that no entry has and no entry that may be put back.
IsTaken(g) == \E e \in scene \cup removed : e.guid = g
Distance(g) == IF g >= next THEN g - next ELSE g + MaxGuid + 1 - Base - next

FirstFreeUnscanned == {next}  \* mutant: the counter alone
FirstFree ==
    {g \in Provisional : ~IsTaken(g) /\ \A h \in Provisional :
                             ~IsTaken(h) => Distance(g) <= Distance(h)}

\* addCreature and addGameObject, for a template whose model resolves.
Place(r) ==
    /\ EditorFree
    /\ r \in Placeable \ used
    /\ \E g \in FirstFree :
         /\ scene' = scene \cup {[kind |-> KindOf[r.spawn], guid |-> g, row |-> r,
                                  addon |-> FALSE, dirty |-> FALSE, new |-> TRUE]}
         /\ next' = IF g = MaxGuid THEN Base ELSE g + 1
    /\ used' = used \cup {r}
    /\ UNCHANGED <<database, removed, files, job>>

\* remove: a tombstone for a spawn of the database, nothing for a placed one.
Remove(e) ==
    /\ EditorFree
    /\ e \in scene
    /\ scene' = scene \ {e}
    /\ removed' = IF e.new THEN removed ELSE removed \cup {e}
    /\ UNCHANGED <<database, next, files, job, used>>

Accepted(S) == {[e EXCEPT !.dirty = FALSE] : e \in {x \in S : ~x.new}}

\* discardPending: the deleted spawns come back, the placed ones go, and the
\* moved ones stay where they were moved to.
Discard ==
    /\ EditorFree
    /\ scene' = Accepted(scene \cup removed)
    /\ removed' = {}
    /\ UNCHANGED <<database, next, files, job, used>>

\* clearPending: the placed spawns go, since their guids are not known.
ClearPending == scene' = Accepted(scene) /\ removed' = {}

\* The view is left without a question, and with it the cache goes.
Leave ==
    /\ EditorFree
    /\ scene' = {} /\ removed' = {} /\ next' = Base
    /\ UNCHANGED <<database, files, job, used>>

-----------------------------------------------------------------------------
\* Writing changesets

DirtyOfAll(S) == {e \in S : e.dirty}  \* mutant: a placed spawn that was moved is an edit
DirtyOf(S) == {e \in S : e.dirty /\ ~e.new}
Staged == [edited |-> DirtyOf(scene), created |-> {e \in scene : e.new}, removed |-> removed]
NothingStaged == [edited |-> {}, created |-> {}, removed |-> {}]

\* build and the file it is written to.  That the file could be opened is
\* looked at, whether the write succeeded is not.
WriteChangeset ==
    /\ EditorFree
    /\ Staged # NothingStaged
    /\ Len(files) < MaxSaves
    /\ \E ok \in BOOLEAN : files' = Append(files, [changes |-> Staged, whole |-> ok])

\* The statements build emits, in their order; one that has nothing to do is
\* left out.
Statements == <<
    <<"allocate", "creature">>, <<"allocate", "gameobject">>,
    <<"delete", "creature">>, <<"insert", "creature">>, <<"create", "creature">>,
    <<"delete", "addon">>, <<"upsert", "addon">>,
    <<"delete", "gameobject">>, <<"insert", "gameobject">>, <<"create", "gameobject">> >>
Emits(c, what, of) ==
    CASE what \in {"allocate", "create"} -> \E e \in c.created : e.kind = of
      [] what = "delete" /\ of \in Kinds -> \E e \in c.edited \cup c.removed : e.kind = of
      [] what = "insert" -> \E e \in c.edited : e.kind = of
      [] what = "delete" /\ of = "addon" -> \E e \in c.removed : e.kind = "creature"
      [] what = "upsert" -> \E e \in c.edited : e.addon
Script(c) == {i \in DOMAIN Statements : Emits(c, Statements[i][1], Statements[i][2])}

StartJob(c, byHand) ==
    job' = [changes |-> c, left |-> Script(c), top |-> [k \in Kinds |-> 0], byHand |-> byHand]

\* saveDatabaseChanges, into a file ...
SaveFile ==
    /\ WriteChangeset
    /\ ClearPending
    /\ UNCHANGED <<database, next, job, used>>

\* ... and then into the database, when that is asked for.
SaveApply ==
    /\ WriteChangeset
    /\ job = None /\ StartJob(Staged, FALSE)
    /\ UNCHANGED <<database, editor, used>>

\* The last changeset is applied by hand, as its header says.
ApplyByHand ==
    /\ job = None /\ files # <<>> /\ files[Len(files)].whole
    /\ StartJob(files[Len(files)].changes, TRUE)
    /\ UNCHANGED <<database, editor, files, used>>

-----------------------------------------------------------------------------
\* Applying a changeset

\* execute of the next statement; each is committed by itself.
Executes(what, of) ==
    /\ job # None
    /\ \E i \in job.left : (\A j \in job.left : i <= j) /\ Statements[i] = <<what, of>>
Without(what, of) == {i \in job.left : Statements[i] # <<what, of>>}
Advance(what, of) == job' = [job EXCEPT !.left = Without(what, of)]

Allocate(k) ==
    /\ Executes("allocate", k)
    /\ \E m \in Highest(rows[k]) :
         job' = [job EXCEPT !.left = Without("allocate", k), !.top[k] = m]
    /\ UNCHANGED <<database, editor, files, used>>

DeleteEditedOnly(k) ==  \* mutant: the removed spawns are not deleted
    /\ Executes("delete", k)
    /\ rows' = [rows EXCEPT ![k] = [g \in Guids |->
                   IF Named(job.changes.edited, k, g) THEN None ELSE @[g]]]
    /\ Advance("delete", k)
    /\ UNCHANGED <<addon, issued, editor, files, used>>

DeleteRows(k) ==
    /\ Executes("delete", k)
    /\ rows' = [rows EXCEPT ![k] = [g \in Guids |->
                   IF Named(job.changes.edited \cup job.changes.removed, k, g)
                   THEN None ELSE @[g]]]
    /\ Advance("delete", k)
    /\ UNCHANGED <<addon, issued, editor, files, used>>

\* A row that has its guid already fails the statement.
InsertRows(k) ==
    /\ Executes("insert", k)
    /\ \A e \in job.changes.edited : e.kind = k => rows[k][e.guid] = None
    /\ rows' = [rows EXCEPT ![k] = [g \in Guids |->
                   IF Named(job.changes.edited, k, g)
                   THEN RowOf(job.changes.edited, k, g) ELSE @[g]]]
    /\ Advance("insert", k)
    /\ UNCHANGED <<addon, issued, editor, files, used>>

\* The placed spawns get the guids above the highest, in the order they were
\* placed in.
CreatedOf(k) == {e \in job.changes.created : e.kind = k}
NewGuid(e) ==
    job.top[e.kind] + Cardinality({f \in CreatedOf(e.kind) : f.guid <= e.guid})

\* A guid that is taken already fails the statement.
CreateRows(k) ==
    /\ Executes("create", k)
    /\ \A e \in CreatedOf(k) : NewGuid(e) \in Guids /\ rows[k][NewGuid(e)] = None
    /\ rows' = [rows EXCEPT ![k] = [g \in Guids |->
                   IF \E e \in CreatedOf(k) : NewGuid(e) = g
                   THEN (CHOOSE e \in CreatedOf(k) : NewGuid(e) = g).row ELSE @[g]]]
    /\ \E m \in Highest(rows'[k]) :
         issued' = [issued EXCEPT ![k] = IF m > @ THEN m ELSE @]
    /\ Advance("create", k)
    /\ UNCHANGED <<addon, editor, files, used>>

DeleteAddons ==
    /\ Executes("delete", "addon")
    /\ addon' = [g \in Guids |->
                   IF Named(job.changes.removed, "creature", g) THEN "absent" ELSE addon[g]]
    /\ Advance("delete", "addon")
    /\ UNCHANGED <<rows, issued, editor, files, used>>

UpsertAllColumns ==  \* mutant: the row is written whole
    /\ Executes("upsert", "addon")
    /\ addon' = [g \in Guids |->
                   IF Named({e \in job.changes.edited : e.addon}, "creature", g)
                   THEN "default" ELSE addon[g]]
    /\ Advance("upsert", "addon")
    /\ UNCHANGED <<rows, issued, editor, files, used>>

\* INSERT ... ON DUPLICATE KEY UPDATE path_id: the pose that is there stays.
UpsertAddons ==
    /\ Executes("upsert", "addon")
    /\ addon' = [g \in Guids |->
                   IF addon[g] = "absent"
                      /\ Named({e \in job.changes.edited : e.addon}, "creature", g)
                   THEN "default" ELSE addon[g]]
    /\ Advance("upsert", "addon")
    /\ UNCHANGED <<rows, issued, editor, files, used>>

Statement ==
    \/ \E k \in Kinds :
         Allocate(k) \/ DeleteRows(k) \/ InsertRows(k) \/ CreateRows(k)
    \/ DeleteAddons \/ UpsertAddons

FailClearing ==  \* mutant: what was staged is cleared after a failure
    /\ job # None
    /\ job' = None
    /\ ClearPending
    /\ UNCHANGED <<database, next, files, used>>

\* A statement that is refused, or a connection that is lost, ends the job.
\* The statements before it stay, and so does what is staged.
Fail ==
    /\ job # None
    /\ job' = None
    /\ UNCHANGED <<database, editor, files, used>>

Succeed ==
    /\ job # None /\ job.left = {}
    /\ job' = None
    /\ IF job.byHand THEN UNCHANGED <<scene, removed>> ELSE ClearPending
    /\ UNCHANGED <<database, next, files, used>>

\* The game server adds a spawn, under a guid its table never had.
ServerAdds(r, g) ==
    /\ r \in Theirs \ used
    /\ g > issued[KindOf[r.spawn]]
    /\ rows' = [rows EXCEPT ![KindOf[r.spawn]][g] = r]
    /\ issued' = [issued EXCEPT ![KindOf[r.spawn]] = g]
    /\ used' = used \cup {r}
    /\ UNCHANGED <<addon, editor, files, job>>

-----------------------------------------------------------------------------
Stage ==
    \/ \E S \in SUBSET Tiles : Load(S)
    \/ \E e \in scene :
         \/ \E p \in Places : Move(e, p)
         \/ Remove(e)
    \/ \E r \in Placeable : Place(r)
    \/ Discard \/ Leave

Next ==
    \/ Stage \/ SaveFile \/ SaveApply \/ ApplyByHand
    \/ Statement \/ Fail \/ Succeed
    \/ \E r \in Theirs, g \in Guids : ServerAdds(r, g)

Spec == Init /\ [][Next]_vars

-----------------------------------------------------------------------------
\* Properties

Job == [changes : Changeset, left : SUBSET DOMAIN Statements, top : [Kinds -> 0..MaxGuid],
        byHand : BOOLEAN]

\* The types of the variables.  A row is under the table of its spawn, no guid
\* above the highest one issued has a row, and a tombstone is of a spawn of
\* the database.
TypeOK ==
    /\ rows \in [Kinds -> [Guids -> Row \cup {None}]]
    /\ \A k \in Kinds, g \in Guids : rows[k][g] # None =>
          KindOf[rows[k][g].spawn] = k /\ g <= issued[k]
    /\ addon \in [Guids -> Addons]
    /\ issued \in [Kinds -> 0..MaxGuid]
    /\ scene \in SUBSET Entry
    /\ removed \in SUBSET {e \in Entry : ~e.new}
    /\ next \in Provisional
    /\ files \in Seq([changes : Changeset, whole : BOOLEAN]) /\ Len(files) <= MaxSaves
    /\ job \in Job \cup {None}
    /\ used \in SUBSET (Theirs \cup Placeable)

\* No two entries of the editor, on screen or deleted, go by the same name:
\* moveTo, rotateTo and remove act on the spawn the user picked, and no
\* changeset has a guid twice.  The provisional guids may run into guids the
\* database has issued, and may come round.
Unique(S) == \A e, f \in S : e.kind = f.kind /\ e.guid = f.guid => e = f
Apart(S, T) == Unique(S \cup T) /\ S \cap T = {}
NamesAreUnique ==
    /\ Apart(scene, removed)
    /\ \A f \in Range(files) : Apart(f.changes.edited, f.changes.removed)

\* When the last statement of a changeset has been executed everything in it
\* is in the database: edits in place, deletions with their addons gone, and
\* placed spawns there, whatever was applied of it before, and whatever the
\* server added in between.
AppliedIsComplete ==
    job # None /\ job.left = {} =>
        /\ \A e \in job.changes.edited : rows[e.kind][e.guid] = e.row
        /\ \A e \in job.changes.removed :
              /\ rows[e.kind][e.guid] # e.row
              /\ e.kind = "creature" => addon[e.guid] = "absent"
        /\ \A e \in job.changes.created :
              \E g \in Guids : rows[e.kind][g] = e.row

\* A changeset that creates nothing may be applied again after any part of it
\* was: no statement changes what the whole of it leads to.
RowsGoal(c, r) == [k \in Kinds |-> [g \in Guids |->
    IF Named(c.edited, k, g) THEN RowOf(c.edited, k, g)
    ELSE IF Named(c.removed, k, g) THEN None ELSE r[k][g]]]
AddonsGoal(c, a) == [g \in Guids |->
    IF Named({e \in c.edited : e.addon}, "creature", g) /\ a[g] = "absent" THEN "default"
    ELSE IF Named(c.removed, "creature", g) THEN "absent" ELSE a[g]]
Reapplicable ==
    [][job # None /\ Statement /\ job.changes.created = {} =>
          /\ RowsGoal(job.changes, rows') = RowsGoal(job.changes, rows)
          /\ AddonsGoal(job.changes, addon') = AddonsGoal(job.changes, addon)]_vars

\* Applying changesets changes no row of a spawn that was never in one, the
\* rows the server adds meanwhile included, though the guids of placed spawns
\* are only guessed, and provisional ones may be guids of others.
StagedIn(c) == {e.row.spawn : e \in c.edited \cup c.removed}
EverStaged == UNION {StagedIn(f.changes) : f \in Range(files)}
OthersSurvive ==
    [][\A k \in Kinds, g \in Guids :
          rows[k][g] # None /\ rows'[k][g] # rows[k][g] =>
              rows[k][g].spawn \in Placed \cup EverStaged]_vars

\* An addon with a pose somebody authored goes only with its creature.
PosesSurvive ==
    [][\A g \in Guids : addon[g] = "authored" /\ addon'[g] # "authored" =>
          job # None /\ Named(job.changes.removed, "creature", g)]_vars

\* A spawn is in the database, or staged, or in a changeset on disk, until the
\* user deletes it, throws away what is staged, or saves into a file whose
\* write fails unnoticed, or until a changeset names its guid by the spawn that
\* had it before: a job that fails half-way loses nothing.
IsStaged(s) == \E e \in scene : (e.dirty \/ e.new) /\ e.row.spawn = s
IsKept(s) ==
    \/ IsStaged(s)
    \/ \E k \in Kinds, g \in Guids : rows[k][g] # None /\ rows[k][g].spawn = s
    \/ \E f \in Range(files) : f.whole /\
          \E e \in f.changes.edited \cup f.changes.created : e.row.spawn = s
IsStale(e, s) ==
    rows[e.kind][e.guid] # None /\ rows[e.kind][e.guid].spawn = s /\ e.row.spawn # s
GivenUp(s) ==
    \/ Discard \/ Leave \/ \E S \in SUBSET Tiles : Load(S)
    \/ \E e \in scene : e.row.spawn = s /\ Remove(e)
    \/ job # None /\ \E e \in job.changes.removed : e.row.spawn = s
    \/ job # None /\ \E e \in job.changes.edited \cup job.changes.removed : IsStale(e, s)
    \/ SaveFile /\ ~files'[Len(files')].whole
NothingIsLost == [][\A s \in Spawns : IsKept(s) => IsKept(s)' \/ GivenUp(s)]_vars
=============================================================================
