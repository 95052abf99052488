--------------------------- MODULE ObjectInstances ---------------------------
(***************************************************************************)
(* The objects of a map and their unique ids: the storage of instances     *)
(* with its count of tiles per uid (world_model_instances_storage.cpp),    *)
(* the lists of uids the tiles keep (MapTile.cpp), the rows of their ADTs, *)
(* and the highest uid in memory, in uid.ini and on disk (map_index.cpp).  *)
(*                                                                         *)
(* An object lies on every tile its box touches and has a row, under one   *)
(* uid, in the ADT of each.  A tile that loads hands its rows to the       *)
(* storage, which has to tell the second row of an object it knows, the    *)
(* stale row of an object the user has moved, and another object with the  *)
(* same uid from each other.  M2s and WMOs follow the same code and are    *)
(* one kind here.  When the update thread may run is in UpdateQueue, which *)
(* tiles may be released in MapTiles; here every loaded tile that carries  *)
(* no mark may be.                                                         *)
(***************************************************************************)
EXTENDS Naturals, Sequences, FiniteSets, Functions

CONSTANTS
    Tiles,
    Objects,
    Model,        \* per object, the file it is drawn from
    Places,       \* transforms: position, rotation and scale
    Touch,        \* per place, the tiles the box of an object there touches
    Centre,       \* per place, the tile its position is on
    FirstRows,    \* the objects the map starts with: a uid and a place each
    Calls,        \* what the user may ask for
    StartupCheck, \* setting uid_startup_check, on by default
    MaxUid,       \* bound: highest uid ever given
    MaxEdits,     \* bound: objects placed, moved, snapped or deleted, tiles reloaded
    MaxQueue,     \* bound: updates waiting when the user asks for another
    None

Uids == 0..MaxUid
Row == [uid : Uids, obj : Objects, place : Places]
Instance == [obj : Objects, place : Places, home : Places \cup {None}]
AllCalls == {"unload", "reload", "move", "snap", "place", "delete", "save",
             "import", "start", "fix"}

ASSUME PlacesAssumption ==
    /\ Touch \in [Places -> SUBSET Tiles]
    /\ Centre \in [Places -> Tiles]
    /\ \A p \in Places : Centre[p] \in Touch[p]
ASSUME ObjectsAssumption ==
    /\ DOMAIN Model = Objects
    /\ FirstRows \subseteq Row
    /\ \A r, q \in FirstRows : r.obj = q.obj => r = q
    /\ \A r, q \in FirstRows :
          r.uid = q.uid /\ Model[r.obj] = Model[q.obj] /\ r.place = q.place => r = q
    /\ None \notin Places \cup Instance
ASSUME FiniteAssumption == IsFiniteSet(Tiles) /\ IsFiniteSet(Places) /\ IsFiniteSet(Objects)
ASSUME BoundsAssumption ==
    /\ Calls \subseteq AllCalls
    /\ StartupCheck \in BOOLEAN
    /\ MaxUid \in Nat /\ MaxEdits \in Nat /\ MaxQueue \in Nat

VARIABLES
    inst,      \* _m2s and _wmos: per uid the instance stored, or None
    count,     \* _instance_count_per_uid
    tile,      \* per tile: absent, loading, reloading or loaded
    todo,      \* per tile, the rows finishLoading has yet to hand over
    uids,      \* per tile, MapTile::uids
    changed,   \* tiles with the flag of unsaved edits
    queue,     \* object updates: what, which uid, why and the tiles left
    op,        \* the move or deletion the user waits for, or None
    highest,   \* highestGUID
    storedMax, \* the highest uid in uid.ini
    rows,      \* per tile, the rows of the ADT on disk
    edits,     \* how many edits and reloads the user has made
    past       \* per object, what has become of it since it was on disk

memory == <<inst, count, tile, todo, uids, changed, queue, op>>
disk == <<storedMax, rows>>
vars == <<memory, disk, highest, edits, past>>

Updates == [type : {"add", "remove"}, uid : Uids, edit : BOOLEAN, left : SUBSET Tiles]

\* An object is "asOnDisk" while it is where the rows of the map say, "moved"
\* when the user moved it once in this session, and "other" when it is new,
\* deleted, moved again, moved in an earlier session, or moved before a tile
\* was read again or imported.
Pasts == {"asOnDisk", "moved", "other"}
Unsettled == [o \in Objects |-> IF past[o] = "moved" THEN "other" ELSE past[o]]

\* The one greatest uid of a set, or 0.
HighestOf(S) == {u \in {0} \cup S : \A v \in S : v <= u}
RowUids(r) == {q.uid : q \in UNION {r[t] : t \in Tiles}}

NoTileLoaded == /\ \A t \in Tiles : tile[t] = "absent"
                /\ queue = <<>> /\ op = None

EmptyMemory ==
    /\ inst' = [u \in Uids |-> None]
    /\ count' = [u \in Uids |-> 0]
    /\ tile' = [t \in Tiles |-> "absent"]
    /\ todo' = [t \in Tiles |-> {}]
    /\ uids' = [t \in Tiles |-> {}]
    /\ changed' = {} /\ queue' = <<>> /\ op' = None

Init ==
    /\ inst = [u \in Uids |-> None]
    /\ count = [u \in Uids |-> 0]
    /\ tile = [t \in Tiles |-> "absent"]
    /\ todo = [t \in Tiles |-> {}]
    /\ uids = [t \in Tiles |-> {}]
    /\ changed = {} /\ queue = <<>> /\ op = None
    /\ rows = [t \in Tiles |-> {r \in FirstRows : t \in Touch[r.place]}]
    /\ highest \in HighestOf({r.uid : r \in FirstRows})
    /\ storedMax = highest
    /\ edits = 0
    /\ past = [o \in Objects |->
                 IF \E r \in FirstRows : r.obj = o THEN "asOnDisk" ELSE "other"]

Touching(u) == Touch[inst[u].place]
Update(type, u, place, edit) ==
    [type |-> type, uid |-> u, edit |-> edit, left |-> Touch[place]]

-----------------------------------------------------------------------------
\* Loading a tile

\* loadTile, by the tick of the editor or by the update thread.
Load(t) ==
    /\ tile[t] = "absent"
    /\ tile' = [tile EXCEPT ![t] = "loading"]
    /\ todo' = [todo EXCEPT ![t] = rows[t]]
    /\ UNCHANGED <<inst, count, uids, changed, queue, op, disk, highest, edits, past>>

\* isDuplicateOf, for two objects under one uid.
IsDuplicateOf(i, r) == Model[i.obj] = Model[r.obj] /\ i.place = r.place

\* The row an object had before the user moved it.
IsLeftoverOf(i, r) == i.home # None /\ Model[i.obj] = Model[r.obj] /\ i.home = r.place

AcceptsDuplicates(u, r) == inst[u] = None \/ IsDuplicateOf(inst[u], r)  \* mutant
Accepts(u, r) == inst[u] = None \/ IsDuplicateOf(inst[u], r) \/ IsLeftoverOf(inst[u], r)

\* The uid the storage keeps a row under: its own, or else the first fresh one
\* that nothing else has.
FreshUids(r) == {v \in Uids : v > highest /\ Accepts(v, r)}
StoresAs(r, u) ==
    IF Accepts(r.uid, r)
    THEN u = r.uid
    ELSE u \in FreshUids(r) /\ \A v \in FreshUids(r) : u <= v

StoreRowUncounted(t) == \E r \in todo[t], u \in Uids :  \* mutant: a known object is not counted again
    /\ tile[t] \in {"loading", "reloading"}
    /\ StoresAs(r, u)
    /\ inst' = IF inst[u] = None
               THEN [inst EXCEPT ![u] = [obj |-> r.obj, place |-> r.place, home |-> None]]
               ELSE inst
    /\ count' = [count EXCEPT ![u] = 1]
    /\ highest' = IF u = r.uid THEN highest ELSE u
    /\ uids' = [uids EXCEPT ![t] = @ \cup {u}]
    /\ todo' = [todo EXCEPT ![t] = @ \ {r}]
    /\ queue' = IF u # r.uid \/ tile[t] = "reloading"
                THEN Append(queue, Update("add", u, inst'[u].place, FALSE))
                ELSE queue
    /\ UNCHANGED <<tile, changed, op, disk, edits, past>>

\* unsafe_add_*_instance_no_world_upd, by the worker that finishes the tile:
\* a known object is counted once more, a new one is stored.  The tile takes
\* the uid onto its list, and an object that was renumbered, or whose tile was
\* read again, is queued to be put on all the tiles it touches.
StoreRow(t) == \E r \in todo[t], u \in Uids :
    /\ tile[t] \in {"loading", "reloading"}
    /\ StoresAs(r, u)
    /\ inst' = IF inst[u] = None
               THEN [inst EXCEPT ![u] = [obj |-> r.obj, place |-> r.place, home |-> None]]
               ELSE inst
    /\ count' = [count EXCEPT ![u] = @ + 1]
    /\ highest' = IF u = r.uid THEN highest ELSE u
    /\ uids' = [uids EXCEPT ![t] = @ \cup {u}]
    /\ todo' = [todo EXCEPT ![t] = @ \ {r}]
    /\ queue' = IF u # r.uid \/ tile[t] = "reloading"
                THEN Append(queue, Update("add", u, inst'[u].place, FALSE))
                ELSE queue
    /\ UNCHANGED <<tile, changed, op, disk, edits, past>>

FinishTile(t) ==
    /\ tile[t] \in {"loading", "reloading"} /\ todo[t] = {}
    /\ tile' = [tile EXCEPT ![t] = "loaded"]
    /\ UNCHANGED <<inst, count, todo, uids, changed, queue, op, disk, highest, edits, past>>

\* The update thread applies the update at the head of the queue to one of its
\* tiles, when that is loaded.  It holds a pointer, not a uid: when the
\* instance has been erased it reads freed memory, and may or may not put
\* what it finds there on the list.
ApplyUpdate(t) ==
    /\ queue # <<>> /\ t \in Head(queue).left /\ tile[t] = "loaded"
    /\ LET e == Head(queue)
           left == e.left \ {t}
       IN /\ \/ e.type = "add" /\ uids' = [uids EXCEPT ![t] = @ \cup {e.uid}]
             \/ e.type = "remove" /\ uids' = [uids EXCEPT ![t] = @ \ {e.uid}]
             \/ inst[e.uid] = None /\ UNCHANGED uids
          /\ changed' = IF e.edit THEN changed \cup {t} ELSE changed
          /\ queue' = IF left = {} THEN Tail(queue)
                      ELSE <<[e EXCEPT !.left = left]>> \o Tail(queue)
    /\ UNCHANGED <<inst, count, tile, todo, op, disk, highest, edits, past>>

-----------------------------------------------------------------------------
\* Releasing a tile

MayEdit == op = None /\ edits < MaxEdits /\ Len(queue) < MaxQueue

ReleaseAtOnce(S) ==  \* mutant: erased by the first tile that goes
    /\ count' = [u \in Uids |-> IF u \in S THEN 0 ELSE count[u]]
    /\ inst' = [u \in Uids |-> IF u \in S THEN None ELSE inst[u]]

\* remove_models_if_needed: every uid of the list is counted down and erased
\* at 0.  A uid that is not stored is only logged.
Release(S) ==
    /\ count' = [u \in Uids |-> IF u \in S /\ inst[u] # None THEN count[u] - 1 ELSE count[u]]
    /\ inst' = [u \in Uids |-> IF u \in S /\ count'[u] = 0 THEN None ELSE inst[u]]

\* unloadTile of a tile without unsaved edits: the sweep, and the calls that
\* load a tile for a moment.
Unload(t) ==
    /\ "unload" \in Calls /\ op = None
    /\ tile[t] = "loaded" /\ t \notin changed
    /\ Release(uids[t])
    /\ tile' = [tile EXCEPT ![t] = "absent"]
    /\ uids' = [uids EXCEPT ![t] = {}]
    /\ UNCHANGED <<todo, changed, queue, op, disk, highest, edits, past>>

\* reloadTile: the tile is destroyed, whatever its edits, and read again.
Reload(t) ==
    /\ "reload" \in Calls /\ MayEdit
    /\ tile[t] = "loaded"
    /\ Release(uids[t])
    /\ tile' = [tile EXCEPT ![t] = "reloading"]
    /\ todo' = [todo EXCEPT ![t] = rows[t]]
    /\ uids' = [uids EXCEPT ![t] = {}]
    /\ changed' = changed \ {t}
    /\ edits' = edits + 1
    /\ past' = Unsettled
    /\ UNCHANGED <<queue, op, disk, highest>>

-----------------------------------------------------------------------------
\* What the user does with objects

\* An object the user can select: stored, and on the list of a loaded tile.
Visible(u) == inst[u] # None /\ \E t \in Tiles : tile[t] = "loaded" /\ u \in uids[t]

\* registerObjectTransformed, and with it markTransformedThisSession, which
\* keeps the first transform it is called at.
Transformed(u) == [inst[u] EXCEPT !.home = IF @ = None THEN inst[u].place ELSE @]
MovesOn(o) == [past EXCEPT ![o] = IF @ = "asOnDisk" THEN "moved" ELSE "other"]

\* move_selected_models and the tools like it, undo and redo included: take
\* the object off its tiles and wait for the queue ...
MoveBegin(u, p) ==
    /\ "move" \in Calls /\ MayEdit /\ Visible(u)
    /\ p # inst[u].place
    /\ inst' = [inst EXCEPT ![u] = Transformed(u)]
    /\ queue' = Append(queue, Update("remove", u, inst[u].place, TRUE))
    /\ op' = [name |-> "move", uid |-> u, place |-> p]
    /\ edits' = edits + 1
    /\ past' = MovesOn(inst[u].obj)
    /\ UNCHANGED <<count, tile, todo, uids, changed, disk, highest>>

\* ... and put it onto the tiles it touches now, by the update thread.
MoveEnd ==
    /\ op # None /\ op.name = "move" /\ queue = <<>>
    /\ inst' = [inst EXCEPT ![op.uid].place = op.place]
    /\ queue' = <<Update("add", op.uid, op.place, TRUE)>>
    /\ op' = None
    /\ UNCHANGED <<count, tile, todo, uids, changed, disk, highest, edits, past>>

\* snap_selected_models_to_the_ground: the same tiles, and no removal.
Snap(u, p) ==
    /\ "snap" \in Calls /\ MayEdit /\ Visible(u)
    /\ p # inst[u].place /\ Touch[p] = Touching(u)
    /\ inst' = [inst EXCEPT ![u] = [Transformed(u) EXCEPT !.place = p]]
    /\ queue' = Append(queue, Update("add", u, p, TRUE))
    /\ edits' = edits + 1
    /\ past' = MovesOn(inst[u].obj)
    /\ UNCHANGED <<count, tile, todo, uids, changed, op, disk, highest>>

\* addM2 and its siblings: a new object under a new uid, counted once, which
\* the update thread puts on every tile it touches.
Place(o, p) ==
    /\ "place" \in Calls /\ MayEdit
    /\ \A u \in Uids : inst[u] # None => inst[u].obj # o
    /\ \A t \in Tiles : \A r \in rows[t] : r.obj # o
    /\ \E u \in Uids :
         /\ u > highest /\ inst[u] = None
         /\ \A v \in Uids : v > highest /\ inst[v] = None => u <= v
         /\ inst' = [inst EXCEPT ![u] = [obj |-> o, place |-> p, home |-> None]]
         /\ count' = [count EXCEPT ![u] = 1]
         /\ highest' = u
         /\ queue' = Append(queue, Update("add", u, p, FALSE))
    /\ edits' = edits + 1
    /\ past' = [past EXCEPT ![o] = "other"]
    /\ UNCHANGED <<tile, todo, uids, changed, op, disk>>

\* delete_instance: off the tiles, wait, then erase.
DeleteBegin(u) ==
    /\ "delete" \in Calls /\ MayEdit /\ Visible(u)
    /\ queue' = Append(queue, Update("remove", u, inst[u].place, TRUE))
    /\ op' = [name |-> "delete", uid |-> u, place |-> inst[u].place]
    /\ edits' = edits + 1
    /\ past' = [past EXCEPT ![inst[u].obj] = "other"]
    /\ UNCHANGED <<inst, count, tile, todo, uids, changed, disk, highest>>

DeleteEndCounted ==  \* mutant: the count is not erased
    /\ op # None /\ op.name = "delete" /\ queue = <<>>
    /\ inst' = [inst EXCEPT ![op.uid] = None]
    /\ op' = None
    /\ UNCHANGED <<count, tile, todo, uids, changed, queue, disk, highest, edits, past>>

DeleteEnd ==
    /\ op # None /\ op.name = "delete" /\ queue = <<>>
    /\ inst' = [inst EXCEPT ![op.uid] = None]
    /\ count' = [count EXCEPT ![op.uid] = 0]
    /\ op' = None
    /\ UNCHANGED <<tile, todo, uids, changed, queue, disk, highest, edits, past>>

-----------------------------------------------------------------------------
\* Saving

\* MapTile::save: a row for every uid of the list that is stored.  One that is
\* not is only logged.
SavedRows(t) ==
    {[uid |-> u, obj |-> inst[u].obj, place |-> inst[u].place] :
        u \in {v \in uids[t] : inst[v] # None}}
Written(S) == [t \in Tiles |-> IF t \in S THEN SavedRows(t) ELSE rows[t]]

LoadedTiles == {t \in Tiles : tile[t] = "loaded"}

\* saveMaxUID comes before the first tile.  A tile whose save fails keeps its
\* mark.
SaveAll == \E S \in SUBSET LoadedTiles :
    /\ "save" \in Calls /\ op = None /\ queue = <<>>
    /\ storedMax' = highest
    /\ rows' = Written(S)
    /\ changed' = changed \ S
    /\ UNCHANGED <<inst, count, tile, todo, uids, queue, op, highest, edits, past>>

SaveChanged == \E S \in SUBSET (LoadedTiles \cap changed) :
    /\ "save" \in Calls /\ op = None /\ queue = <<>>
    /\ storedMax' = highest
    /\ rows' = Written(S)
    /\ changed' = changed \ S
    /\ UNCHANGED <<inst, count, tile, todo, uids, queue, op, highest, edits, past>>

\* saveTile leaves the mark as it was.
SaveTile(t) ==
    /\ "save" \in Calls /\ op = None /\ queue = <<>>
    /\ tile[t] = "loaded"
    /\ storedMax' = highest
    /\ rows' = Written({t})
    /\ UNCHANGED <<memory, highest, edits, past>>

\* The imports of World.cpp write a tile without waiting for the queue and
\* without storing the highest uid, and take its mark away.
Import(t) ==
    /\ "import" \in Calls /\ op = None
    /\ tile[t] = "loaded"
    /\ rows' = Written({t})
    /\ changed' = changed \ {t}
    /\ past' = Unsettled
    /\ UNCHANGED <<inst, count, tile, todo, uids, queue, op, storedMax, highest, edits>>

-----------------------------------------------------------------------------
\* Starting the editor, after a quit or a crash at any point

StartFromStored ==  \* mutant: loadMaxUID where searchMaxUID is due
    /\ "start" \in Calls
    /\ EmptyMemory
    /\ highest' = storedMax
    /\ storedMax' = highest'
    /\ past' = Unsettled
    /\ UNCHANGED <<rows, edits>>

\* The uids of the ADTs are searched, unless the setting is off.
Start ==
    /\ "start" \in Calls
    /\ EmptyMemory
    /\ highest' \in IF StartupCheck THEN HighestOf(RowUids(rows)) ELSE {storedMax}
    /\ storedMax' = highest'
    /\ past' = Unsettled
    /\ UNCHANGED <<rows, edits>>

\* fixUIDs: each object is taken from the ADT its position is on, and of two
\* with one model and one place only one; all get new uids from 0 on, in the
\* order they were found, and every ADT is written with the objects that touch
\* it.  The editor may crash when only the tiles of S are written; it is then
\* started again.
Placed == UNION {{<<r.obj, r.place>> : r \in {q \in rows[t] : Centre[q.place] = t}} :
                     t \in Tiles}
Twins(f) == {g \in Placed : Model[g[1]] = Model[f[1]] /\ g[2] = f[2]}
Found == {f \in Placed : f = CHOOSE g \in Twins(f) : TRUE}
Numbering == CHOOSE f \in Injection(Found, 0..(Cardinality(Found) - 1)) : TRUE
FixedRows(t) ==
    {[uid |-> Numbering[f], obj |-> f[1], place |-> f[2]] :
        f \in {g \in Found : t \in Touch[g[2]]}}

\* Objects that are left out as twins, written on some of their tiles only, or
\* with the new uid that is another object's old one.
SharesUid(R, o) == \E r, q \in R : r.obj = o /\ q.uid = r.uid /\ q.obj # o
BadlyFixed(o, S) ==
    \E f \in Placed : f[1] = o /\ (f \notin Found \/ S \cap Touch[f[2]] \notin {{}, Touch[f[2]]})
FixUIDs == \E S \in SUBSET Tiles :
    /\ "fix" \in Calls /\ NoTileLoaded /\ Cardinality(Found) <= MaxUid
    /\ EmptyMemory
    /\ rows' = [t \in Tiles |-> IF t \in S THEN FixedRows(t) ELSE rows[t]]
    /\ highest' \in IF S = Tiles THEN {Cardinality(Found)} ELSE HighestOf(RowUids(rows'))
    /\ storedMax' = highest'
    /\ past' = [o \in Objects |->
                  IF BadlyFixed(o, S) \/ SharesUid(UNION Range(rows'), o)
                  THEN "other" ELSE Unsettled[o]]
    /\ UNCHANGED edits

-----------------------------------------------------------------------------
OnTile(t) ==
    \/ Load(t) \/ StoreRow(t) \/ FinishTile(t) \/ ApplyUpdate(t)
    \/ Unload(t) \/ Reload(t) \/ SaveTile(t) \/ Import(t)

OnObject ==
    \/ MayEdit /\ \/ \E u \in Uids, p \in Places : MoveBegin(u, p) \/ Snap(u, p)
                  \/ \E o \in Objects, p \in Places : Place(o, p)
                  \/ \E u \in Uids : DeleteBegin(u)
    \/ MoveEnd \/ DeleteEnd

Next == (\E t \in Tiles : OnTile(t)) \/ OnObject \/ SaveAll \/ SaveChanged \/ Start \/ FixUIDs

Spec == Init /\ [][Next]_vars

-----------------------------------------------------------------------------
\* Properties

Ops == {None} \cup [name : {"move", "delete"}, uid : Uids, place : Places]

\* The types of the variables; a uid is counted exactly while it is stored,
\* the user waits for an object that stays stored, and a tile that is not in
\* memory lists nothing.
TypeOK ==
    /\ inst \in [Uids -> Instance \cup {None}]
    /\ count \in [Uids -> Nat]
    /\ \A u \in Uids : count[u] = 0 <=> inst[u] = None
    /\ tile \in [Tiles -> {"absent", "loading", "reloading", "loaded"}]
    /\ todo \in [Tiles -> SUBSET Row]
    /\ uids \in [Tiles -> SUBSET Uids]
    /\ \A t \in Tiles : tile[t] = "absent" => uids[t] = {}
    /\ \A t \in Tiles : tile[t] \in {"absent", "loaded"} => todo[t] = {}
    /\ changed \subseteq {t \in Tiles : tile[t] = "loaded"}
    /\ queue \in Seq(Updates)
    /\ op \in Ops
    /\ op # None => inst[op.uid] # None
    /\ highest \in Uids /\ storedMax \in Uids
    /\ rows \in [Tiles -> SUBSET Row]
    /\ edits \in Nat
    /\ past \in [Objects -> Pasts]

\* With the check at the start, newGUID never gives out a uid that an object
\* in memory, a row that is loading or an ADT of the map has already: neither
\* saves that fail, nor imports that store no maximum, nor a crash in the
\* middle of fixUIDs make the highest uid fall behind.
UidsBelowHighest ==
    StartupCheck =>
        /\ \A u \in Uids : inst[u] # None => u <= highest
        /\ \A t \in Tiles : \A r \in rows[t] \cup todo[t] : r.uid <= highest
        /\ storedMax <= highest

\* What the properties are about: with the check at the start, an object that
\* is where the map's rows say or was moved once.  An object that has the uid of
\* another one on the map is left out when it touches several tiles, each of
\* which gives it a uid of its own; and once something was edited, since an
\* object that was edited, or whose update is still queued after a reload, may
\* leave its uid on the list of a tile when it is erased, where the other one
\* then seems to be.
Clashing == {o \in Objects : SharesUid(FirstRows, o)}
IsLone(o) == \E r \in FirstRows :
    /\ r.obj = o /\ Touch[r.place] = {Centre[r.place]}
    /\ \A q \in FirstRows : Model[q.obj] = Model[o] /\ q.place = r.place => q = r
Known(o) == /\ StartupCheck /\ past[o] # "other"
            /\ o \in Clashing => edits = 0 /\ IsLone(o)
Settled(o) == Known(o) /\ past[o] # "moved"

\* An object nobody touched is counted once for every tile that lists it, so
\* that it is neither erased under a tile nor kept after the last one; and it
\* is stored under one uid, whatever other objects had its uid and in whatever
\* order their tiles came and went.
CountIsListed ==
    \A u \in Uids : inst[u] # None /\ Settled(inst[u].obj) =>
        count[u] = Cardinality({t \in Tiles : u \in uids[t]})

\* An object the user moved or snapped once, or not at all, since the map was
\* entered is in the storage once: a tile that comes in later with its old row
\* does not bring it back at the place it was moved away from.
StoredOnce ==
    \A u \in Uids : inst[u] # None =>
        \A v \in Uids \ {u} : inst[v] # None /\ inst[v].obj = inst[u].obj =>
            ~Known(inst[u].obj)

\* An object nobody moved or deleted keeps its row in the ADT of every tile it
\* touches, whatever is loaded, released, saved in part, imported or fixed.
NothingIsLost ==
    \A r \in FirstRows : Settled(r.obj) =>
        \A t \in Touch[r.place] : \E q \in rows[t] : q.obj = r.obj /\ q.place = r.place
=============================================================================
