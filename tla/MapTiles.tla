------------------------------ MODULE MapTiles ------------------------------
(***************************************************************************)
(* The tiles of an open map (map_index.cpp): streaming, editing, saving    *)
(* and releasing them.  Three kinds of process act on the table of tiles:  *)
(*   - the main thread, which streams tiles around the camera, edits them, *)
(*     saves, bakes, imports and renders the minimap;                      *)
(*   - the update thread of world_tile_update_queue, which registers moved *)
(*     objects on the tiles they touch;                                    *)
(*   - the workers of the asynchronous loader, which finish a tile         *)
(*     (AsyncLoader.tla has them in detail).                               *)
(* What a tile holds is abstracted to the kinds of edit applied to it      *)
(* since its ADT was last written.  The pin count of MapTile is left out:  *)
(* pinTile and unpinTile have no caller, it is always 0.                   *)
(***************************************************************************)
EXTENDS Naturals, Sequences, FiniteSets

CONSTANTS
    Tiles,      \* positions of the map
    Missing,    \* those for which loadTile returns null: the WDT does not
                \* flag them, or flags them and no ADT exists
    Calls,      \* what the user and the tick of the editor may ask for
    MaxPending, \* bound: object updates queued at a time
    NoTile

AllCalls == {"stream", "edit", "undo", "objects", "place", "reload", "save",
             "import", "force", "minimap", "bake"}

ASSUME MissingAssumption == Missing \subseteq Tiles
ASSUME CallsAssumption == Calls \subseteq AllCalls
ASSUME MaxPendingAssumption == MaxPending \in Nat
ASSUME NoTileAssumption == NoTile \notin Tiles

\* Who made an edit: a tool or a conversion on the main thread, the update
\* thread, or undo and redo.
Kinds == {"terrain", "objects", "history"}

\* Why an object update is queued (tile_dirty_intent).
Intents == {"user_edit", "bookkeeping"}

Saves == {"saveTile", "saveChanged", "saveall"}
Ops == Saves \cup {"idle", "wait", "import", "force", "release",
                   "minimapLoad", "minimap", "bake"}

VARIABLES
    slot,     \* mTiles[z][x].tile: no object, an object that loads, a loaded one
    changed,  \* tiles whose object has MapTile::changed
    failed,   \* tiles whose object has MapTile::_last_save_failed
    unsaved,  \* per tile, the kinds of edit in memory that its ADT lacks
    onDisc,   \* tiles with MapTileEntry::onDisc
    files,    \* tiles whose ADT is in the project directory
    undo,     \* tiles into whose chunks the undo history points
    dangling, \* those of them whose object has been destroyed since
    pending,  \* _update_queue of the update thread, a tile and an intent each
    held,     \* the tile the update thread has a pointer to, or NoTile
    stale,    \* that pointer's object has been destroyed
    op,       \* what the main thread is doing
    target,   \* the tile it does it to, or NoTile
    unload,   \* its local "unload", decided before the tile was loaded
    scope,    \* the tiles a bake has raw pointers into
    pinned    \* those of them that the bake marked and has not changed yet

tileVars == <<slot, changed, failed, unsaved>>
diskVars == <<onDisc, files>>
historyVars == <<undo, dangling>>
queueVars == <<pending, held, stale>>
bakeVars == <<scope, pinned>>
mainVars == <<op, target, unload>>
vars == <<tileVars, diskVars, historyVars, queueVars, mainVars, bakeVars>>

Loaded == {t \in Tiles : slot[t] = "loaded"}

Init ==
    /\ slot = [t \in Tiles |-> "empty"]
    /\ changed = {} /\ failed = {}
    /\ unsaved = [t \in Tiles |-> {}]
    /\ files \in SUBSET (Tiles \ Missing)
    /\ onDisc = files
    /\ undo = {} /\ dangling = {}
    /\ pending = <<>> /\ held = NoTile /\ stale = FALSE
    /\ op = "idle" /\ target = NoTile /\ unload = FALSE
    /\ scope = {} /\ pinned = {}

----------------------------------------------------------------------------
\* Operations of MapIndex that the handlers below are made of.

\* The slot of t after loadTile.
LoadTile(t) == IF slot[t] = "empty" /\ t \notin Missing
               THEN [slot EXCEPT ![t] = "loading"] ELSE slot

\* The object of t is destroyed and leaves its slot in state s.  The pointers
\* the undo history and the update thread have to it dangle from here on.
Destroy(t, s) ==
    /\ slot' = [slot EXCEPT ![t] = s]
    /\ changed' = changed \ {t}
    /\ failed' = failed \ {t}
    /\ unsaved' = [unsaved EXCEPT ![t] = {}]
    /\ stale' = (stale \/ held = t)
    /\ dangling' = dangling \cup ({t} \cap undo)

\* Mutant: the unload releases whatever it is given.
UnloadTileAlways(t) == IF t \in Loaded THEN Destroy(t, "empty")
                       ELSE UNCHANGED <<tileVars, stale, dangling>>

UnloadTile(t) == IF t \in Loaded \ failed THEN Destroy(t, "empty")
                 ELSE UNCHANGED <<tileVars, stale, dangling>>

\* The changed flags after unsetChanged.
UnsetChanged(t) == IF t \notin failed THEN changed \ {t} ELSE changed

\* Mutant: the first write of a tile failed and it is marked nevertheless.
MarkOnDiscAlways(t) == onDisc \cup {t}

MarkOnDisc(t) == IF t \in Loaded \cap failed THEN onDisc ELSE onDisc \cup {t}

\* Mutant: the failure of a write is not recorded on the tile.
SaveTilesForget(S, bad, edits) ==
    /\ bad \subseteq S
    /\ unsaved' = [t \in Tiles |-> IF t \in S \ bad THEN {} ELSE edits[t]]
    /\ failed' = failed \ S
    /\ files' = files \cup (S \ bad)

\* MapTile::saveTile for each tile of S, of which those in bad could not be
\* written; edits is what the tiles hold unsaved when it is called.
SaveTiles(S, bad, edits) ==
    /\ bad \subseteq S
    /\ unsaved' = [t \in Tiles |-> IF t \in S \ bad THEN {} ELSE edits[t]]
    /\ failed' = (failed \ S) \cup bad
    /\ files' = files \cup (S \ bad)

\* An edit of kind k in the memory of t.
Touch(t, k) == [unsaved EXCEPT ![t] = @ \cup {k}]

----------------------------------------------------------------------------
\* The loader and the update thread.

\* A worker finishes the tile, or gives up on it: finished is true either way.
FinishLoading(t) ==
    /\ slot[t] = "loading"
    /\ slot' = [slot EXCEPT ![t] = "loaded"]
    /\ UNCHANGED <<changed, failed, unsaved, diskVars, historyVars, queueVars,
                   mainVars, bakeVars>>

\* Mutant: an update of a tile that cannot be loaded stays in the queue.
UpdateBeginStuck ==
    /\ pending # <<>> /\ held = NoTile
    /\ Head(pending)[1] \notin Missing
    /\ held' = Head(pending)[1] /\ stale' = FALSE
    /\ slot' = LoadTile(Head(pending)[1])
    /\ UNCHANGED <<changed, failed, unsaved, diskVars, historyVars, pending,
                   mainVars, bakeVars>>

\* The update thread takes the front update and loads its tile; it has nothing
\* to do, and pops the update, when there is none.
UpdateBegin ==
    /\ pending # <<>> /\ held = NoTile
    /\ IF Head(pending)[1] \in Missing
       THEN /\ pending' = Tail(pending)
            /\ UNCHANGED <<slot, held, stale>>
       ELSE /\ held' = Head(pending)[1] /\ stale' = FALSE
            /\ slot' = LoadTile(Head(pending)[1])
            /\ UNCHANGED pending
    /\ UNCHANGED <<changed, failed, unsaved, diskVars, historyVars, mainVars,
                   bakeVars>>

\* It has waited for the tile, marks it if the user made the edit, registers the
\* object on it and pops the update.  Through a dangling pointer it reaches no
\* tile of the map.
UpdateApply ==
    /\ held # NoTile
    /\ stale \/ held \in Loaded
    /\ IF stale THEN UNCHANGED <<changed, unsaved>>
       ELSE /\ changed' = IF Head(pending)[2] = "user_edit"
                          THEN changed \cup {held} ELSE changed
            /\ unsaved' = Touch(held, "objects")
    /\ pending' = Tail(pending) /\ held' = NoTile /\ stale' = FALSE
    /\ UNCHANGED <<slot, failed, diskVars, historyVars, mainVars, bakeVars>>

----------------------------------------------------------------------------
\* The main thread.  A call is made when the thread is in its event loop,
\* which a bake pumps too; streaming is part of the tick and runs in both.

Call(c) == c \in Calls /\ op = "idle"
Tick == "stream" \in Calls /\ op \in {"idle", "bake"}

Goto(o, t, u) == op' = o /\ target' = t /\ unload' = u
Return == Goto("idle", NoTile, FALSE)

\* One tile of enterTile's square around the camera.
EnterTile(t) ==
    /\ Tick
    /\ slot' = LoadTile(t)
    /\ UNCHANGED <<changed, failed, unsaved, diskVars, historyVars, queueVars,
                   mainVars, bakeVars>>

\* One loaded tile of unloadTiles' sweep that the camera has left behind.
UnloadFarTile(t) ==
    /\ Tick
    /\ t \in Loaded \ changed
    /\ UnloadTile(t)
    /\ UNCHANGED <<diskVars, undo, pending, held, mainVars, bakeVars>>

\* A tool changes chunks of a loaded tile and registers them in the action.
Edit(t) ==
    /\ Call("edit")
    /\ t \in Loaded
    /\ changed' = changed \cup {t}
    /\ unsaved' = Touch(t, "terrain")
    /\ undo' = undo \cup {t}
    /\ UNCHANGED <<slot, failed, diskVars, dangling, queueVars, mainVars,
                   bakeVars>>

\* Undo or redo writes the stored data into the chunks and marks no tile.
Undo(t) ==
    /\ Call("undo")
    /\ t \in undo
    /\ unsaved' = IF t \in Loaded \ dangling THEN Touch(t, "history") ELSE unsaved
    /\ UNCHANGED <<slot, changed, failed, diskVars, historyVars, queueVars,
                   mainVars, bakeVars>>

\* An object is moved onto t (model_update::add), or off it
\* (model_update::remove): then the main thread waits for the queue.
QueueUpdate(t) ==
    /\ Call("objects")
    /\ Len(pending) < MaxPending
    /\ pending' = Append(pending, <<t, "user_edit">>)
    /\ op' \in {"idle", "wait"}
    /\ UNCHANGED <<tileVars, diskVars, historyVars, held, stale, target, unload,
                   bakeVars>>

\* A new object is placed on t, pasted or brought back by undo.  addM2 and
\* addWMO hand it to the storage as if it came from a reloaded tile, and the
\* storage queues its update as bookkeeping.
PlaceObject(t) ==
    /\ Call("place")
    /\ Len(pending) < MaxPending
    /\ pending' = Append(pending, <<t, "bookkeeping">>)
    /\ UNCHANGED <<tileVars, diskVars, historyVars, held, stale, mainVars,
                   bakeVars>>

WaitReturn ==
    /\ op = "wait" /\ pending = <<>>
    /\ Return
    /\ UNCHANGED <<tileVars, diskVars, historyVars, queueVars, bakeVars>>

\* "Reload tile": the user asks for the tile as it is on disk.
ReloadTile(t) ==
    /\ Call("reload")
    /\ t \in Loaded
    /\ Destroy(t, "loading")
    /\ UNCHANGED <<diskVars, undo, pending, held, mainVars, bakeVars>>

\* MapView::save calls one of the three saves of MapIndex, which waits for the
\* update queue first.
SaveBegin(s, t) ==
    /\ Call("save")
    /\ Goto(s, IF s = "saveTile" THEN t ELSE NoTile, FALSE)
    /\ UNCHANGED <<tileVars, diskVars, historyVars, queueVars, bakeVars>>

SaveScope == CASE op = "saveall" -> Loaded
               [] op = "saveChanged" -> Loaded \cap changed
               [] OTHER -> Loaded \cap {target}

\* What is left of the undo history of a save: it is purged when everything
\* was written, the WDL (a file of its own) included.
Purge(all_saved) ==
    IF all_saved THEN undo' = {} /\ dangling' = {} ELSE UNCHANGED historyVars

\* Mutant: the save does not wait for the update queue.
SaveFinishEarly ==
    /\ op \in Saves
    /\ \E bad \in SUBSET SaveScope, wdl \in BOOLEAN :
          /\ SaveTiles(SaveScope, bad, unsaved)
          /\ changed' = IF op = "saveTile" THEN changed
                        ELSE changed \ (SaveScope \ bad)
          /\ Purge(bad = {} /\ wdl)
    /\ Return
    /\ UNCHANGED <<slot, onDisc, queueVars, bakeVars>>

SaveFinish ==
    /\ op \in Saves /\ pending = <<>>
    /\ \E bad \in SUBSET SaveScope, wdl \in BOOLEAN :
          /\ SaveTiles(SaveScope, bad, unsaved)
          /\ changed' = IF op = "saveTile" THEN changed
                        ELSE changed \ (SaveScope \ bad)
          /\ Purge(bad = {} /\ wdl)
    /\ Return
    /\ UNCHANGED <<slot, onDisc, queueVars, bakeVars>>

\* The imports of World.cpp convert each tile of the map and save it at once.
\* The history is purged, as the user is told, "unload" is decided, the tile
\* loaded and waited for ...
ImportBegin(t) ==
    /\ Call("import")
    /\ t \notin Missing
    /\ undo' = {} /\ dangling' = {}
    /\ slot' = LoadTile(t)
    /\ Goto("import", t, slot[t] = "empty")
    /\ UNCHANGED <<changed, failed, unsaved, diskVars, queueVars, bakeVars>>

\* ... then changed, without a mark, and saved ...
ImportSave ==
    /\ op = "import" /\ target \in Loaded
    /\ \E bad \in SUBSET {target} :
          SaveTiles({target}, bad, Touch(target, "terrain"))
    /\ Goto("release", target, unload)
    /\ UNCHANGED <<slot, changed, onDisc, historyVars, queueVars, bakeVars>>

\* ... and, whatever became of the save, markOnDisc, unsetChanged and, if the
\* import had loaded the tile, unloadTile are called.
Release ==
    /\ op = "release"
    /\ onDisc' = MarkOnDisc(target)
    /\ IF unload THEN UnloadTile(target)
       ELSE /\ changed' = UnsetChanged(target)
            /\ UNCHANGED <<slot, failed, unsaved, stale, dangling>>
    /\ Return
    /\ UNCHANGED <<files, undo, pending, held, bakeVars>>

\* for_tile_at_force changes a tile next to an imported one.  Where there is no
\* such tile only markOnDisc has an effect.
ForceBegin(t) ==
    /\ Call("force")
    /\ IF t \in Missing
       THEN onDisc' = MarkOnDisc(t) /\ UNCHANGED <<slot, mainVars>>
       ELSE /\ slot' = LoadTile(t)
            /\ Goto("force", t, slot[t] = "empty")
            /\ UNCHANGED onDisc
    /\ UNCHANGED <<changed, failed, unsaved, files, historyVars, queueVars,
                   bakeVars>>

\* The tile is marked and changed; it is saved and released if it was not
\* loaded before.
ForceApply ==
    /\ op = "force" /\ target \in Loaded
    /\ changed' = changed \cup {target}
    /\ IF unload
       THEN /\ \E bad \in SUBSET {target} :
                  SaveTiles({target}, bad, Touch(target, "terrain"))
            /\ Goto("release", target, TRUE)
       ELSE /\ unsaved' = Touch(target, "terrain")
            /\ Return
            /\ UNCHANGED <<failed, files>>
    /\ UNCHANGED <<slot, onDisc, historyVars, queueVars, bakeVars>>

\* saveMinimap of WorldRender decides "unload" from the changed flag before it
\* loads the tile.  If it loads it, it waits for it and for the update queue.
MinimapBegin(t) ==
    /\ Call("minimap")
    /\ t \notin Missing
    /\ slot' = LoadTile(t)
    /\ Goto(IF slot[t] = "empty" THEN "minimapLoad" ELSE "minimap", t,
            t \notin Loaded \cap changed)
    /\ UNCHANGED <<changed, failed, unsaved, diskVars, historyVars, queueVars,
                   bakeVars>>

MinimapLoaded ==
    /\ op = "minimapLoad" /\ target \in Loaded /\ pending = <<>>
    /\ Goto("minimap", target, unload)
    /\ UNCHANGED <<tileVars, diskVars, historyVars, queueVars, bakeVars>>

\* It has rendered the tile (it waits for the loader no longer than TIMEOUT).
MinimapEnd ==
    /\ op = "minimap"
    /\ IF unload THEN UnloadTile(target)
       ELSE UNCHANGED <<tileVars, stale, dangling>>
    /\ Return
    /\ UNCHANGED <<diskVars, undo, pending, held, bakeVars>>

\* Mutant: the bake does not keep its tiles.
BakeBeginUnpinned(S) ==
    /\ Call("bake")
    /\ S \subseteq Loaded /\ S # {}
    /\ scope' = S /\ pinned' = {}
    /\ Goto("bake", NoTile, FALSE)
    /\ UNCHANGED <<tileVars, diskVars, historyVars, queueVars>>

\* A bake of ambient occlusion (the ground effect editor does the same) takes
\* pointers to the loaded tiles of its scope and marks those not marked.
BakeBegin(S) ==
    /\ Call("bake")
    /\ S \subseteq Loaded /\ S # {}
    /\ scope' = S /\ pinned' = S \ changed
    /\ changed' = changed \cup S
    /\ Goto("bake", NoTile, FALSE)
    /\ UNCHANGED <<slot, failed, unsaved, diskVars, historyVars, queueVars>>

\* It paints a tile, which stays marked: the history points into it.
BakeTile(t) ==
    /\ op = "bake" /\ t \in scope
    /\ pinned' = pinned \ {t}
    /\ unsaved' = Touch(t, "terrain")
    /\ undo' = undo \cup {t}
    /\ UNCHANGED <<slot, changed, failed, diskVars, dangling, queueVars, mainVars,
                   scope>>

\* It ends, is cancelled or fails; the marks it did not use are taken back.
BakeEnd ==
    /\ op = "bake"
    /\ changed' = changed \ (pinned \ failed)
    /\ scope' = {} /\ pinned' = {}
    /\ Return
    /\ UNCHANGED <<slot, failed, unsaved, diskVars, historyVars, queueVars>>

----------------------------------------------------------------------------
UpdateThread == UpdateBegin \/ UpdateApply

MainCall ==
    \/ \E t \in Tiles : \/ EnterTile(t) \/ UnloadFarTile(t) \/ Edit(t) \/ Undo(t)
                        \/ QueueUpdate(t) \/ PlaceObject(t) \/ ReloadTile(t)
                        \/ ImportBegin(t) \/ ForceBegin(t) \/ MinimapBegin(t)
    \/ \E s \in Saves, t \in Tiles : SaveBegin(s, t)
    \/ \E S \in SUBSET Tiles : BakeBegin(S)

MainReturn ==
    \/ WaitReturn \/ SaveFinish \/ ImportSave \/ Release \/ ForceApply
    \/ MinimapLoaded \/ MinimapEnd \/ BakeEnd

Next ==
    \/ \E t \in Tiles : FinishLoading(t)
    \/ UpdateThread
    \/ MainCall
    \/ \E t \in scope : BakeTile(t)
    \/ MainReturn

Spec == Init /\ [][Next]_vars

\* The workers, the update thread and the rest of a call once made are
\* scheduled; nothing obliges the user to call.
FairSpec ==
    /\ Spec
    /\ \A t \in Tiles : WF_vars(FinishLoading(t))
    /\ WF_vars(UpdateThread)
    /\ WF_vars(MainReturn)

----------------------------------------------------------------------------
\* Properties

\* The types of the variables; only a loaded tile carries flags or edits, and
\* the update thread never works on a tile loadTile returned null for.
TypeOK ==
    /\ slot \in [Tiles -> {"empty", "loading", "loaded"}]
    /\ changed \in SUBSET Loaded /\ failed \in SUBSET Loaded
    /\ unsaved \in [Tiles -> SUBSET Kinds]
    /\ \A t \in Tiles \ Loaded : unsaved[t] = {}
    /\ onDisc \in SUBSET Tiles /\ files \in SUBSET Tiles
    /\ undo \in SUBSET Tiles /\ dangling \in SUBSET undo
    /\ pending \in Seq(Tiles \X Intents)
    /\ held \in (Tiles \ Missing) \cup {NoTile} /\ stale \in BOOLEAN
    /\ op \in Ops /\ target \in Tiles \cup {NoTile} /\ unload \in BOOLEAN
    /\ scope \in SUBSET Tiles /\ pinned \in SUBSET scope

\* An edit made with a tool that is not on disk is in a loaded tile which
\* either is marked or remembers that its save failed: the two things the
\* sweep, the imports and the minimap look at before they release a tile.
EditsGuarded ==
    \A t \in Tiles : "terrain" \in unsaved[t] =>
        t \in Loaded /\ (t \in changed \/ t \in failed)

\* While a bake runs, and the tick goes on streaming, every tile it has
\* pointers into stays in memory.
ScopeIsAlive == scope \subseteq Loaded

\* The tile an operation is about to release or to unmark holds no edit made
\* with a tool, or its failed save keeps it.
Discardable(t) == t \in failed \/ "terrain" \notin unsaved[t]

\* Why EditsGuarded holds: what each operation knows when it resumes; the
\* update thread holds a tile for the update at the front of the queue.
OperationInv ==
    /\ held # NoTile => pending # <<>>
    /\ op # "bake" => scope = {}
    /\ scope \subseteq changed
    /\ \A t \in pinned : Discardable(t)
    /\ op \in {"release", "minimap", "minimapLoad", "import", "force"} =>
          target \in Tiles \ Missing
    /\ op = "release" => target \in Loaded /\ Discardable(target)
    /\ op \in {"minimap", "minimapLoad"} /\ unload => Discardable(target)

\* The inductive invariant.
IInv == TypeOK /\ EditsGuarded /\ OperationInv

\* Edits made with a tool leave the memory only to the disk, or when the user
\* reloads the tile: no other step destroys a tile that has them.
EditsKept ==
    [][\A t \in Tiles : "terrain" \in unsaved[t] =>
          slot'[t] = "loaded" \/ ReloadTile(t)]_vars

\* When saveall reports success, nothing is left in memory only, the object
\* updates queued before it included.
SavedMeansOnDisk ==
    [][op = "saveall" /\ op' = "idle" /\ failed' = {} =>
          pending' = <<>> /\ \A t \in Tiles : unsaved'[t] = {}]_vars

\* A tile recorded as being on disk has a file there.  It holds on maps all of
\* whose tiles exist (see for_tile_at_force).
OnDiscHasFile == onDisc \subseteq files

\* A save that was asked for is carried out: the queue it waits for empties.
SaveReturns == op \in Saves ~> op = "idle"

\* What the comments of the code say and the code does not keep to.

\* map_enums.hpp: a tile with a user_edit must not be unloaded.
UserEditKept ==
    [][\A t \in Tiles : "objects" \in unsaved[t] => slot'[t] = "loaded"]_vars
=============================================================================
