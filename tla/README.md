# Noggit Crimson in TLA+

Noggit Crimson is an editor for game maps. A map is a grid of 64 x 64 tiles, each
a file on disk (an ADT), which refer to models and textures. The editor
streams tiles around the camera, loads everything they refer to on a pool of worker
threads, lets tools change them, and writes them back; it edits the spawns of
a game server's database in the same view. The part of the program
that is hard to get right, and that no unit test of the repository
reaches, is what happens *between* these activities: a tile that is released while
another thread has a pointer into it, a save that fails for one file out of ten, an
object that moves onto a tile that is just being loaded, a changeset that stops in
the middle. This directory holds TLA+ models of that part, TLC configurations that
check them on small instances, and proofs of their main properties for instances of
any size.

All paths below are relative to `src/src/noggit/` unless they say otherwise.

    AsyncLoader        the worker pool and the waiting for its objects
    LoaderContract     what the pool promises about one object
    AssetCache         the counted cache of models and textures, on top of AsyncLoader
    MapTiles           the tiles of a map: streaming, edits, saves
    UpdateQueue        the thread that puts moved objects onto tiles, and its locks
    ObjectInstances    the objects by uid, their counts, their rows in the ADTs, the uids
    SafeFileWrite      how a file is written
    AtomicFile         what that promises
    ActionHistory      undo and redo
    SpawnStaging       staged spawn edits, changesets and the database

`XProofs.tla` has the proofs about `X.tla`, `MCX.tla` its instances for TLC, and
`MCX_run.cfg` one run. PROJECT.json lists components, runs, mutants, the map
from definitions to source lines, hazards, findings and theorems. To check one run:
`tlc -config MCMapTiles_safety.cfg MCMapTiles`; to check the proofs of a module:
`tlapm MapTilesProofs.tla`.

## 1. Inventory

Which component keeps which state, what it offers, whom it calls, and what has to be
right about it. "Threads" below are: the main thread (Qt's event loop, which
runs tools, saves and the tick that draws and streams), the workers of the
loader, and the thread of the tile update queue.

### Loading

**Asynchronous loader** (`AsyncLoader`, `AsyncObject`). State: a queue per
priority, the list `_currently_loading`, the flag for a failed object that a save
needs, `_stop`, and in each object `finished` and `_loading_failed`. Operations:
`queue_for_load`, `process` (the workers), `ensure_deletable`,
`wait_until_loaded`, `important_object_failed_loading`/`reset_object_fail`, the
destructor. Called by every owner of an object, from all three kinds of thread;
`finishLoading` of an object queues its children from a worker. Hard: one condition
variable shared by workers and by threads that wait to delete, notified with
`notify_one`; exception handlers; destruction of objects that may be queued or
in a worker's hands. Correct if an object is loaded at most once and in the order of
priority, is never destroyed while the loader holds it, and everyone who waits
returns. **Modelled** (section 2).

**Caches of models and textures** (`AsyncObjectMultimap`, `ModelManager`,
`TextureManager`, scoped references). State: per file and render context an element
and a count. Operations: `emplace`, `erase`, copies and moves of references. They call
the loader. Hard: `erase` gives its mutex up between the count and the deletion. Correct
if an element lives exactly as long as a reference to it, a file is loaded once per
context, and what is referred to comes to be loaded. **Partly modelled** (section 3):
everything but the assignment operators and what an element's own destructor
releases.

### Tiles and objects

**Map tiles** (`MapIndex`, the flags of `MapTile`). State: the table of tiles with
`changed`, `_last_save_failed`, `onDisc`. Operations: `loadTile`, `enterTile`,
`unloadTiles`, `unloadTile`, `reloadTile`, `saveTile`, `saveChanged`, `saveall`,
`markOnDisc`, `unsetChanged`, `update_model_tile`, `addTile`, `removeTile`. Called by
the tick, by tools, imports, bakes and the minimap on the main thread, and by the
update thread. Hard: the flag `changed` is the only thing between an edit and its
loss, and several operations set it, clear it and act on a value they read before.
Correct if no edit leaves the memory except to the disk, a pointer into a tile
lives as long as its user, and a successful save has saved everything.
**Partly modelled** (section 4).

**Tile update queue** (`world_tile_update_queue`). State: a queue of moved objects, a
thread. Operations: `queue_update`, `wait_for_all_update`, `process_queue`, the
destructor. It calls `MapIndex::update_model_tile`, which loads tiles and waits for
them; saves, `delete_instance` and the minimap wait for the queue. Hard: one condition
variable for both directions, and every wait of the main thread hangs on a thread that
itself waits for the loader. Correct if no notification goes to the wrong thread, a
removal has reached every tile when its wait returns, and every wait returns.
**Modelled** (section 5).

**Object instances** (`world_model_instances_storage`). State: objects by uid, a count
of tiles per uid. Operations: add, delete, unload, duplicates. Called from workers (a
tile that loads adds its objects), from the main thread and, through tiles, from the
update thread. Hard: the same object arrives from several tiles, in any order, next to
other objects that have its uid. Correct if an object is stored once, lives as long
as a tile that lists it, and keeps its rows on disk. **Partly modelled** (section 6).

**Unique ids** (`uid_storage`, `newGUID`, `fixUIDs`, `searchMaxUID`). State: the
highest id in memory and on disk. Correct if no id is handed out twice, over
crashes too. **Partly modelled** (section 6).

**File writing** (`SafeFileWrite`, `DBCFile::save`, the writer of md5translate.trs). A
temporary file, a backup, a rename. Correct if at any crash or failure a complete file
is left, and the user hears of a failure. **Modelled** (section 7).

### Editing history

**Undo history** (`ActionManager`, `Action`). State: a stack of actions with a limit,
the running action, an undo index. An action stores images of chunk data, and names
objects by uid. Hard: the limit, the discarded redo actions, an object that comes back
under a new uid, a finish that fails. Correct if undo and redo, in any order, lead to
the map as it was at that place of the history. **Modelled** (section 8).

### Spawns and the database

**Staged spawn edits** (`SpawnSceneCache`), **changesets** (`ChangesetBuilder`),
**database connection** (`WorldDatabaseConnection`). Spawns are moved in the view,
staged, written as a file of SQL and applied statement by statement without a
transaction, while the game server uses the database. Hard: any step may fail with the
others done, and a placed spawn has no guid yet. Correct if a staged edit is lost only
when the user gives it up, and a changeset touches nothing but what is in it.
**Modelled**, the changesets and the connection **partly** (section 9).

### Not modelled

The entry points of `World`, of the view and of the tools that load, mark, save or
release tiles are actions of MapTiles; the rest of them is geometry and user interface.
Tile and chunk contents, the WDL and the DBC tables are file formats and numeric code.
Spawn queries, the terrain algorithms, the asset packer, rendering, the user interface,
scripting and the node editor, start-up and external code are pure conversions,
floating-point kernels, sequential input and output, calls of the same functions the
tools call, or third-party code. Two components have state of their own and are left out
all the same:

- **Terrain masks** (`TerrainMaskStore`, `TerrainMaskHistory`): named masks and a
  history that exchanges images under a byte budget. Everything is on the main thread,
  in the order of the user's strokes, and has unit tests. Section 11 lists what reading
  them showed.
- **The map creation wizard** (`addTile`, `removeTile`, `save_unloaded`): a dialog of its
  own that changes the WDT, on which MapTiles is built as a constant (`Missing`).

## 2. AsyncLoader

### State and actions

Each worker and each other thread ("client") has a program counter, `wpc` and `cpc`,
and the object it is about. Critical sections under `_guard` are one step. Where the
code stores to shared memory without the mutex of the reader, the steps are apart:

| in the code | in the model |
|---|---|
| the wait and pop of `process`, `AsyncLoader.cpp:36-69` | `Take`, `Sleep`, `Exit` |
| the end of `finishLoading`: `finished = true`, then `notify_all` | `FinishStore`, `FinishNotify` |
| erase from `_currently_loading`, `notify_all`, 89-93 | `Report` |
| both exception handlers, 95-122 | `Fail` (takes `_guard`), `FailNotify`, `FailReport` |
| `queue_for_load`, 125-130 | `QueueForLoad`, which wakes one sleeper, worker or not |
| `wait_until_loaded`, `AsyncObject.cpp:27-43` | `WaitUntilLoaded`, `WaitReturn`, `WaitUnmet`, `WaitSleep` |
| `ensure_deletable`, 132-154 | `EnsureDeletable`, `EnsureUnqueue`, `EnsureReturn`, `EnsureSleep` |
| the owner's delete | `Delete` |
| `MapView::save`: asks for the failure flag, later resets it | `SaveCheck`, `SaveReset` |
| destructor, 169-181 | `Shutdown` |

A condition variable is the set of threads at its "asleep" location. Spurious wakeups
are not modelled: they could only help a thread that has missed a notification, and
the standard does not promise them.

Simplifications: the object's own mutex between two waiters of one object is left out
(it orders waiters, and the threads that store do not take it); `blp_texture` sets
`finished` before it throws on a file that is missing, which ends waits earlier than
the model; the reset of the failure flag when a map is left (`MapView.cpp:5353`) is
left out, since a map that is left is not saved any more; the loader is set up with
three threads in `application/NoggitApplication.cpp:311`, `Workers` is any set.
Clients follow the rule the callers keep: nobody starts to use an object whose owner
is deleting it, and an owner does not delete what others use. (AssetCache replaces this
rule by what the cache does.)

### Contract

`LoaderContract` says in six actions what the loader promises about an object:
absent, queued, loading, done or dropped, then absent again; `Start` may not overtake
a more urgent queued object. `AsyncLoader` implements it under the mapping `status`;
`KeepsContract` is checked by TLC and proved.

### Runs

| run | instance | checks |
|---|---|---|
| loader_safety | 3 objects of 2 priorities, one may fail and is needed for saving, 2 workers, 2 clients, 4 creations | `IInv`, `DeletableIsReleased`, `KeepsContract` |
| loader_liveness | 2 objects, none fails, 3 creations | `QueueDrains`, `BlockedWaitersReturn`, `EnsureReturns`, `ShutdownJoins` |

Two workers and two clients are the least for which every pair of roles meets: two
workers on different objects, a worker against a client that waits or deletes, two
clients on one object, and a sleeping client that receives the notification meant for
a sleeping worker. Three objects let an urgent and two other ones be queued; one
creation more than there are objects means that an address is used again after a
delete. `CHECK_DEADLOCK FALSE`: after a shutdown, or when the bound on creations is
reached and nobody calls, the system stops.

Fairness (`FairSpec`): weak fairness of each worker's step and of each client's step
inside a call; both are threads that the operating system schedules. Nothing obliges
anybody to call. `QueueDrains` is true for finitely many created objects: with an
endless stream of urgent ones a less urgent one may wait for ever, as its priority
says.

### What the runs show

With objects that load, the loader keeps its promises, and the notification
`queue_for_load` gives to the wrong thread does no harm: a thread in
`ensure_deletable` sleeps only while a worker is loading its object, and that worker
notifies everybody when it is done. That argument needs the notification of line 92,
and line 92 is exactly what the exception handlers lack: when a load fails, both
take the object off `_currently_loading` without a notification, and a thread
that already sleeps in `ensure_deletable` for it stays there. This is why the liveness
run has no object that fails, and `AssetsLoad` (section 3) is stated for executions
in which nothing does.

`BlockedWaitersReturn` is worded with care as well. A thread in `wait_until_loaded`
holds the object's mutex from its predicate to its block, but `finishLoading` and
`error_on_loading` store `finished` and notify without it; between the two they are
missed. What does hold is that a thread that was asleep before the store is woken.

## 3. AssetCache

### State and actions

`AssetCache` extends `AsyncLoader`: its steps are steps of the loader with the cache's
part added, and the loader's workers run in between. `elements` and `counts` are the
two maps of `AsyncObjectMultimap`, `refs` and `target` what each scoped reference holds
(a key and a raw pointer), `epc` and `ekey` where a thread is inside `erase`. The pointer
of a key that is loaded again may be the address of an earlier element: objects are
addresses.

| in the code (`AsyncObjectMultimap.hpp`) | in the model |
|---|---|
| `emplace` of a counted key, copy of a reference | `EmplaceAgain` |
| `emplace` of a new key: construct, `queue_for_load` | `EmplaceNew` |
| `emplace` between the two critical sections of an `erase` | `EmplaceCrossing` |
| a reference is moved | `Move` |
| `erase`: the count, under the mutex | `Release` |
| `finishedLoading()`, and `ensure_deletable` if not | `Check`, `Ensure` |
| the deletion, under the mutex again | `RemoveEnsured`, `RemoveFinished` |

References are made by workers (a tile that loads refers to its models) and by the
other threads, and released by the others: a worker that finds its object to be a
duplicate drops a reference whose original keeps the count.

Two things go wrong between the steps of `erase`, and the model has both. After each
of them freed memory is used, so the model notes it in `undefined` and ends:

- *crossed*: another thread's `emplace` finds the count 0 and the element still there,
  gets the old element, queues it a second time, and has it deleted under it
  (`AsyncObjectMultimap.hpp:83-101`).
- *overtaken*: `erase` asks `finishedLoading()` and not the loader (91-95). The worker
  that stored `finished` has yet to notify on the object and to take it off
  `_currently_loading`.

### Run

`cache_safety`: two files that share two addresses, one more urgent and able to fail,
three references, two workers, two other threads, four creations; 271 288 states. It
checks `CacheIInv`, `ReferencesAreAlive`, `UsesContract` and, under fairness,
`AssetsLoad`. Two files and two addresses let an address be used again for the other
file while a worker is still busy with the first; three references let a key be held
twice while the other is dropped and made again. The fairness is that of the loader, and
of a thread inside `erase`.

`UsesContract` is the composition's point: whatever the cache does, it is something
`LoaderContract` allows, but for the one deletion that overtakes a worker.
`AssetsLoad` says that what is referred to comes to be loaded, *if nothing fails*: TLC
showed that an eraser left asleep by a failed load takes the `notify_one` of the
next `queue_for_load`, and that asset is never loaded although a worker sleeps.

## 4. MapTiles

### State and actions

`slot` is the table: no object, one that loads, one that is loaded. `changed`, `failed`
and `onDisc` are the flags of the code as sets of tiles, `files` is what is on disk.
`unsaved[t]` is a history variable, what the properties are about: which kinds of edit
are in the memory of `t` and not in its ADT, from a tool ("terrain"), from
the update thread ("objects"), or from undo and redo ("history"). `undo` are the tiles into whose
chunks the undo history has pointers, `dangling` those of them whose object is gone.
`pending`, `held` and `stale` are the update queue with the intent of each update
(`tile_dirty_intent`), the tile its thread has a pointer to, and whether that pointer
dangles. `op`, `target`, `unload` are where the main
thread is inside an operation that waits, and the local variables it will use after
the wait; `scope` and `pinned` are the pointers of a bake.

| in the code | in the model |
|---|---|
| a worker finishes a tile | `FinishLoading` |
| `process_queue` and `update_model_tile` | `UpdateBegin`, `UpdateApply` |
| `enterTile`, `unloadTiles` in the tick | `EnterTile`, `UnloadFarTile` |
| a tool, undo, an object moved | `Edit`, `Undo`, `QueueUpdate`, `WaitReturn` |
| `addM2`, `addWMO` and their siblings | `PlaceObject` |
| "Reload tile" | `ReloadTile` |
| the three saves, and the purge of the history in `MapView::save` | `SaveBegin`, `SaveFinish` |
| the imports of `World.cpp`, tile by tile | `ImportBegin`, `ImportSave`, `Release` |
| `for_tile_at_force` | `ForceBegin`, `ForceApply`, `Release` |
| `WorldRender::saveMinimap` | `MinimapBegin`, `MinimapLoaded`, `MinimapEnd` |
| a bake of ambient occlusion, or of ground effects | `BakeBegin`, `BakeTile`, `BakeEnd` |

The order inside the operations is the code's: "unload" is decided from the table
before the tile is loaded, and used after the save; a save waits for the update queue
before it writes; the result of each write and of the WDL is a free choice, so every
partial failure occurs.

Simplifications, and why they lose nothing the properties are about:

- `loadTile` is one step. The race of two calls for one slot (`map_index.cpp:532`) is
  therefore not in this module.
- The test and the release of one tile in the sweep of `unloadTiles` are one step,
  although the update thread runs between them; a step earlier or later of that
  thread gives the interleavings.
- A save is one step once the queue is empty: only the main thread queues the updates
  a user makes, and it is in the save.
- The bookkeeping updates of a tile that loads are left out, since they set no flag; those
  of objects the user places are in. One update concerns one tile; a moved object that
  touches several is several updates, in any order. UpdateQueue has the threads in
  detail, ObjectInstances the objects.
- A pin count exists in `MapTile`, but `pinTile` and `unpinTile` have no caller.
- The limit of the undo history and the order in it are in ActionHistory; `undo` is the
  set of tiles that some action points into. The imports that take a whole map purge it
  first, as their dialog says.
- A pointer that dangles reaches no tile; what a write through it does to the heap is
  not modelled.

### Runs

| run | instance | checks |
|---|---|---|
| tiles_safety | 2 tiles, all calls, 1 pending update | `IInv`, `ScopeIsAlive`, `OnDiscHasFile`, `EditsKept`, `SavedMeansOnDisk` |
| tiles_missing | 1 tile and 1 that is listed and has no ADT, all calls, 2 pending updates, fairness | `SaveReturns` |
| tiles_placed | stream, place | `UserEditKept` is violated |

Two tiles are what a partial failure needs, one written and one not, and what it takes
for the tile of an operation and the tile of the update thread to be different or
the same; no action relates three. One pending update suffices for the races, since
the update thread handles one at a time; the missing run has two so that one can be
stuck behind another. The tiles of one kind are interchangeable, and TLC uses that
symmetry where no liveness is checked. tiles_placed restricts `Calls`, so that its
counterexample shows one thing.

Fairness (`FairSpec`): every tile that loads finishes (the loader's liveness, or the
`finished` its exception handlers store), the update thread runs, and the main thread
goes on with a call it has begun. A call, an edit or a tick never has to happen.

### What the runs show

The design holds for edits made with tools, and that is proved: whatever
fails and whatever runs at the same time, no step but the user's "Reload tile"
releases a tile with such an edit that is not on disk. It rests on the two flags
together: the sweep respects `changed`, and `unloadTile` respects
`_last_save_failed`.

It does not hold for objects the user places (**tiles_placed**). `addM2` and `addWMO`
hand a new object to the storage as if it came from a tile that is read again; the
update is queued as bookkeeping, `update_model_tile` does not mark the tile for it, and
the sweep releases the tile with the object. `map_enums.hpp` says that a tile the user
changed must not be unloaded and must be offered for saving.

## 5. UpdateQueue

### State and actions

`queue`, `asleep` and `stop` are the queue, the threads blocked on `_state_changed`, and
`_stop`. `updater`, `left` and `visiting` are where the update thread is, which tiles the
update in hand has yet to reach, and the one it waits for. `tile`, `todo` and `adding`
are the workers that finish tiles: what they have yet to hand to the storage, and the
renumbered object one of them has stored and is about to queue. `locked` is the
storage's mutex in `delete_instance`. `registered` is `MapTile::uids`.

| in the code | in the model |
|---|---|
| the predicate and the block of `process_queue` | `UpdaterDecide`, `UpdaterBlock` |
| `apply_update`: each tile loaded, waited for, changed | `UpdaterVisit`, `UpdaterRegister` |
| pop and `notify_all` | `UpdaterPop` |
| `add_model_instance` by a worker; the update of a renumbered object, after the mutex | `WorkerStore`, `WorkerQueue`, `WorkerFinish` |
| `queue_update` and its wait after a removal | `QueueUpdate` in `Add`, `Move`, `Delete`; `WaitCheck`, `MoveAdd` |
| `wait_for_all_update` | `Wait`, `WaitCheck`, `WaitReturned` |
| `delete_instances`, `delete_instance` | `Delete`, `DeleteInstance`, `DeleteLock`, `DeleteErase` |
| destructor | `Stop`, `StopNotify`, `Join` |

The update thread blocks in two steps, since `_stop` is stored without the mutex. The
wait for a model (`wait_until_loaded` before an update is queued) is left to
AsyncLoader.

### Runs

| run | instance | checks |
|---|---|---|
| updates_safety | 2 tiles under the boxes of 2 objects, one of them renumbered, all calls, 2 updates queued | `IInv`, `NobodyOversleeps`, `DeletedIsGone`, `RemovedIsGone`, `WaitReturns` |
| updates_delete | the same, none renumbered, streaming and `delete_instance` only | `DeleteReturns` is violated |

Two tiles let an update be half applied; one object in both ADTs and one in a single ADT
give workers that store and queue while the user deletes. There is one main thread, so two
kinds of waiting thread are all there are. `CHECK_DEADLOCK FALSE`: the user may ask for
nothing more, and the editor may be left. Fairness: the update thread, the rest of a call
of the main thread, and the worker of each tile are scheduled; mutexes and the condition
variable are fair to nobody.

### What the runs show

`NobodyOversleeps`: although one `notify_one` serves two kinds of waiters, it never goes
wrong, because the update thread sleeps only on an empty queue and the main thread only
on one that is not. `RemovedIsGone`: when the wait of a removal is over, every tile the
object touches is loaded and does not list it, so nothing brings it back. Both are
proved. `DeletedIsGone` leaves renumbered objects out: for those a worker queues an
update that the user's deletion may be ahead of, and the queue then has a
dangling pointer.

**updates_delete.** `delete_instance` waits for the queue with the storage's mutex in
hand. The callers that take an object off its tiles first are safe, since all its tiles
are loaded then; undo of a placed object and the chunk clipboard do not, and the main
thread, the update thread and a worker wait for each other for ever.

Also seen: `_stop` is stored and notified without the mutex, so that a notification
between the update thread's predicate and its block is lost and `join` never returns.

## 6. ObjectInstances

### State and actions

An object lies at a place; a place touches one tile or several and has its centre on one
of them. `inst` and `count` are the storage: per uid the object (with the transform it
had before its first move of the session, `home`) and its number of tiles. `uids` is
`MapTile::uids`, `rows` what the ADTs on disk list, `todo` what a tile that loads has yet
to hand over; `queue` are the updates of the previous section. `highest` and `storedMax`
are the highest uid in memory and in uid.ini. `past` is a history variable: what became
of an object since the map was entered.

| in the code | in the model |
|---|---|
| `loadTile`, the rows of an ADT handed to the storage, the end of loading | `Load`, `StoreRow`, `FinishTile` |
| `isDuplicateOf`, a row that is left over from before a move | `IsDuplicateOf`, `IsLeftoverOf` |
| a uid that another object has | `StoresAs` with a fresh uid |
| the update thread | `ApplyUpdate` |
| `remove_models_if_needed` | `Release` in `Unload`, `Reload` |
| moves, snapping, placing, deleting | `MoveBegin`, `MoveEnd`, `Snap`, `Place`, `DeleteBegin`, `DeleteEnd` |
| the saves, any part of which may fail | `SaveAll`, `SaveChanged`, `SaveTile` |
| the imports | `Import` |
| start of the editor after a quit or a crash | `Start`: `searchMaxUID` or `loadMaxUID` |
| `fixUIDs`, with a crash after any of its tiles | `FixUIDs` |

M2s and WMOs follow the same code and are one kind. Left out: `clear_duplicates`,
`delete_instances_from_tile`, the MySQL storage of uids, an optional build.

### Run

`objects_safety`: two tiles; an object across their border; two objects that have one
uid and stand on different tiles, one of them drawn from the same model as the first;
one that is not placed yet; a second place across the border to snap to; one edit, one
queued update, uids up to 3. This is the least map on which the storage has to tell apart all it has to: the second row of an object,
the stale row of a moved one, another object with the same uid and the same model, and
one with the same uid. One edit suffices for what the properties say (an object moved
once, or others edited around one that is not); a second edit is where the observations
of section 11 begin. Loads, unloads, partial saves, imports, restarts and uid fixes are
not bounded.

`UidsBelowHighest` says that `newGUID` never gives out a uid that is in use, though
`storedMax` falls behind over imports and crashes; it rests on the search at the start
(`uid_startup_check`). `CountIsListed`, `StoredOnce` and
`NothingIsLost` are about objects nobody touched or, for the second, moved at most once:
what streaming, partial saves, imports and fixes alone do to a map. All four are proved
(section 10). An object that shares its uid with another on the map is left out where the
code does not keep the promise (`Known`): when it touches several tiles, each of which
gives it a uid of its own, so that it is stored once per tile; and when something was
edited, since an edited object, or one whose update is still queued over a reload, can
leave its uid on the list of a tile that the other one seems to be on then.

## 7. SafeFileWrite

### State and actions

A file has three names: `target`, `tmp` and `bak`, each with a version that is whole or
cut off. `pc` is where its save is; `version` what the memory holds, `confirmed` the
last version whose save returned true. `pending` and `posts` are the failures that wait
for a dialog and the flushes that are posted to the event loop.

| in the code (`SafeFileWrite.cpp`) | in the model |
|---|---|
| `create_directories`, open, write and close, remove | `CreateDirectory`, `Open`, `Write`, `Discard` |
| the backup by copy | `Backup`, `Copy` |
| the rename, and the return | `Rename`, `ReturnTrue` |
| `reportSaveFailure`, and the post | `ReportSaveFailure`, `Post`, `Unlatch` |
| `showPendingSaveFailures` | `ShowPendingSaveFailures` |
| the program ends anywhere | `Crash` |

`DBCFile::save` and the writer of md5translate.trs repeat these steps with small
differences (`DBCs`, `Indexes`): what is checked when, and who is told. A power
failure, which leaves to the file system what of a closed file is on disk, is not
modelled: the code neither syncs nor says anything of it. Saves of one file do not
overlap: all are made by the main thread. The patch packer
(`assets/PatchAssetPacker.cpp`) writes without any of this.

### Run

`file_faults`: a map file, the index and a DBC, three saves, any call failing, a crash
anywhere. It checks `IInv`, `ConfirmedIsOnDisk`, `Atomic` and, under fairness,
`FailuresAreShown`. Three files of three kinds let a failure join another that waits;
three saves let one file be saved twice, with a crash in between, while another fails.
Fairness: a thread inside a save goes on, and the event loop runs what was posted.

`AtomicFile` is the header's promise in five actions: the contents change in one step
from one complete version to the next. `Atomic` says that `SafeFileWrite` implements it,
and is proved.

## 8. ActionHistory

### State and actions

`stack`, `undone` and `running` are `_action_stack`, `_undo_index` and `_cur_action`. An
action has an image per cell (an aspect of a chunk, or an area trigger) from before its
first change and one for redo, and an entry per object. `cells` and `placed` are the map;
`nextUid` gives uids to new objects. `was` and `wasAt` are history variables: the map
as it was before each action that has ended, and after the last. `astray` and `strays`
are the cells and objects for which a gap of the history is known.

| in the code | in the model |
|---|---|
| `beginAction`, with the limit and the actions undone | `Begin`, `BeginHidden` |
| `endAction`, `endActionOnModalityMismatch`, `finish` | `End`, `EndHidden`, `EndFails` |
| the registrators of `Action` | `EditCell`, `AddObject`, `MoveObject`, `RemoveObject` |
| `undo`, `redo`, the navigator | `Undo`, `Redo` |
| objects that come back under new uids | `Replay`, `Renamed`, `PlacedAfter` |
| `purge`, and operations that cannot be undone | `Purge` |

All chunks are taken to stay loaded; that the code's pointers may dangle is in MapTiles
(`undo`, `dangling`).

### Run

`history_safety`: a chunk aspect that can be redone and one that cannot, two spots for
objects, a limit of 2, three edits, uids up to 3. The map has no object at the start; one
that was added before a purge is as good as one that was loaded. It checks `IInv`,
`CellsAreRestored` and `ObjectsAreRestored`. A limit of 2 is the least at which an action
is dropped with another left; three edits are one more than the limit, so that one of
them is dropped, undone or lost with the redo actions; larger instances (a limit
of 3, six edits, six uids, an object at the start) were simulated without a
counterexample. The two values of a cell are interchangeable, and so are the two spots. The run has no `CHECK_DEADLOCK`: an action can always begin or
end.

The properties leave out exactly what the code loses: cells that a hidden action changed,
cells whose redo image `finish` never takes or failed to take, and objects (`strays`)
that another action names by a uid they do not have any more, or that are redone after a
move of them was cut short.
`ObjectsAreRestored` says of every other object that it is where it was at that place of
the history, and stored under one uid, whichever of its uids that is. The run
checks with `IInv` the invariant of the proof, of the objects as well as of the cells.

## 9. SpawnStaging

### State and actions

`rows` and `addon` are the tables `creature`, `gameobject` and `creature_addon`, `issued`
the highest guid a table ever had. `scene`, `removed` and `next` are the editor's cache:
its entries, its tombstones and the counter of provisional guids. `files` are the
changesets written, `job` the one being applied and which of its statements are left.

| in the code | in the model |
|---|---|
| `loadDatabaseSpawnsForTiles` | `Load` |
| `moveTo`, `rotateTo`, `addCreature`, `addGameObject`, `remove` | `Move`, `Place`, `Remove` |
| `discardPending`, the view left | `Discard`, `Leave` |
| `saveDatabaseChanges` into a file; into the database too | `SaveFile`, `SaveApply` |
| the file applied by hand, at any time | `ApplyByHand` |
| the statements `build` emits, one by one | `Allocate` ... `UpsertAddons` |
| a statement or the connection fails; the last one is done | `Fail`, `Succeed` |
| the game server adds a spawn | `ServerAdds` |

The script's order is the code's, and a statement with nothing to do is left out of it.
Columns of a row other than its place are part of what the spawn is. The server only
adds: a game master who moves or deletes a spawn by hand is not modelled (what the editor
staged overwrites it, by design).

### Run

`spawns_safety`: a creature with an addon, a gameobject with the same guid far away, a
creature to place and one the server adds; provisional guids from 1 on, so that they
collide with real ones; guids up to 3; one changeset, applied any number of times, by
hand and by the editor, failing after any statement, while the user goes on editing. One
changeset is enough for the retries the properties are about, and all of them are
proved for any number. `CHECK_DEADLOCK
FALSE`: user and server may stop.

`NamesAreUnique` and `OthersSurvive` are about the guids: provisional ones may run
into real ones and may wrap, and yet no changeset names the row of a spawn that was never
staged. `AppliedIsComplete`, `Reapplicable` and `NothingIsLost` are about failure:
a script that stopped anywhere can be run again, and nothing staged is lost meanwhile.

## 10. Proofs

The proof modules are checked by TLAPS. Their only assumptions are those named in the
modules: priorities are 0 to 2, workers and clients are different threads, the "none"
values are none of the others, `Missing` and `Calls` are subsets of what there is,
places touch the tile they are on, the first rows of a table have different names, and
so on. The sets of objects, threads, tiles, files and spawns are any sets (finite where
something is counted), and every bound is any number.

**AsyncLoader.** `IInv` conjoins the types with five facts. `QueueInv`: a queued object
is alive, in the queue of its priority, once, and neither loading nor finished.
`BusyInv`: `_currently_loading` is exactly what busy workers hold, each object one
worker. `GuardInv`: only a worker inside a handler holds `_guard`. `ClientInv`: an
owner that deletes is alone with its object. `DeletableIsReleased`: after
`ensure_deletable` returned nothing holds the object. The last is what one
wants; it is not inductive alone, because a worker that takes the head of a queue
has to be known to take something else, which needs the queue to hold an object once
and `ensure_deletable` to have removed that one. The proof has a lemma per conjunct
of `IInv` and in it a case per action, on top of three lemmas about sequences.
`Implementation` then shows that each step changes `status` as one
action of `LoaderContract` or not at all; `TakeStarts` is the case with the
priorities.

**AssetCache.** `CacheIInv` adds to the loader's `IInv` that a thread inside `erase` is
alone with its key (`EraserInv`), that elements and living objects correspond
(`ElementInv`), that a reference points to the element its key has, and that the count of
a key is the number of its references. The first three are claimed until something
goes wrong, the last two until an emplace has crossed an erase. The proof reuses the
loader's: every step but one is a step of the loader or leaves it alone, so `IInv` and
the contract carry over by `LoaderStep` and `ContractStep`; what is to be shown
is that the cache calls the loader only where it may. `RemoveFinishedStep` is the one
that does not ask the loader, and has a proof of its own.

**MapTiles.** `IInv` conjoins `TypeOK`, `EditsGuarded` (a tool's edit that is not on
disk is in a loaded tile that is marked or remembers a failed save) and `OperationInv`,
which says what a suspended operation may rely on when it resumes: the tile it
is going to release is `Discardable`, a bake's tiles are marked, a
mark the bake may take back guards nothing. Without `OperationInv`, `Release` and
`MinimapEnd` would break `EditsGuarded`, since they use the flag they read earlier.
There is a lemma per action. `EditsAreKept` and `SavedIsOnDisk` are action properties
that follow from the invariant; `OnDiscIsTrue` has an invariant of its own, for maps
all of whose tiles exist.

**UpdateQueue.** `RemovedIsGone` needs to know, while the removal is still in the queue,
that only bookkeeping is behind it (`RemovalInv`), and while it is applied, that the
tiles already left behind are loaded and free of the object (`AppliedInv`);
`TileInv` says that a loaded tile has nothing to come. `NobodyOversleeps` is inductive
with `ThreadInv`. A lemma per action.

**ObjectInstances.** The types, which include that a uid is counted exactly while
it is stored, and `UidsBelowHighest`, which is inductive with them: rows are
written from instances in memory, and instances get the highest uid or one of a row.
`CountIsListed`, `StoredOnce` and `NothingIsLost` hold together or not at all: whether a
row is taken for an object that is stored depends on the rows of all its tiles, on
what the queue has yet to do, and on the marks of tiles that are not saved. The invariant
says what is the case under two regimes. `Owned`, for an object with a uid of its own:
while nobody moves it (`AsOnDisk`), it is listed on a tile exactly from when its row there
was handed over until the tile goes, and the count is the number of those tiles; after
its one move (`Moving`, `MoveSaved`, `MoveDropped`), each tile on which its old row
is left is marked, or an update that will mark it is queued, or the tiles were dropped and
all rows are the old ones. `Undisturbed`, for an object of one tile that shares its uid
with others, while nothing is edited: it is stored once the row was handed over, under
whatever uid, and a uid that several objects have is none that `newGUID` gave out
(`CountedRight`), so that a renumbered one never takes the count of another.

**SafeFileWrite.** `IInv`: what is about to be renamed is the whole new version
(`TemporaryInv`), the target is whole and not newer than the memory (`TargetInv`), and
exactly one flush is posted or about to be while failures wait (`LatchInv`). The first
makes `Rename` a `Replace` of `AtomicFile`, every other step a step of it or none.

**SpawnStaging.** Three layers. `IInv`: the names the editor holds have been issued (so
the server gives them to nobody), and mean nothing, the spawn they were read as, or one
out of a changeset (`MeansTheSame`); this holds of the view, of every changeset written
and of the job that is running, and gives `OthersSurvive`. `ApartInv`: entries
are told apart by their names, in the view and in every changeset, and a spawn that was
placed once is not placed again; a provisional guid is chosen to be free among what is on
the screen and among the tombstones, which is why `NamesAreUnique` survives guids that
come round. `ProgressInv`, while a job runs: the statements that are left
come after those that were executed, and each of these has achieved its part, which no
later one undoes (`EditedDone`, `RemovedDone`, `CreatedDone`, `AddonsDone`). With nothing
left that is `AppliedIsComplete`; while something is left it is what `NothingIsLost` needs
of the steps that delete before they insert.

**ActionHistory.** `IInv` has a part for the cells and one for the objects. `CellsInv`
relates images and remembered states: an action's image of a cell
is what was there before it, no image means that it did not change the cell
(`ImagesOk`), and likewise for the action that runs. Undo overwrites what the images have
and thereby reaches the state before. `ObjectsInv` needs more, because an object
that comes back does so under another uid. `NamesOk`: the uids under which an object is
stored or in the entries of the actions are no other object's, and an object that is no
stray has exactly one. `EntriesOk` and `RunningEntriesOk`: the entry an action has of an
object tells where it was before the action and where after it (`Tells`), and without
one it did not move. So an undo finds the object where the action left it, under the uid
of the entry, and puts it where the action found it; `Renamed` gives the entry the new
uid, and had another action an entry of the object, the old uid stays there and the
object is a stray. `ReplayObjects` is this argument for undo and redo at once.

| module | theorems |
|---|---|
| AsyncLoaderProofs | `Invariance`, `TypeCorrect`, `Released`, `Implementation` |
| AssetCacheProofs | `CacheInvariance`, `ReferencesHold`, `CountsHold`, `ContractUsed` |
| MapTilesProofs | `Invariance`, `TypeCorrect`, `EditsAreGuarded`, `BakeScopeIsAlive`, `EditsAreKept`, `SavedIsOnDisk`, `OnDiscIsTrue` |
| UpdateQueueProofs | `Invariance`, `WakeUps`, `Removal`, `Deletion` |
| ObjectInstancesProofs | `TypeCorrect`, `UidsAreFresh`, `CountsAreRight`, `ObjectsAreStoredOnce`, `RowsAreKept` |
| SafeFileWriteProofs | `Invariance`, `Durable`, `LatchHeld`, `Implementation` |
| SpawnStagingProofs | `TypeCorrect`, `OthersAreSafe`, `PosesAreSafe`, `NamesHold`, `AppliedInFull`, `AppliedAgain`, `NoSpawnIsLost` |
| ActionHistoryProofs | `InvHolds`, `TypeCorrect`, `UndoRestores`, `UndoRestoresObjects` |

The types are part of `IInv`, and a run that checks `IInv` does not check them again.

Every invariant and every action property that a passing run checks is proved. Only
model-checked is what is about liveness (`QueueDrains`, `BlockedWaitersReturn`,
`EnsureReturns`, `ShutdownJoins`, `AssetsLoad`, `SaveReturns`, `WaitReturns`,
`FailuresAreShown`), because the prover has no `ENABLED` and hence no fairness; the two
violated properties are false.

## 11. Observations

What reading and modelling showed beyond the two violated properties. The models
have these behaviours where they have the component, and the properties
are worded so that they say what holds besides; none of them has a run of its own.

Loader and caches:

- a load that fails never wakes a thread in `ensure_deletable`
  (`AsyncLoader.cpp:93-122`, against `AsyncLoader.h:31`), and through it can starve another
  asset (sections 2 and 3);
- the wakeup of `wait_until_loaded` can be lost (section 2);
- `MapView::save` clears the failure flag at its end, and with it a failure that came
  after it had asked;
- the two races of `erase` (section 3);
- copy assignment of a model reference takes a new count without releasing the old one,
  and move assignment loses one (`ModelManager.cpp:97-123`); no caller was found.

Tiles:

- the update thread has a pointer to a tile that is not marked and waits for it; the
  sweep may release the tile when it is loaded, before the thread marks it (`stale`);
- `loadTile` is called by two threads without a lock; two calls for one empty slot make
  two tiles, and the second assignment destroys the first while the loader has it.
  `reloadTile` resets the slot without `ensure_deletable`;
- `saveMinimap` reads `changed` before it loads the tile and waits, and unloads by what
  it read: an object moved onto the tile meanwhile is lost;
- an import does not mark what it converts; if its write fails, `lastSaveFailed` keeps
  the tile in memory and the save of changed tiles does not see it;
- a save in which something failed keeps the undo history, but has unmarked the tiles it
  did write; undo then changes such a tile without marking it, or, when the sweep has
  released it, writes through pointers into it;
- a bake that is cancelled takes back a mark that the update thread has in the
  meantime come to rely on (`ui/AmbientOcclusionDialog.cpp:617`);
- `for_tile_at_force` records a tile as being on disk that `loadTile` returned null for
  (`World.inl:102`), which is why `OnDiscHasFile` is for maps without such tiles;
- `saveChanged` with `save_unloaded` leaves `changed` set on a tile that was removed and
  whose ADT it deletes (`map_index.cpp:784-803`).

Objects and uids:

- an object that the user places, or moves across a border, is counted once and listed
  twice, and erased under the other tile (`world_model_instances_storage.cpp:353`; the
  comment at 112-117 calls this data loss);
- move, save, move, reload, or an import or a reload after a move, and the object is there
  twice: the transform it was loaded at is not renewed by a save (`SceneObject.cpp:57`);
- two objects that stand across a border under one uid are renumbered per tile;
- a `fixUIDs` that fails leaves `_uid_fix_all_in_progress` set;
- a queued update may outlive the object it points to (section 5).

Spawns:

- after a failed apply the placed spawns stay staged, and a second save creates them
  again if the statement that failed came later; the header of the file says so;
- `discardPending` keeps the position of a spawn that was moved
  (`SpawnSceneCache.hpp:341`);
- whether the changeset could be written is not looked at after it was opened;
- a guid that was freed and is given out again by `MAX(guid) + 1` names another spawn
  to whoever read the old one;
- two changesets saved within one second have the same name.

Undo history:

- layer infos and the exclusion of doodads have no image for redo;
- only the maps of the action itself follow an object to its new uid; the comment speaks
  of other actions (`Action.cpp:296`);
- a stroke begun while a hidden action runs joins it, and is not recorded;
- `endActionOnModalityMismatch` that throws leaves `_cur_action` set.

Terrain masks:

- undo exchanges images without asking whether a bake changed the mask in between
  (`terrain/TerrainMaskHistory.hpp:94-97`);
- a mask created under the name of a deleted one gets its old images (115-118), and
  loading masks does not clear the history (`ui/TerrainMaskDialog.cpp:267`, against line
  122 of the header).

## 12. What is left

Within the modules: `loadTile` in its real steps, composed with AsyncLoader as AssetCache
is, for the race of two threads and `reloadTile`; the wizard's changes of the WDT and
`swapTextureGlobal` in MapTiles; `clear_duplicates` and `delete_instances_from_tile` in
ObjectInstances.

Proofs that remain: the safety part of the liveness properties, where there is one. That
no thread sleeps for ever is, in each module with threads, an invariant (whoever sleeps,
somebody who will wake it is on its way) and fairness; the invariant can be proved as
`NobodyOversleeps` is (for the event SafeFileWrite posts it is `LatchInv`), and is worth
stating for the waits of AsyncLoader while no load fails.
