----------------------------- MODULE UpdateQueue -----------------------------
(***************************************************************************)
(* The queue of object updates (world_tile_update_queue.cpp) with the      *)
(* threads and locks around it.  One mutex and one condition variable,     *)
(* _state_changed, are shared by                                           *)
(*   - the main thread, which queues updates of objects the user moves or  *)
(*     deletes and waits for the queue to be empty;                        *)
(*   - the update thread, which registers an object on, or removes it      *)
(*     from, every tile its bounding box touches, loading them first;      *)
(*   - the workers that finish loading a tile: they hand the objects of    *)
(*     its ADT to the storage of instances, and queue an update for an     *)
(*     object whose uid was taken and that got another one.                *)
(* The storage has a mutex of its own, which delete_instance keeps while   *)
(* it waits for the queue.  What waits for a model (wait_until_loaded) is  *)
(* left to AsyncLoader; which tiles are released, to MapTiles.             *)
(***************************************************************************)
EXTENDS Naturals, Sequences, FiniteSets

CONSTANTS
    Tiles,
    Objects,
    Rows,       \* per tile, the objects its ADT lists
    Touches,    \* per object, the tiles its bounding box touches
    Renumbered, \* objects that get a new uid when their tile loads
    Calls,      \* what the user and the tick of the editor may ask for
    MaxQueue,   \* bound: updates in the queue when an add is asked for
    None

AllCalls == {"load", "add", "move", "wait", "delete", "deleteInstance", "quit"}

ASSUME RowsAssumption ==
    /\ Rows \in [Tiles -> SUBSET Objects]
    /\ Touches \in [Objects -> SUBSET Tiles]
    /\ \A t \in Tiles, o \in Objects : o \in Rows[t] => t \in Touches[o]
ASSUME RenumberedAssumption == Renumbered \subseteq Objects
ASSUME CallsAssumption == Calls \subseteq AllCalls
ASSUME MaxQueueAssumption == MaxQueue \in Nat
ASSUME NoneAssumption == None \notin Tiles \cup Objects

Types == {"add", "remove"}
Updates == Objects \X Types

\* What the main thread is doing: waiting for the queue, on its way to what it
\* waits for, or leaving the map.
Ops == {"idle", "waiting", "returned", "moved", "lock", "erase",
        "stopping", "join", "gone"}

VARIABLES
    queue,      \* _update_queue: an object and an update type each
    asleep,     \* the threads blocked on _state_changed
    stop,       \* _stop
    updater,    \* where the update thread is in process_queue
    left,       \* tiles that the update in hand has yet to be applied to
    visiting,   \* the one it waits for, or None
    op,         \* where the main thread is
    next,       \* where it goes when the wait is over
    object,     \* the object of its call, or None
    locked,     \* it holds the mutex of the storage
    tile,       \* per tile, whether it is loaded
    todo,       \* per tile, the objects finishLoading has yet to hand over
    adding,     \* per tile, the object it has stored and is about to queue
    stored,     \* the objects in the storage
    registered  \* per tile, the objects in MapTile::uids

queueVars == <<queue, asleep, stop>>
updaterVars == <<updater, left, visiting>>
mainVars == <<op, next, object, locked>>
tileVars == <<tile, todo, adding, registered>>
vars == <<queueVars, updaterVars, mainVars, tileVars, stored>>

Init ==
    /\ queue = <<>> /\ asleep = {} /\ stop = FALSE
    /\ updater = "deciding" /\ left = {} /\ visiting = None
    /\ op = "idle" /\ next = "idle" /\ object = None /\ locked = FALSE
    /\ tile = [t \in Tiles |-> "absent"]
    /\ todo = [t \in Tiles |-> {}]
    /\ adding = [t \in Tiles |-> None]
    /\ registered = [t \in Tiles |-> {}]
    /\ stored = {}

----------------------------------------------------------------------------
\* The mutex of the queue is held within one step, except by the update thread
\* from the test of its predicate to the moment it blocks.
MutexFree == updater # "blocking"

\* Mutant: the notification is forgotten.
QueueUpdateSilent(o, type) ==
    /\ MutexFree
    /\ queue' = Append(queue, <<o, type>>)
    /\ asleep' = asleep

\* queue_update: one sleeping thread, if there is any, is notified.
QueueUpdate(o, type) ==
    /\ MutexFree
    /\ queue' = Append(queue, <<o, type>>)
    /\ IF asleep = {} THEN asleep' = {}
       ELSE \E p \in asleep : asleep' = asleep \ {p}

\* The tiles after loadTile: a new one is handed to the loader.
LoadTile(t) ==
    IF tile[t] = "absent"
    THEN /\ tile' = [tile EXCEPT ![t] = "loading"]
         /\ todo' = [todo EXCEPT ![t] = Rows[t]]
    ELSE UNCHANGED <<tile, todo>>

----------------------------------------------------------------------------
\* The update thread.

\* It tests its predicate, and on an empty queue ...
UpdaterDecide ==
    /\ updater = "deciding" /\ "updater" \notin asleep
    /\ IF stop THEN updater' = "done" /\ UNCHANGED left
       ELSE IF queue = <<>> THEN updater' = "blocking" /\ UNCHANGED left
       ELSE updater' = "applying" /\ left' = Touches[Head(queue)[1]]
    /\ UNCHANGED <<queueVars, visiting, mainVars, tileVars, stored>>

\* ... blocks.  (The predicate is tested again when it has been woken up.)
UpdaterBlock ==
    /\ updater = "blocking"
    /\ updater' = "deciding"
    /\ asleep' = asleep \cup {"updater"}
    /\ UNCHANGED <<queue, stop, left, visiting, mainVars, tileVars, stored>>

\* update_model_tile: the tile is loaded ...
UpdaterVisit(t) ==
    /\ updater = "applying" /\ visiting = None /\ t \in left
    /\ visiting' = t
    /\ LoadTile(t)
    /\ UNCHANGED <<queueVars, updater, left, mainVars, adding, registered, stored>>

\* Mutant: the tile is changed before it has been loaded.
UpdaterRegisterEarly ==
    /\ visiting # None
    /\ left' = left \ {visiting} /\ visiting' = None
    /\ registered' = [registered EXCEPT ![visiting] =
           IF Head(queue)[2] = "add" THEN @ \cup {Head(queue)[1]}
           ELSE @ \ {Head(queue)[1]}]
    /\ UNCHANGED <<queueVars, updater, mainVars, tile, todo, adding, stored>>

\* ... and waited for; then the object is added to it or removed from it.
UpdaterRegister ==
    /\ visiting # None /\ tile[visiting] = "loaded"
    /\ left' = left \ {visiting} /\ visiting' = None
    /\ registered' = [registered EXCEPT ![visiting] =
           IF Head(queue)[2] = "add" THEN @ \cup {Head(queue)[1]}
           ELSE @ \ {Head(queue)[1]}]
    /\ UNCHANGED <<queueVars, updater, mainVars, tile, todo, adding, stored>>

\* Mutant: the update is popped and nobody is told.
UpdaterPopSilent ==
    /\ updater = "applying" /\ left = {} /\ visiting = None
    /\ queue' = Tail(queue)
    /\ updater' = "deciding"
    /\ UNCHANGED <<asleep, stop, left, visiting, mainVars, tileVars, stored>>

\* The update has been applied: it is popped and every sleeper notified.
UpdaterPop ==
    /\ updater = "applying" /\ left = {} /\ visiting = None
    /\ queue' = Tail(queue)
    /\ asleep' = {}
    /\ updater' = "deciding"
    /\ UNCHANGED <<stop, left, visiting, mainVars, tileVars, stored>>

----------------------------------------------------------------------------
\* The worker that finishes a tile.

\* It hands an object to the storage, under the mutex of the storage, and
\* registers it on the tile.  If the object got a new uid its update is queued
\* after the mutex has been let go ...
WorkerStore(t, o) ==
    /\ o \in todo[t] /\ adding[t] = None /\ ~locked
    /\ todo' = [todo EXCEPT ![t] = @ \ {o}]
    /\ stored' = stored \cup {o}
    /\ registered' = [registered EXCEPT ![t] = @ \cup {o}]
    /\ adding' = IF o \in Renumbered THEN [adding EXCEPT ![t] = o] ELSE adding
    /\ UNCHANGED <<queueVars, updaterVars, mainVars, tile>>

\* ... as bookkeeping.
WorkerQueue(t) ==
    /\ adding[t] # None
    /\ QueueUpdate(adding[t], "add")
    /\ adding' = [adding EXCEPT ![t] = None]
    /\ UNCHANGED <<stop, updaterVars, mainVars, tile, todo, registered, stored>>

WorkerFinish(t) ==
    /\ tile[t] = "loading" /\ todo[t] = {} /\ adding[t] = None
    /\ tile' = [tile EXCEPT ![t] = "loaded"]
    /\ UNCHANGED <<queueVars, updaterVars, mainVars, todo, adding, registered, stored>>

----------------------------------------------------------------------------
\* The main thread.

Call(c) == c \in Calls /\ op = "idle"

\* It goes on at o, on behalf of object x.
Goto(o, x) == op' = o /\ object' = x /\ UNCHANGED next

\* It waits for the queue to be empty and goes on at n.
WaitThen(n, x) == op' = "waiting" /\ next' = n /\ object' = x

\* Streaming asks for a tile.
Load(t) ==
    /\ Call("load")
    /\ LoadTile(t)
    /\ UNCHANGED <<queueVars, updaterVars, mainVars, adding, registered, stored>>

\* An object is turned or snapped to the ground: it is added to its tiles.
Add(o) ==
    /\ Call("add") /\ Len(queue) < MaxQueue
    /\ o \in stored
    /\ QueueUpdate(o, "add")
    /\ UNCHANGED <<stop, updaterVars, mainVars, tileVars, stored>>

\* An object is taken off its tiles, moved, and added to them.
Move(o) ==
    /\ Call("move")
    /\ o \in stored
    /\ QueueUpdate(o, "remove")
    /\ WaitThen("moved", o)
    /\ UNCHANGED <<stop, updaterVars, locked, tileVars, stored>>

MoveAdd ==
    /\ op = "moved"
    /\ QueueUpdate(object, "add")
    /\ Goto("idle", None)
    /\ UNCHANGED <<stop, updaterVars, locked, tileVars, stored>>

\* wait_for_all_update, as a save calls it.
Wait ==
    /\ Call("wait")
    /\ WaitThen("returned", None)
    /\ UNCHANGED <<queueVars, updaterVars, locked, tileVars, stored>>

WaitReturned ==
    /\ op = "returned"
    /\ Goto("idle", None)
    /\ UNCHANGED <<queueVars, updaterVars, locked, tileVars, stored>>

\* delete_instances takes the object off its tiles before ...
Delete(o) ==
    /\ Call("delete")
    /\ o \in stored
    /\ QueueUpdate(o, "remove")
    /\ WaitThen("lock", o)
    /\ UNCHANGED <<stop, updaterVars, locked, tileVars, stored>>

\* ... it calls delete_instance, which undo and the chunk clipboard call
\* without that.
DeleteInstance(o) ==
    /\ Call("deleteInstance")
    /\ o \in stored
    /\ Goto("lock", o)
    /\ UNCHANGED <<queueVars, updaterVars, locked, tileVars, stored>>

\* Mutant: delete_instance does not take the object off its tiles.
DeleteLockBare ==
    /\ op = "lock"
    /\ locked' = TRUE
    /\ Goto("erase", object)
    /\ UNCHANGED <<queueVars, updaterVars, tileVars, stored>>

\* delete_instance takes the mutex of the storage and keeps it while it takes
\* the object off its tiles and waits ...
DeleteLock ==
    /\ op = "lock"
    /\ locked' = TRUE
    /\ QueueUpdate(object, "remove")
    /\ WaitThen("erase", object)
    /\ UNCHANGED <<stop, updaterVars, tileVars, stored>>

\* ... and erases it.
DeleteErase ==
    /\ op = "erase"
    /\ stored' = stored \ {object}
    /\ locked' = FALSE
    /\ Goto("idle", None)
    /\ UNCHANGED <<queueVars, updaterVars, tileVars>>

\* Mutant: a wait is over after one update.
WaitCheckOnce ==
    /\ op = "waiting" /\ "main" \notin asleep /\ MutexFree
    /\ op' = next
    /\ UNCHANGED <<queueVars, next, updaterVars, object, locked, tileVars, stored>>

\* The predicate of a wait, tested when it begins and whenever it is woken up.
WaitCheck ==
    /\ op = "waiting" /\ "main" \notin asleep /\ MutexFree
    /\ IF queue = <<>> THEN op' = next /\ UNCHANGED asleep
       ELSE asleep' = asleep \cup {"main"} /\ UNCHANGED op
    /\ UNCHANGED <<queue, stop, next, updaterVars, object, locked, tileVars, stored>>

\* The destructor stores _stop, notifies and joins, without the mutex.
Stop ==
    /\ Call("quit")
    /\ stop' = TRUE
    /\ Goto("stopping", None)
    /\ UNCHANGED <<queue, asleep, updaterVars, locked, tileVars, stored>>

StopNotify ==
    /\ op = "stopping"
    /\ asleep' = {}
    /\ Goto("join", None)
    /\ UNCHANGED <<queue, stop, updaterVars, locked, tileVars, stored>>

Join ==
    /\ op = "join" /\ updater = "done"
    /\ Goto("gone", None)
    /\ UNCHANGED <<queueVars, updaterVars, locked, tileVars, stored>>

----------------------------------------------------------------------------
Updater ==
    \/ UpdaterDecide \/ UpdaterBlock \/ UpdaterRegister \/ UpdaterPop
    \/ \E t \in left : UpdaterVisit(t)

Worker(t) ==
    \/ WorkerQueue(t) \/ WorkerFinish(t)
    \/ \E o \in Objects : WorkerStore(t, o)

MainCall ==
    \/ \E t \in Tiles : Load(t)
    \/ \E o \in Objects : Add(o) \/ Move(o) \/ Delete(o) \/ DeleteInstance(o)
    \/ Wait \/ Stop

MainReturn ==
    \/ MoveAdd \/ WaitReturned \/ DeleteLock \/ DeleteErase \/ WaitCheck
    \/ StopNotify \/ Join

Next == Updater \/ (\E t \in Tiles : Worker(t)) \/ MainCall \/ MainReturn

Spec == Init /\ [][Next]_vars

\* The threads are scheduled; nothing obliges the user to call.  Neither the
\* mutexes nor the condition variable are fair to anybody: a thread that can
\* take a step has what it needs until it takes it.
FairSpec ==
    /\ Spec
    /\ WF_vars(Updater) /\ WF_vars(MainReturn)
    /\ \A t \in Tiles : WF_vars(Worker(t))

----------------------------------------------------------------------------
\* Properties

\* The types of the variables.
TypeOK ==
    /\ queue \in Seq(Updates)
    /\ asleep \in SUBSET {"main", "updater"}
    /\ stop \in BOOLEAN
    /\ updater \in {"deciding", "blocking", "applying", "done"}
    /\ left \in SUBSET Tiles
    /\ visiting \in left \cup {None}
    /\ op \in Ops
    /\ next \in {"idle", "moved", "returned", "lock", "erase"}
    /\ object \in Objects \cup {None}
    /\ locked \in BOOLEAN
    /\ tile \in [Tiles -> {"absent", "loading", "loaded"}]
    /\ todo \in [Tiles -> SUBSET Objects]
    /\ adding \in [Tiles -> Objects \cup {None}]
    /\ registered \in [Tiles -> SUBSET Objects]
    /\ stored \in SUBSET Objects

\* A notification is for one thread of the two that may sleep on the condition
\* variable, and yet never for the wrong one: nobody sleeps over the news he
\* waits for.
NobodyOversleeps ==
    /\ "updater" \in asleep => queue = <<>>
    /\ "main" \in asleep => op = "waiting" /\ queue # <<>>

\* Objects that keep the uid of their ADT: only of a renumbered one a worker
\* queues an update, which the user may be ahead of.
Plain == Objects \ Renumbered

\* A deleted object is on no tile, however its tiles were loading when it was
\* deleted, and in no update that is still to be applied.
DeletedIsGone ==
    /\ \A t \in Tiles : registered[t] \cap Plain \subseteq stored
    /\ \A i \in DOMAIN queue : queue[i][1] \in Plain => queue[i][1] \in stored

\* Object o is not on tile t, and no worker will put it there.
Gone(o, t) == tile[t] = "loaded" /\ o \notin registered[t]

\* When the wait of a removal is over the object is on no tile, and every tile
\* it touches is loaded, so that none will list it later.
RemovedIsGone ==
    op \in {"moved", "erase"} /\ object \in Plain =>
        \A t \in Touches[object] : Gone(object, t)

\* What the threads know of each other: the update thread works for the update
\* at the front of the queue, and the main thread holds the storage's mutex
\* from delete_instance's lock to its end.
ThreadInv ==
    /\ updater = "blocking" => queue = <<>>
    /\ updater = "applying" => queue # <<>>
    /\ left # {} => updater = "applying" /\ left \subseteq Touches[Head(queue)[1]]
    /\ locked => op = "erase" \/ (op = "waiting" /\ next = "erase")
    /\ op \in {"moved", "lock", "erase"} => object \in stored
    /\ op = "waiting" /\ next \in {"moved", "lock", "erase"} => object \in stored

\* What a tile lists it touches, and what is still to come to it comes while it
\* loads: workers store objects of the ADT, and queue renumbered ones.
TileInv ==
    \A t \in Tiles :
        /\ \A o \in registered[t] : t \in Touches[o]
        /\ todo[t] \subseteq Rows[t]
        /\ todo[t] # {} => tile[t] = "loading"
        /\ adding[t] # None => adding[t] \in Renumbered

\* The removal in hand has reached the tiles the update thread has left behind.
AppliedInv ==
    updater = "applying" /\ Head(queue)[2] = "remove" =>
        \A t \in Touches[Head(queue)[1]] \ left : Gone(Head(queue)[1], t)

\* The main thread's removal is in the queue and nothing but bookkeeping has
\* been queued behind it, or it has been applied, and nothing but bookkeeping
\* is in the queue.
BehindIsBookkeeping(i) ==
    \A j \in DOMAIN queue : j > i => queue[j][1] \in Renumbered
RemovalInv ==
    /\ op \in {"moved", "returned", "erase"} => BehindIsBookkeeping(0)
    /\ op = "waiting" /\ next \in {"moved", "erase"} /\ object \in Plain =>
          \/ \E i \in DOMAIN queue :
                queue[i] = <<object, "remove">> /\ BehindIsBookkeeping(i)
          \/ /\ BehindIsBookkeeping(0)
             /\ \A t \in Touches[object] : Gone(object, t)

\* The inductive invariant.
IInv ==
    /\ TypeOK /\ NobodyOversleeps /\ ThreadInv /\ TileInv /\ AppliedInv
    /\ RemovalInv /\ RemovedIsGone /\ DeletedIsGone

\* A wait that does not hold the storage's mutex comes to its end, whatever the
\* workers queue meanwhile.
WaitReturns == op = "waiting" /\ ~locked ~> op # "waiting"

\* world_tile_update_queue.cpp: queue_update waits for the removal to be done
\* before the instance is deleted.
DeleteReturns == op = "waiting" /\ locked ~> op # "waiting"
=============================================================================
