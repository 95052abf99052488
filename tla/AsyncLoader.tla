---------------------------- MODULE AsyncLoader ----------------------------
(***************************************************************************)
(* AsyncLoader (noggit/AsyncLoader.{h,cpp}) and the part of AsyncObject it *)
(* talks to: a pool of worker threads takes AsyncObjects from one queue    *)
(* per priority and loads them, while other threads wait for an object to  *)
(* be loaded, or to be safe to delete.                                     *)
(*                                                                         *)
(* Every critical section under _guard is one step, except the exception   *)
(* handlers of process(): they store to the object while holding _guard,   *)
(* and finishedLoading() and wait_until_loaded() read those stores without *)
(* it.  "guard" is the worker that is inside a handler, if any.            *)
(*                                                                         *)
(* A condition variable is the set of threads blocked on it, which is the  *)
(* set of threads at an "asleep" location: _state_changed of the loader is *)
(* shared by the workers and by ensure_deletable, _state_changed of an     *)
(* object by the threads in its wait_until_loaded.                         *)
(***************************************************************************)
EXTENDS Integers, SequencesExt

CONSTANTS
  Objects,      \* addresses of AsyncObjects; one is reused after a delete
  Workers,      \* the loader's threads
  Clients,      \* the other threads: GUI, tile update queue
  Priority,     \* loading_priority() of the object at an address
  Required,     \* objects whose is_required_when_saving() is true
  Fallible,     \* objects whose finishLoading() may throw
  MaxCreated,   \* bound on the number of objects created
  NoThread,     \* nobody holds _guard
  NoObject      \* a thread is working on no object

Priorities == 0..2

ASSUME PriorityAssumption == Priority \in [Objects -> Priorities]
ASSUME SubsetAssumption == Required \subseteq Objects /\ Fallible \subseteq Objects
ASSUME ThreadAssumption ==
  /\ NoThread \notin Workers
  /\ NoObject \notin Objects
  /\ Workers \cap Clients = {}
ASSUME BoundAssumption == MaxCreated \in Nat

VARIABLES
  toLoad,          \* _to_load: a queue of objects per priority
  loading,         \* _currently_loading
  guard,           \* the worker holding _guard in an exception handler
  stop,            \* _stop
  importantFailed, \* _important_object_failed_loading
  wpc, wobj,       \* where a worker is in process(), and its object
  cpc, cobj,       \* where another thread is, and the object it is about
  alive,           \* objects constructed and not yet deleted
  finished,        \* AsyncObject::finished
  failed,          \* AsyncObject::_loading_failed
  created          \* objects created so far

loaderVars == <<toLoad, loading, guard, stop, importantFailed>>
threadVars == <<wpc, wobj, cpc, cobj>>
objectVars == <<alive, finished, failed, created>>
vars == <<loaderVars, threadVars, objectVars>>

WorkerLocations ==
  {"idle", "asleep", "loading", "finishing", "reporting", "failing", "excusing", "exited"}
ClientLocations ==
  {"idle", "waiting", "waitUnmet", "waitAsleep", "ensuring", "ensureAsleep", "deletable", "saving"}

TypeOK ==
  /\ toLoad \in [Priorities -> Seq(Objects)]
  /\ loading \subseteq Objects
  /\ guard \in Workers \cup {NoThread}
  /\ stop \in BOOLEAN
  /\ importantFailed \in BOOLEAN
  /\ wpc \in [Workers -> WorkerLocations]
  /\ wobj \in [Workers -> Objects \cup {NoObject}]
  /\ cpc \in [Clients -> ClientLocations]
  /\ cobj \in [Clients -> Objects \cup {NoObject}]
  /\ alive \subseteq Objects
  /\ finished \in [Objects -> BOOLEAN]
  /\ failed \in [Objects -> BOOLEAN]
  /\ created \in 0..MaxCreated

Init ==
  /\ toLoad = [p \in Priorities |-> <<>>]
  /\ loading = {}
  /\ guard = NoThread
  /\ stop = FALSE
  /\ importantFailed = FALSE
  /\ wpc = [w \in Workers |-> "idle"]
  /\ wobj = [w \in Workers |-> NoObject]
  /\ cpc = [c \in Clients |-> "idle"]
  /\ cobj = [c \in Clients |-> NoObject]
  /\ alive = {}
  /\ finished = [o \in Objects |-> FALSE]
  /\ failed = [o \in Objects |-> FALSE]
  /\ created = 0

-----------------------------------------------------------------------------
(* The condition variables *)

QueueOf(o) == toLoad[Priority[o]]
IsQueued(o) == Contains(QueueOf(o), o)

LoaderSleepers ==
  {w \in Workers : wpc[w] = "asleep"} \cup {c \in Clients : cpc[c] = "ensureAsleep"}

(* The threads in W leave the loader's wait and evaluate their predicate again. *)
WokenWorkers(W) == [w \in Workers |-> IF w \in W THEN "idle" ELSE wpc[w]]
WokenClients(W) == [c \in Clients |-> IF c \in W THEN "ensuring" ELSE cpc[c]]
ObjectSleepers(o) == {c \in Clients : cpc[c] = "waitAsleep" /\ cobj[c] = o}

-----------------------------------------------------------------------------
(* AsyncLoader::process, on a worker thread *)

(* Mutants of Take: the object is not popped; the queues are scanned from the
   least urgent one. *)
TakeWithoutPop(w) ==
  /\ wpc[w] = "idle" /\ guard = NoThread /\ ~stop
  /\ \E p \in Priorities :
       /\ toLoad[p] # <<>>
       /\ \A q \in Priorities : q < p => toLoad[q] = <<>>
       /\ wobj' = [wobj EXCEPT ![w] = Head(toLoad[p])]
       /\ loading' = loading \cup {Head(toLoad[p])}
  /\ wpc' = [wpc EXCEPT ![w] = "loading"]
  /\ UNCHANGED <<toLoad, guard, stop, importantFailed, cpc, cobj, objectVars>>

TakeLeastUrgent(w) ==
  /\ wpc[w] = "idle" /\ guard = NoThread /\ ~stop
  /\ \E p \in Priorities :
       /\ toLoad[p] # <<>>
       /\ \A q \in Priorities : q > p => toLoad[q] = <<>>
       /\ wobj' = [wobj EXCEPT ![w] = Head(toLoad[p])]
       /\ loading' = loading \cup {Head(toLoad[p])}
       /\ toLoad' = [toLoad EXCEPT ![p] = Tail(toLoad[p])]
  /\ wpc' = [wpc EXCEPT ![w] = "loading"]
  /\ UNCHANGED <<guard, stop, importantFailed, cpc, cobj, objectVars>>

(* The predicate of the wait is true: take the first object of the most urgent
   queue that has one. *)
Take(w) ==
  /\ wpc[w] = "idle" /\ guard = NoThread /\ ~stop
  /\ \E p \in Priorities :
       /\ toLoad[p] # <<>>
       /\ \A q \in Priorities : q < p => toLoad[q] = <<>>
       /\ wobj' = [wobj EXCEPT ![w] = Head(toLoad[p])]
       /\ loading' = loading \cup {Head(toLoad[p])}
       /\ toLoad' = [toLoad EXCEPT ![p] = Tail(toLoad[p])]
  /\ wpc' = [wpc EXCEPT ![w] = "loading"]
  /\ UNCHANGED <<guard, stop, importantFailed, cpc, cobj, objectVars>>

(* The predicate is false: block. *)
Sleep(w) ==
  /\ wpc[w] = "idle" /\ guard = NoThread /\ ~stop
  /\ \A p \in Priorities : toLoad[p] = <<>>
  /\ wpc' = [wpc EXCEPT ![w] = "asleep"]
  /\ UNCHANGED <<loaderVars, wobj, cpc, cobj, objectVars>>

Exit(w) ==
  /\ wpc[w] = "idle" /\ stop
  /\ wpc' = [wpc EXCEPT ![w] = "exited"]
  /\ UNCHANGED <<loaderVars, wobj, cpc, cobj, objectVars>>

(* finishLoading() ends with "finished = true; _state_changed.notify_all();".
   It does not hold the object's mutex for either. *)
FinishStore(w) ==
  /\ wpc[w] = "loading"
  /\ finished' = [finished EXCEPT ![wobj[w]] = TRUE]
  /\ wpc' = [wpc EXCEPT ![w] = "finishing"]
  /\ UNCHANGED <<loaderVars, wobj, cpc, cobj, alive, failed, created>>

(* Mutant of WakeWaiters: nobody is notified. *)
WakeNoWaiter(o) == UNCHANGED cpc

WakeWaiters(o) ==
  cpc' = [c \in Clients |-> IF c \in ObjectSleepers(o) THEN "waiting" ELSE cpc[c]]

FinishNotify(w) ==
  /\ wpc[w] = "finishing"
  /\ WakeWaiters(wobj[w])
  /\ wpc' = [wpc EXCEPT ![w] = "reporting"]
  /\ UNCHANGED <<loaderVars, wobj, cobj, objectVars>>

(* Mutant of Report: the thread in ensure_deletable is not notified. *)
ReportQuietly(w) ==
  /\ wpc[w] = "reporting" /\ guard = NoThread
  /\ loading' = loading \ {wobj[w]}
  /\ wpc' = [wpc EXCEPT ![w] = "idle"]
  /\ wobj' = [wobj EXCEPT ![w] = NoObject]
  /\ UNCHANGED <<toLoad, guard, stop, importantFailed, cpc, cobj, objectVars>>

(* Back in process(): take the object off _currently_loading, wake everyone. *)
Report(w) ==
  /\ wpc[w] = "reporting" /\ guard = NoThread
  /\ loading' = loading \ {wobj[w]}
  /\ wpc' = [WokenWorkers(LoaderSleepers) EXCEPT ![w] = "idle"]
  /\ cpc' = WokenClients(LoaderSleepers)
  /\ wobj' = [wobj EXCEPT ![w] = NoObject]
  /\ UNCHANGED <<toLoad, guard, stop, importantFailed, cobj, objectVars>>

(* finishLoading() threw: both handlers lock _guard and run error_on_loading(),
   which stores to the object and then notifies its waiters ... *)
Fail(w) ==
  /\ wpc[w] = "loading" /\ wobj[w] \in Fallible /\ guard = NoThread
  /\ guard' = w
  /\ failed' = [failed EXCEPT ![wobj[w]] = TRUE]
  /\ finished' = [finished EXCEPT ![wobj[w]] = TRUE]
  /\ wpc' = [wpc EXCEPT ![w] = "failing"]
  /\ UNCHANGED <<toLoad, loading, stop, importantFailed, wobj, cpc, cobj, alive, created>>

FailNotify(w) ==
  /\ wpc[w] = "failing"
  /\ WakeWaiters(wobj[w])
  /\ wpc' = [wpc EXCEPT ![w] = "excusing"]
  /\ UNCHANGED <<loaderVars, wobj, cobj, objectVars>>

(* ... and then take the object off the list, without a notification. *)
FailReport(w) ==
  /\ wpc[w] = "excusing"
  /\ importantFailed' = (importantFailed \/ wobj[w] \in Required)
  /\ loading' = loading \ {wobj[w]}
  /\ guard' = NoThread
  /\ wpc' = [wpc EXCEPT ![w] = "idle"]
  /\ wobj' = [wobj EXCEPT ![w] = NoObject]
  /\ UNCHANGED <<toLoad, stop, cpc, cobj, alive, finished, failed, created>>

Process(w) ==
  \/ Take(w) \/ Sleep(w) \/ Exit(w)
  \/ FinishStore(w) \/ FinishNotify(w) \/ Report(w)
  \/ Fail(w) \/ FailNotify(w) \/ FailReport(w)

-----------------------------------------------------------------------------
(* queue_for_load of an object just constructed.  finishLoading() of a model,
   a world model or a tile queues its children, so a worker may call it. *)

MayQueue(t) ==
  IF t \in Workers THEN wpc[t] = "loading" ELSE cpc[t] = "idle" /\ ~stop

(* Mutant of NotifyOne: queue_for_load notifies nobody. *)
NotifyNone == UNCHANGED <<wpc, cpc>>

(* notify_one wakes one thread blocked on _state_changed, if there is one. *)
NotifyOne ==
  IF LoaderSleepers = {} THEN UNCHANGED <<wpc, cpc>>
  ELSE \E t \in LoaderSleepers : wpc' = WokenWorkers({t}) /\ cpc' = WokenClients({t})

QueueForLoad(t, o) ==
  /\ MayQueue(t) /\ guard = NoThread
  /\ o \notin alive /\ created < MaxCreated
  /\ created' = created + 1
  /\ alive' = alive \cup {o}
  /\ finished' = [finished EXCEPT ![o] = FALSE]
  /\ failed' = [failed EXCEPT ![o] = FALSE]
  /\ toLoad' = [toLoad EXCEPT ![Priority[o]] = Append(toLoad[Priority[o]], o)]
  /\ NotifyOne
  /\ UNCHANGED <<loading, guard, stop, importantFailed, wobj, cobj>>

-----------------------------------------------------------------------------
(* The other threads *)

Deleting(o) ==
  \E c \in Clients : cobj[c] = o /\ cpc[c] \in {"ensuring", "ensureAsleep", "deletable"}
Using(o) == \E c \in Clients : cobj[c] = o

(* AsyncObject::wait_until_loaded, entered with a live object. *)
WaitUntilLoaded(c, o) ==
  /\ cpc[c] = "idle" /\ o \in alive /\ ~Deleting(o) /\ ~stop
  /\ cpc' = [cpc EXCEPT ![c] = "waiting"]
  /\ cobj' = [cobj EXCEPT ![c] = o]
  /\ UNCHANGED <<loaderVars, wpc, wobj, objectVars>>

(* Evaluating the predicate, which reads the atomic "finished", and blocking
   are two steps: the thread holds the object's mutex over both, but the one
   that stores "finished" and notifies does not take that mutex. *)
WaitReturn(c) ==
  /\ cpc[c] = "waiting" /\ finished[cobj[c]]
  /\ cpc' = [cpc EXCEPT ![c] = "idle"]
  /\ cobj' = [cobj EXCEPT ![c] = NoObject]
  /\ UNCHANGED <<loaderVars, wpc, wobj, objectVars>>

WaitUnmet(c) ==
  /\ cpc[c] = "waiting" /\ ~finished[cobj[c]]
  /\ cpc' = [cpc EXCEPT ![c] = "waitUnmet"]
  /\ UNCHANGED <<loaderVars, wpc, wobj, cobj, objectVars>>

WaitSleep(c) ==
  /\ cpc[c] = "waitUnmet"
  /\ cpc' = [cpc EXCEPT ![c] = "waitAsleep"]
  /\ UNCHANGED <<loaderVars, wpc, wobj, cobj, objectVars>>

(* ensure_deletable, called by the owner of an object nobody else is using. *)
EnsureDeletable(c, o) ==
  /\ cpc[c] = "idle" /\ o \in alive /\ ~Using(o) /\ ~stop
  /\ cpc' = [cpc EXCEPT ![c] = "ensuring"]
  /\ cobj' = [cobj EXCEPT ![c] = o]
  /\ UNCHANGED <<loaderVars, wpc, wobj, objectVars>>

(* The object is still queued: erase it from the queue and return. *)
EnsureUnqueue(c) ==
  /\ cpc[c] = "ensuring" /\ guard = NoThread
  /\ LET q == QueueOf(cobj[c])
     IN \E i \in 1..Len(q) :
          /\ q[i] = cobj[c] /\ \A j \in 1..(i-1) : q[j] # cobj[c]
          /\ toLoad' = [toLoad EXCEPT ![Priority[cobj[c]]] = RemoveAt(q, i)]
  /\ cpc' = [cpc EXCEPT ![c] = "deletable"]
  /\ UNCHANGED <<loading, guard, stop, importantFailed, wpc, wobj, cobj, objectVars>>

(* Mutant of EnsureReturn: an object that is being loaded counts as deletable. *)
EnsureReturnEarly(c) ==
  /\ cpc[c] = "ensuring" /\ guard = NoThread
  /\ ~IsQueued(cobj[c])
  /\ cpc' = [cpc EXCEPT ![c] = "deletable"]
  /\ UNCHANGED <<loaderVars, wpc, wobj, cobj, objectVars>>

EnsureReturn(c) ==
  /\ cpc[c] = "ensuring" /\ guard = NoThread
  /\ ~IsQueued(cobj[c]) /\ cobj[c] \notin loading
  /\ cpc' = [cpc EXCEPT ![c] = "deletable"]
  /\ UNCHANGED <<loaderVars, wpc, wobj, cobj, objectVars>>

EnsureSleep(c) ==
  /\ cpc[c] = "ensuring" /\ guard = NoThread
  /\ ~IsQueued(cobj[c]) /\ cobj[c] \in loading
  /\ cpc' = [cpc EXCEPT ![c] = "ensureAsleep"]
  /\ UNCHANGED <<loaderVars, wpc, wobj, cobj, objectVars>>

(* The caller deletes the object, as MapIndex::unloadTile does. *)
Delete(c) ==
  /\ cpc[c] = "deletable"
  /\ alive' = alive \ {cobj[c]}
  /\ cpc' = [cpc EXCEPT ![c] = "idle"]
  /\ cobj' = [cobj EXCEPT ![c] = NoObject]
  /\ UNCHANGED <<loaderVars, wpc, wobj, finished, failed, created>>

(* MapView::save: important_object_failed_loading() decides whether the user is
   shown what failed; the user may then give up ... *)
SaveCheck(c) ==
  /\ cpc[c] = "idle" /\ ~stop
  /\ \/ cpc' = [cpc EXCEPT ![c] = "saving"]
     \/ importantFailed /\ UNCHANGED cpc
  /\ UNCHANGED <<loaderVars, wpc, wobj, cobj, alive, finished, failed, created>>

(* ... or save, which ends in reset_object_fail(); neither call takes _guard. *)
SaveReset(c) ==
  /\ cpc[c] = "saving"
  /\ importantFailed' = FALSE
  /\ cpc' = [cpc EXCEPT ![c] = "idle"]
  /\ UNCHANGED <<toLoad, loading, guard, stop, wpc, wobj, cobj, objectVars>>

(* Mutant of Shutdown: the sleeping threads are not notified. *)
ShutdownQuietly ==
  /\ ~stop /\ guard = NoThread
  /\ \A c \in Clients : cpc[c] = "idle"
  /\ stop' = TRUE
  /\ UNCHANGED <<toLoad, loading, guard, importantFailed, threadVars, objectVars>>

(* ~AsyncLoader, when no other thread is inside the loader any more. *)
Shutdown ==
  /\ ~stop /\ guard = NoThread
  /\ \A c \in Clients : cpc[c] = "idle"
  /\ stop' = TRUE
  /\ wpc' = WokenWorkers(LoaderSleepers)
  /\ UNCHANGED <<toLoad, loading, guard, importantFailed, wobj, cpc, cobj, objectVars>>

ClientStep(c) ==
  \/ WaitReturn(c) \/ WaitUnmet(c) \/ WaitSleep(c)
  \/ EnsureUnqueue(c) \/ EnsureReturn(c) \/ EnsureSleep(c)
  \/ Delete(c) \/ SaveReset(c)

ClientCall(c) ==
  \/ \E o \in Objects : WaitUntilLoaded(c, o) \/ EnsureDeletable(c, o)
  \/ SaveCheck(c)

Next ==
  \/ \E w \in Workers : Process(w)
  \/ \E t \in Workers \cup Clients, o \in Objects : QueueForLoad(t, o)
  \/ \E c \in Clients : ClientStep(c) \/ ClientCall(c)
  \/ Shutdown

Spec == Init /\ [][Next]_vars

(* The threads of the process are scheduled: a thread that can step steps.
   Nothing obliges a client to call anything. *)
FairSpec ==
  /\ Spec
  /\ \A w \in Workers : WF_vars(Process(w))
  /\ \A c \in Clients : WF_vars(ClientStep(c))

-----------------------------------------------------------------------------
(* The invariant that makes the loader safe to delete from *)

Busy == {"loading", "finishing", "reporting", "failing", "excusing"}
Ensuring == {"ensuring", "ensureAsleep", "deletable"}
Waiting == {"waiting", "waitUnmet", "waitAsleep"}

(* A queued object is alive, sits once in the queue of its priority, is not
   being loaded and has not been loaded. *)
QueueInv ==
  \A p \in Priorities :
    /\ IsInjective(toLoad[p])
    /\ \A o \in Objects : Contains(toLoad[p], o) =>
         Priority[o] = p /\ o \in alive /\ o \notin loading /\ ~finished[o]

(* _currently_loading is what the busy workers hold, each object one worker. *)
BusyInv ==
  /\ loading \subseteq alive
  /\ \A o \in loading : \E w \in Workers : wpc[w] \in Busy /\ wobj[w] = o
  /\ \A w \in Workers :
       IF wpc[w] \in Busy
       THEN /\ wobj[w] \in loading
            /\ finished[wobj[w]] <=> wpc[w] # "loading"
            /\ \A v \in Workers : wpc[v] \in Busy /\ wobj[v] = wobj[w] => v = w
       ELSE wobj[w] = NoObject

(* _guard is held exactly by the worker inside an exception handler. *)
GuardInv ==
  \A w \in Workers : wpc[w] \in {"failing", "excusing"} <=> guard = w

(* A thread inside a call works on a live object, and the owner that deletes
   one is alone with it. *)
ClientInv ==
  \A c \in Clients :
    /\ cpc[c] \in Ensuring \cup Waiting => cobj[c] \in alive
    /\ cpc[c] \notin Ensuring \cup Waiting => cobj[c] = NoObject
    /\ cpc[c] \in Ensuring => \A d \in Clients : cobj[d] = cobj[c] => d = c

(* What ensure_deletable promises: once it has returned, no queue and no worker
   holds the object, and none ever will while its owner deletes it. *)
DeletableIsReleased ==
  \A c \in Clients : cpc[c] = "deletable" =>
    /\ cobj[c] \in alive
    /\ ~IsQueued(cobj[c])
    /\ \A w \in Workers : wobj[w] # cobj[c]

(* The inductive invariant the safety of the loader rests on. *)
IInv == TypeOK /\ QueueInv /\ BusyInv /\ GuardInv /\ ClientInv /\ DeletableIsReleased

-----------------------------------------------------------------------------
(* The loader implements its contract *)

status ==
  [o \in Objects |->
     IF o \notin alive THEN "absent"
     ELSE IF IsQueued(o) THEN "queued"
     ELSE IF o \in loading THEN "loading"
     ELSE IF finished[o] THEN "done" ELSE "dropped"]

Contract == INSTANCE LoaderContract

(* Every behaviour of the loader is one the contract allows. *)
KeepsContract == Contract!Spec

-----------------------------------------------------------------------------
(* Liveness, under FairSpec *)

(* A queued object does not stay in the queue: a worker takes it, its owner
   takes it off, or the loader stops. *)
QueueDrains == \A o \in Objects : IsQueued(o) ~> ~IsQueued(o) \/ stop

(* A thread blocked in wait_until_loaded before the object is finished is woken. *)
BlockedWaitersReturn ==
  \A c \in Clients :
    cpc[c] = "waitAsleep" /\ ~finished[cobj[c]] ~> cpc[c] \notin Waiting

(* An owner that asks for an object to be deletable gets it. *)
EnsureReturns == \A c \in Clients : cpc[c] = "ensuring" ~> cpc[c] = "deletable"

(* ~AsyncLoader joins its threads: all of them come to an end. *)
ShutdownJoins == stop ~> \A w \in Workers : wpc[w] = "exited"

=============================================================================
