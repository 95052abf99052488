----------------------------- MODULE AssetCache -----------------------------
(***************************************************************************)
(* AsyncObjectMultimap (noggit/AsyncObjectMultimap.hpp), the cache of      *)
(* models, world models and textures: one element per file and context,    *)
(* counted by the scoped references to it, loaded by AsyncLoader when the  *)
(* first reference is made and deleted when the last one goes.  It         *)
(* composes with AsyncLoader: every step here that touches the loader is a *)
(* step of that module, and the loader's own steps go on in between.       *)
(*                                                                         *)
(* emplace holds _mutex over its whole body and is one step.  erase takes  *)
(* it twice and is up to four: the count, the look at finishedLoading(),   *)
(* ensure_deletable (several steps of the loader), and the deletion.       *)
(*                                                                         *)
(* Two things go wrong between those steps, and both end in freed memory   *)
(* being used, so the model notes them in "undefined" and ends:            *)
(*   "crossed"   emplace finds an element whose eraser is at work          *)
(*   "overtaken" an element is deleted while a worker is not done with it, *)
(*               because erase asks finishedLoading() and not the loader.  *)
(***************************************************************************)
EXTENDS AsyncLoader, FiniteSets

CONSTANTS
  Keys,      \* a file in a render context
  Handles,   \* scoped_model_reference, scoped_wmo_reference, scoped_blp_texture_reference
  NoKey      \* a thread erases nothing

ASSUME CacheAssumption ==
  /\ NoKey \notin Keys
  /\ IsFiniteSet(Handles)

VARIABLES
  elements,  \* _elements: the address of the element of a key
  counts,    \* _counts, 0 where there is no entry
  refs,      \* the key a scoped reference holds, NoKey if it holds none
  target,    \* the pointer it keeps next to the key
  epc, ekey, \* where a thread is in erase(), and the key it erases
  undefined  \* what went wrong, if anything did

cacheVars == <<elements, counts, refs, target, epc, ekey, undefined>>
allVars == <<vars, cacheVars>>

EraseLocations == {"none", "checking", "ensuring", "removing"}

CacheTypeOK ==
  /\ elements \in [Keys -> Objects \cup {NoObject}]
  /\ counts \in [Keys -> Nat]
  /\ refs \in [Handles -> Keys \cup {NoKey}]
  /\ target \in [Handles -> Objects \cup {NoObject}]
  /\ epc \in [Clients -> EraseLocations]
  /\ ekey \in [Clients -> Keys \cup {NoKey}]
  /\ undefined \in {"nothing", "crossed", "overtaken"}

CacheInit ==
  /\ Init
  /\ elements = [k \in Keys |-> NoObject]
  /\ counts = [k \in Keys |-> 0]
  /\ refs = [h \in Handles |-> NoKey]
  /\ target = [h \in Handles |-> NoObject]
  /\ epc = [c \in Clients |-> "none"]
  /\ ekey = [c \in Clients |-> NoKey]
  /\ undefined = "nothing"

-----------------------------------------------------------------------------
(* emplace *)

(* A worker makes references while it loads a tile or a model that needs them;
   another thread whenever it is not inside the cache or the loader. *)
MayRefer(t) ==
  IF t \in Workers THEN wpc[t] = "loading" ELSE cpc[t] = "idle" /\ epc[t] = "none"

Hold(h, k, o) ==
  /\ refs[h] = NoKey
  /\ refs' = [refs EXCEPT ![h] = k]
  /\ target' = [target EXCEPT ![h] = o]

(* Mutant of EmplaceAgain: the element is handed out without a count. *)
EmplaceUncounted(t, h, k) ==
  /\ MayRefer(t) /\ counts[k] > 0
  /\ Hold(h, k, elements[k])
  /\ UNCHANGED <<vars, elements, counts, epc, ekey, undefined>>

(* The key is counted: the caller gets the element there is.  The copy of a
   reference does the same. *)
EmplaceAgain(t, h, k) ==
  /\ MayRefer(t) /\ counts[k] > 0
  /\ counts' = [counts EXCEPT ![k] = @ + 1]
  /\ Hold(h, k, elements[k])
  /\ UNCHANGED <<vars, elements, epc, ekey, undefined>>

(* Mutant of EmplaceNew: a new element is queued only by a worker. *)
EmplaceUnqueued(t, h, k, o) ==
  /\ MayRefer(t) /\ counts[k] = 0 /\ elements[k] = NoObject
  /\ IF t \in Workers THEN QueueForLoad(t, o)
     ELSE /\ o \notin alive /\ created < MaxCreated
          /\ created' = created + 1
          /\ alive' = alive \cup {o}
          /\ finished' = [finished EXCEPT ![o] = FALSE]
          /\ UNCHANGED <<loaderVars, threadVars, failed>>
  /\ elements' = [elements EXCEPT ![k] = o]
  /\ counts' = [counts EXCEPT ![k] = 1]
  /\ Hold(h, k, o)
  /\ UNCHANGED <<epc, ekey, undefined>>

(* No count and no element: construct it and queue it. *)
EmplaceNew(t, h, k, o) ==
  /\ MayRefer(t) /\ counts[k] = 0 /\ elements[k] = NoObject
  /\ QueueForLoad(t, o)
  /\ elements' = [elements EXCEPT ![k] = o]
  /\ counts' = [counts EXCEPT ![k] = 1]
  /\ Hold(h, k, o)
  /\ UNCHANGED <<epc, ekey, undefined>>

(* No count, but the element is still there: its eraser is between its two
   critical sections.  The caller gets the old element, which the eraser will
   delete, and queues it again. *)
EmplaceCrossing(t, h, k) ==
  /\ MayRefer(t) /\ counts[k] = 0 /\ elements[k] # NoObject
  /\ counts' = [counts EXCEPT ![k] = 1]
  /\ Hold(h, k, elements[k])
  /\ undefined' = "crossed"
  /\ UNCHANGED <<vars, elements, epc, ekey>>

(* A reference is moved: the count stays, the source lets go of it. *)
Move(t, h, g) ==
  /\ MayRefer(t) /\ refs[h] # NoKey /\ refs[g] = NoKey
  /\ refs' = [refs EXCEPT ![h] = NoKey, ![g] = refs[h]]
  /\ target' = [target EXCEPT ![h] = NoObject, ![g] = target[h]]
  /\ UNCHANGED <<vars, elements, counts, epc, ekey, undefined>>

-----------------------------------------------------------------------------
(* erase *)

Drop(h) ==
  /\ refs' = [refs EXCEPT ![h] = NoKey]
  /\ target' = [target EXCEPT ![h] = NoObject]

(* A scoped reference ends: one count less.  The thread that takes the last one
   goes on with the element. *)
Release(c, h) ==
  /\ cpc[c] = "idle" /\ epc[c] = "none" /\ refs[h] # NoKey
  /\ counts' = [counts EXCEPT ![refs[h]] = @ - 1]
  /\ IF counts[refs[h]] = 1
     THEN /\ epc' = [epc EXCEPT ![c] = "checking"]
          /\ ekey' = [ekey EXCEPT ![c] = refs[h]]
     ELSE UNCHANGED <<epc, ekey>>
  /\ Drop(h)
  /\ UNCHANGED <<vars, elements, undefined>>

(* Mutant of Check: nobody asks whether the element is loaded. *)
CheckNothing(c) ==
  /\ epc[c] = "checking"
  /\ epc' = [epc EXCEPT ![c] = "removing"]
  /\ UNCHANGED <<vars, elements, counts, refs, target, ekey, undefined>>

(* Outside _mutex: ask finishedLoading(), and if it is not, ensure_deletable. *)
Check(c) ==
  /\ epc[c] = "checking"
  /\ IF finished[elements[ekey[c]]]
     THEN /\ epc' = [epc EXCEPT ![c] = "removing"]
          /\ UNCHANGED vars
     ELSE /\ epc' = [epc EXCEPT ![c] = "ensuring"]
          /\ EnsureDeletable(c, elements[ekey[c]])
  /\ UNCHANGED <<elements, counts, refs, target, ekey, undefined>>

(* ensure_deletable of the loader. *)
Ensure(c) ==
  /\ epc[c] = "ensuring"
  /\ EnsureUnqueue(c) \/ EnsureReturn(c) \/ EnsureSleep(c)
  /\ UNCHANGED cacheVars

EndErase(c) ==
  /\ elements' = [elements EXCEPT ![ekey[c]] = NoObject]
  /\ counts' = [counts EXCEPT ![ekey[c]] = 0]
  /\ epc' = [epc EXCEPT ![c] = "none"]
  /\ ekey' = [ekey EXCEPT ![c] = NoKey]
  /\ UNCHANGED <<refs, target>>

(* ensure_deletable has returned: the element is deleted. *)
RemoveEnsured(c) ==
  /\ epc[c] = "ensuring" /\ Delete(c)
  /\ EndErase(c)
  /\ UNCHANGED undefined

(* The element was finished: it is deleted whatever the loader does with it.
   The worker that finished it has yet to notify on it and to take it off
   _currently_loading. *)
RemoveFinished(c) ==
  /\ epc[c] = "removing"
  /\ alive' = alive \ {elements[ekey[c]]}
  /\ undefined' = IF elements[ekey[c]] \in loading THEN "overtaken" ELSE undefined
  /\ EndErase(c)
  /\ UNCHANGED <<loaderVars, threadVars, finished, failed, created>>

-----------------------------------------------------------------------------
WorkerStep(w) == undefined = "nothing" /\ Process(w) /\ UNCHANGED cacheVars

EraseStep(c) ==
  /\ undefined = "nothing"
  /\ Check(c) \/ Ensure(c) \/ RemoveEnsured(c) \/ RemoveFinished(c)

Refer(t, h, k) ==
  /\ undefined = "nothing"
  /\ \/ EmplaceAgain(t, h, k)
     \/ \E o \in Objects : EmplaceNew(t, h, k, o)
     \/ EmplaceCrossing(t, h, k)

HandleStep ==
  /\ undefined = "nothing"
  /\ \/ \E t \in Workers \cup Clients, h, g \in Handles : Move(t, h, g)
     \/ \E c \in Clients, h \in Handles : Release(c, h)

CacheNext ==
  \/ \E w \in Workers : WorkerStep(w)
  \/ \E c \in Clients : EraseStep(c)
  \/ \E t \in Workers \cup Clients, h \in Handles, k \in Keys : Refer(t, h, k)
  \/ HandleStep

CacheSpec == CacheInit /\ [][CacheNext]_allVars

(* The threads are scheduled, and a thread that has begun to erase goes on. *)
FairCacheSpec ==
  /\ CacheSpec
  /\ \A w \in Workers : WF_allVars(WorkerStep(w))
  /\ \A c \in Clients : WF_allVars(EraseStep(c))

-----------------------------------------------------------------------------
(* Safety *)

Holders(k) == {h \in Handles : refs[h] = k}

(* A thread that erases a key is alone with it: nobody counts it or erases it
   too, and the element is still there. *)
EraserInv ==
  /\ \A c \in Clients :
       /\ epc[c] = "none" <=> ekey[c] = NoKey
       /\ epc[c] = "none" => cpc[c] = "idle"
       /\ epc[c] # "none" =>
            /\ counts[ekey[c]] = 0 /\ elements[ekey[c]] # NoObject
            /\ \A d \in Clients : ekey[d] = ekey[c] => d = c
       /\ epc[c] = "ensuring" => cpc[c] \in Ensuring /\ cobj[c] = elements[ekey[c]]
       /\ epc[c] \in {"checking", "removing"} => cpc[c] = "idle"
       /\ epc[c] = "removing" => finished[elements[ekey[c]]]
  /\ \A k \in Keys :
       counts[k] = 0 /\ elements[k] # NoObject => \E c \in Clients : ekey[c] = k

(* The elements are the objects that are alive, one key each. *)
ElementInv ==
  /\ \A k \in Keys : elements[k] # NoObject => elements[k] \in alive
  /\ \A o \in alive : \E k \in Keys : elements[k] = o
  /\ \A k, l \in Keys : elements[k] = elements[l] /\ elements[k] # NoObject => k = l

(* Every reference points to the element its key has now, and the element is
   alive: releasing, moving and making references in any order never leaves one
   behind, until an emplace crosses an erase. *)
ReferencesAreAlive ==
  undefined # "crossed" =>
    \A h \in Handles : refs[h] # NoKey =>
      target[h] = elements[refs[h]] /\ target[h] \in alive

(* The count of a key is the number of references that hold it, so the last one
   to go, and only it, erases the element. *)
CountsAreReferences ==
  undefined # "crossed" => \A k \in Keys : counts[k] = Cardinality(Holders(k))

(* What the threads of the loader and of the cache keep until something goes
   wrong, the loader's own invariant with it. *)
CacheIInv ==
  /\ CacheTypeOK
  /\ undefined = "nothing" => IInv /\ EraserInv /\ ElementInv
  /\ ReferencesAreAlive
  /\ CountsAreReferences

(* Whatever the cache does with the loader is something its contract allows,
   but for the deletion that overtakes a worker. *)
UsesContract == [][undefined' # "overtaken" => Contract!Next]_status

(* Liveness, under FairCacheSpec: an asset somebody refers to comes to be
   loaded, as long as no file fails to load.  One that fails wakes nobody: an
   eraser that waits for it stays asleep, and takes the wakeup that the next
   queue_for_load has for a worker, so that asset is not loaded. *)
NothingFails == [](\A o \in Objects : ~failed[o])

AssetsLoad ==
  NothingFails =>
    \A k \in Keys :
      counts[k] > 0 /\ ~finished[elements[k]]
        ~> counts[k] = 0 \/ finished[elements[k]] \/ undefined # "nothing"

=============================================================================
