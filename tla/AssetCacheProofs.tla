-------------------------- MODULE AssetCacheProofs --------------------------
(* Proofs about AssetCache, for every set of files, references and threads.  *)
(* They rest on those of AsyncLoaderProofs: nearly every step of the cache   *)
(* is a step of the loader or leaves it alone, so the loader's invariant     *)
(* holds for it; what is left is the deletion that does not ask the loader.  *)
EXTENDS AssetCache, AsyncLoaderProofs, FiniteSetTheorems

-----------------------------------------------------------------------------
(* What the steps of the loader do to the things the cache looks at *)

(* Threads that wait stay where they wait, and what is finished stays so. *)
LEMMA WorkerFrame ==
  ASSUME IInv, NEW w \in Workers, Process(w)
  PROVE  /\ alive' = alive /\ cobj' = cobj
         /\ \A c \in Clients : \/ cpc'[c] = cpc[c]
                               \/ cpc[c] \in Ensuring /\ cpc'[c] \in Ensuring
                               \/ cpc[c] \in Waiting /\ cpc'[c] \in Waiting
         /\ \A o \in Objects : finished[o] => finished'[o]
  <1>. TypeOK
    BY DEF IInv
  <1>1. ASSUME Take(w) \/ Sleep(w) \/ Exit(w) \/ FailReport(w)
        PROVE  UNCHANGED <<alive, cobj, cpc, finished>>
    BY <1>1 DEF Take, Sleep, Exit, FailReport, objectVars
  <1>2. ASSUME FinishStore(w) \/ Fail(w)
        PROVE  UNCHANGED <<alive, cobj, cpc>> /\ finished' = [finished EXCEPT ![wobj[w]] = TRUE]
    BY <1>2 DEF FinishStore, Fail
  <1>3. ASSUME FinishNotify(w) \/ FailNotify(w)
        PROVE  /\ UNCHANGED <<alive, cobj, finished>>
               /\ \A c \in Clients : cpc'[c] = cpc[c] \/ (cpc[c] = "waitAsleep" /\ cpc'[c] = "waiting")
    <2>1. UNCHANGED <<alive, cobj, finished>> /\ WakeWaiters(wobj[w])
      BY <1>3 DEF FinishNotify, FailNotify, objectVars
    <2>. QED BY <2>1 DEF WakeWaiters, ObjectSleepers, TypeOK
  <1>4. ASSUME Report(w)
        PROVE  /\ UNCHANGED <<alive, cobj, finished>>
               /\ \A c \in Clients : cpc'[c] = cpc[c] \/ (cpc[c] = "ensureAsleep" /\ cpc'[c] = "ensuring")
    <2>1. UNCHANGED <<alive, cobj, finished>> /\ cpc' = WokenClients(LoaderSleepers)
      BY <1>4 DEF Report, objectVars
    <2>. QED BY <2>1, WokenLocations
  <1>5. CASE Take(w) \/ Sleep(w) \/ Exit(w) \/ FailReport(w)
    BY <1>1, <1>5
  <1>6. CASE FinishStore(w) \/ Fail(w)
    BY <1>2, <1>6 DEF TypeOK
  <1>7. CASE FinishNotify(w) \/ FailNotify(w)
    BY <1>3, <1>7 DEF Waiting
  <1>8. CASE Report(w)
    BY <1>4, <1>8 DEF Ensuring
  <1>. QED BY <1>5, <1>6, <1>7, <1>8 DEF Process

(* Queueing a new object wakes threads and nothing else. *)
LEMMA QueueFrame ==
  ASSUME IInv, NEW t \in Workers \cup Clients, NEW o \in Objects, QueueForLoad(t, o)
  PROVE  /\ o \notin alive /\ alive' = alive \cup {o} /\ cobj' = cobj
         /\ \A c \in Clients : \/ cpc'[c] = cpc[c]
                               \/ cpc[c] \in Ensuring /\ cpc'[c] \in Ensuring
         /\ \A x \in Objects : x # o => finished'[x] = finished[x]
  <1>. TypeOK
    BY DEF IInv
  <1>1. /\ o \notin alive /\ alive' = alive \cup {o} /\ cobj' = cobj /\ NotifyOne
        /\ finished' = [finished EXCEPT ![o] = FALSE]
    BY DEF QueueForLoad
  <1>2. \A c \in Clients : cpc'[c] = cpc[c] \/ (cpc[c] = "ensureAsleep" /\ cpc'[c] = "ensuring")
    BY <1>1, NotifyOneLocations
  <1>. QED BY <1>1, <1>2 DEF Ensuring, TypeOK

(* A step of the loader keeps the loader's invariant. *)
LEMMA LoaderStep == IInv /\ [Next]_vars => IInv'
  BY TypeStep, QueueStep, BusyStep, GuardStep, ClientsStep, ReleasedStep DEF IInv

-----------------------------------------------------------------------------
(* Which steps of the cache are steps of the loader *)

(* All but the deletion that does not ask the loader. *)
LEMMA CacheUsesLoader ==
  ASSUME IInv, [CacheNext]_allVars, \A c \in Clients : ~RemoveFinished(c)
  PROVE  [Next]_vars
  <1>1. ASSUME NEW w \in Workers, WorkerStep(w) PROVE Next
    BY <1>1 DEF WorkerStep, Next
  <1>2. ASSUME NEW c \in Clients, Check(c) PROVE [Next]_vars
    <2>1. CASE finished[elements[ekey[c]]]
      BY <1>2, <2>1 DEF Check
    <2>2. CASE ~finished[elements[ekey[c]]]
      <3>1. EnsureDeletable(c, elements[ekey[c]])
        BY <1>2, <2>2 DEF Check
      <3>2. elements[ekey[c]] \in Objects
        BY <3>1 DEF EnsureDeletable, IInv, TypeOK
      <3>3. ClientCall(c)
        BY <3>1, <3>2 DEF ClientCall
      <3>. QED BY <3>3 DEF Next
    <2>. QED BY <2>1, <2>2
  <1>3. ASSUME NEW c \in Clients, Ensure(c) \/ RemoveEnsured(c) PROVE Next
    BY <1>3 DEF Ensure, RemoveEnsured, Next, ClientStep
  <1>4. ASSUME NEW t \in Workers \cup Clients, NEW h \in Handles, NEW k \in Keys, Refer(t, h, k)
        PROVE  [Next]_vars
    <2>1. EmplaceAgain(t, h, k) \/ EmplaceCrossing(t, h, k) => UNCHANGED vars
      BY DEF EmplaceAgain, EmplaceCrossing
    <2>2. ASSUME NEW o \in Objects, EmplaceNew(t, h, k, o) PROVE Next
      BY <2>2 DEF EmplaceNew, Next
    <2>. QED BY <1>4, <2>1, <2>2 DEF Refer
  <1>5. HandleStep \/ UNCHANGED allVars => UNCHANGED vars
    BY DEF HandleStep, Move, Release, allVars
  <1>. QED BY <1>1, <1>2, <1>3, <1>4, <1>5 DEF CacheNext, EraseStep

(* Deleting a finished element that no worker holds keeps the loader's
   invariant: no queue, no worker and no other thread knows the object. *)
LEMMA RemoveFinishedStep ==
  ASSUME IInv, EraserInv, ElementInv, CacheTypeOK, NEW c \in Clients, RemoveFinished(c),
         elements[ekey[c]] \notin loading
  PROVE  IInv'
  <1>. TypeOK /\ QueueInv /\ BusyInv /\ GuardInv /\ ClientInv /\ DeletableIsReleased
    BY DEF IInv
  <1>. DEFINE o == elements[ekey[c]]
  <1>1. /\ epc[c] = "removing" /\ alive' = alive \ {o}
        /\ UNCHANGED <<toLoad, loading, guard, stop, importantFailed, wpc, wobj, cpc, cobj,
                      finished, failed, created>>
    BY DEF RemoveFinished, loaderVars, threadVars
  <1>2. o \in Objects /\ o \in alive /\ finished[o] /\ ekey[c] \in Keys
    BY <1>1 DEF EraserInv, ElementInv, CacheTypeOK, TypeOK
  <1>3. \A d \in Clients : cobj[d] # o
    <2>1. SUFFICES ASSUME NEW d \in Clients, cobj[d] = o PROVE FALSE
      OBVIOUS
    <2>2. cpc[d] \in Ensuring \cup Waiting
      BY <1>2, <2>1, ThreadAssumption DEF ClientInv, TypeOK
    <2>3. epc[d] = "ensuring" /\ cobj[d] = elements[ekey[d]]
      BY <2>2 DEF EraserInv, CacheTypeOK, EraseLocations, Ensuring, Waiting
    <2>4. ekey[d] \in Keys /\ elements[ekey[d]] = o /\ o # NoObject
      <3>1. ekey[d] # NoKey
        BY <2>3 DEF EraserInv
      <3>. QED BY <1>2, <2>1, <2>3, <3>1, ThreadAssumption DEF CacheTypeOK
    <2>5. ekey[d] = ekey[c]
      BY <1>2, <2>4 DEF ElementInv
    <2>6. d = c
      BY <1>1, <2>5 DEF EraserInv
    <2>. QED BY <1>1, <2>3, <2>6
  <1>. HIDE DEF o
  <1>4. TypeOK'
    BY <1>1 DEF TypeOK
  <1>5. QueueInv'
    BY <1>1, <1>2 DEF QueueInv
  <1>6. BusyInv'
    <2>1. loading \subseteq alive \ {o}
      BY DEF BusyInv, o
    <2>. QED BY <1>1, <2>1 DEF BusyInv
  <1>7. GuardInv'
    BY <1>1 DEF GuardInv
  <1>8. ClientInv'
    BY <1>1, <1>3 DEF ClientInv
  <1>9. DeletableIsReleased'
    BY <1>1, <1>3 DEF DeletableIsReleased, IsQueued, QueueOf
  <1>. QED BY <1>4, <1>5, <1>6, <1>7, <1>8, <1>9 DEF IInv

-----------------------------------------------------------------------------
(* The cache's own invariant *)

(* What the cache keeps while nothing has gone wrong. *)
SoundInv ==
  /\ undefined = "nothing" => IInv /\ EraserInv /\ ElementInv
  /\ ReferencesAreAlive /\ CountsAreReferences

(* A reference that is held has a count, an element and an address. *)
LEMMA HeldFacts ==
  ASSUME CacheTypeOK, TypeOK, ReferencesAreAlive, CountsAreReferences, undefined = "nothing",
         NEW h \in Handles, refs[h] # NoKey
  PROVE  /\ refs[h] \in Keys /\ counts[refs[h]] \in Nat /\ counts[refs[h]] > 0
         /\ elements[refs[h]] \in Objects /\ target[h] = elements[refs[h]]
  <1>1. refs[h] \in Keys /\ counts[refs[h]] \in Nat
    BY DEF CacheTypeOK
  <1>2. target[h] = elements[refs[h]] /\ target[h] \in Objects
    BY DEF ReferencesAreAlive, TypeOK
  <1>3. h \in Holders(refs[h]) /\ IsFiniteSet(Holders(refs[h]))
    <2>1. Holders(refs[h]) \in SUBSET Handles
      BY DEF Holders
    <2>. QED BY <2>1, FS_Subset, CacheAssumption DEF Holders
  <1>4. counts[refs[h]] # 0
    BY <1>1, <1>3, FS_EmptySet DEF CountsAreReferences
  <1>. QED BY <1>1, <1>2, <1>4

(* The cardinality of the references of a key when one is taken or dropped. *)
LEMMA HolderCounts ==
  ASSUME CacheTypeOK, CacheTypeOK', NEW h \in Handles,
         \A g \in Handles : g # h => refs'[g] = refs[g]
  PROVE  /\ \A k \in Keys : Cardinality(Holders(k)) \in Nat
         /\ \A k \in Keys : refs[h] # k /\ refs'[h] # k =>
              Cardinality(Holders(k))' = Cardinality(Holders(k))
         /\ \A k \in Keys : refs[h] # k /\ refs'[h] = k =>
              Cardinality(Holders(k))' = Cardinality(Holders(k)) + 1
         /\ \A k \in Keys : refs[h] = k /\ refs'[h] # k =>
              Cardinality(Holders(k))' = Cardinality(Holders(k)) - 1
  <1>1. \A k \in Keys : IsFiniteSet(Holders(k))
    <2>1. \A k \in Keys : Holders(k) \in SUBSET Handles
      BY DEF Holders
    <2>. QED BY <2>1, FS_Subset, CacheAssumption
  <1>2. ASSUME NEW k \in Keys, refs[h] # k, refs'[h] # k PROVE Holders(k)' = Holders(k)
    BY <1>2 DEF Holders
  <1>3. ASSUME NEW k \in Keys, refs[h] # k, refs'[h] = k
        PROVE  Holders(k)' = Holders(k) \cup {h} /\ h \notin Holders(k)
    BY <1>3 DEF Holders
  <1>4. ASSUME NEW k \in Keys, refs[h] = k, refs'[h] # k
        PROVE  Holders(k)' = Holders(k) \ {h} /\ h \in Holders(k)
    BY <1>4 DEF Holders
  <1>. QED BY <1>1, <1>2, <1>3, <1>4, FS_AddElement, FS_RemoveElement, FS_CardinalityType

(* The types of the cache. *)
LEMMA CacheTypeStep ==
  ASSUME CacheTypeOK, SoundInv, [CacheNext]_allVars
  PROVE  CacheTypeOK'
  <1>. USE DEF CacheTypeOK
  <1>1. ASSUME UNCHANGED cacheVars PROVE CacheTypeOK'
    BY <1>1 DEF cacheVars
  <1>2. ASSUME NEW t \in Workers \cup Clients, NEW h \in Handles, NEW k \in Keys, Refer(t, h, k)
        PROVE  CacheTypeOK'
    <2>1. CASE EmplaceAgain(t, h, k) \/ EmplaceCrossing(t, h, k)
      <3>1. /\ UNCHANGED <<elements, epc, ekey>>
            /\ undefined' = undefined \/ undefined' = "crossed"
            /\ counts' = [counts EXCEPT ![k] = @ + 1] \/ counts' = [counts EXCEPT ![k] = 1]
            /\ refs' = [refs EXCEPT ![h] = k] /\ target' = [target EXCEPT ![h] = elements[k]]
        BY <2>1 DEF EmplaceAgain, EmplaceCrossing, Hold
      <3>. QED BY <3>1
    <2>2. CASE \E o \in Objects : EmplaceNew(t, h, k, o)
      <3>1. PICK o \in Objects :
              /\ UNCHANGED <<undefined, epc, ekey>>
              /\ elements' = [elements EXCEPT ![k] = o] /\ counts' = [counts EXCEPT ![k] = 1]
              /\ refs' = [refs EXCEPT ![h] = k] /\ target' = [target EXCEPT ![h] = o]
        BY <2>2 DEF EmplaceNew, Hold
      <3>. QED BY <3>1
    <2>. QED BY <1>2, <2>1, <2>2 DEF Refer
  <1>3. ASSUME NEW t, NEW h \in Handles, NEW g \in Handles, Move(t, h, g) PROVE CacheTypeOK'
    BY <1>3 DEF Move
  <1>4. ASSUME undefined = "nothing", NEW c \in Clients, NEW h \in Handles, Release(c, h)
        PROVE  CacheTypeOK'
    <2>1. refs[h] \in Keys /\ counts[refs[h]] \in Nat /\ counts[refs[h]] > 0
      BY <1>4, HeldFacts DEF SoundInv, IInv, Release
    <2>2. counts[refs[h]] - 1 \in Nat
      BY <2>1
    <2>3. counts' \in [Keys -> Nat]
      BY <1>4, <2>1, <2>2 DEF Release
    <2>. QED BY <1>4, <2>1, <2>3 DEF Release, Drop, EraseLocations
  <1>5. ASSUME NEW c \in Clients, Check(c) PROVE CacheTypeOK'
    BY <1>5 DEF Check, EraseLocations
  <1>6. ASSUME NEW c \in Clients, RemoveEnsured(c) \/ RemoveFinished(c) PROVE CacheTypeOK'
    <2>1. EndErase(c) /\ (undefined' = undefined \/ undefined' = "overtaken")
      BY <1>6 DEF RemoveEnsured, RemoveFinished
    <2>. QED BY <2>1 DEF EndErase, EraseLocations
  <1>7. ASSUME NEW w \in Workers, WorkerStep(w) PROVE CacheTypeOK'
    BY <1>1, <1>7 DEF WorkerStep
  <1>8. ASSUME NEW c \in Clients, Ensure(c) PROVE CacheTypeOK'
    BY <1>1, <1>8 DEF Ensure
  <1>9. UNCHANGED allVars => UNCHANGED cacheVars
    BY DEF allVars
  <1>10. HandleStep => undefined = "nothing"
    BY DEF HandleStep
  <1>. QED BY <1>1, <1>2, <1>3, <1>4, <1>5, <1>6, <1>7, <1>8, <1>9, <1>10
           DEF CacheNext, HandleStep, EraseStep

(* While the tables of the cache are left alone, a step of the loader that
   leaves the waiting threads waiting and the finished objects finished keeps
   the invariant. *)
LEMMA SoundFrame ==
  ASSUME CacheTypeOK, SoundInv, undefined = "nothing", IInv', UNCHANGED cacheVars,
         alive' = alive, cobj' = cobj,
         \A c \in Clients : \/ cpc'[c] = cpc[c]
                            \/ cpc[c] \in Ensuring /\ cpc'[c] \in Ensuring,
         \A o \in Objects : finished[o] => finished'[o]
  PROVE  SoundInv'
  <1>. IInv /\ TypeOK /\ EraserInv /\ ElementInv
    BY DEF SoundInv, IInv
  <1>1. \A c \in Clients : epc[c] # "none" => elements[ekey[c]] \in Objects
    BY DEF EraserInv, ElementInv, CacheTypeOK, TypeOK
  <1>2. EraserInv'
    BY <1>1 DEF EraserInv, cacheVars, Ensuring
  <1>3. ElementInv'
    BY DEF ElementInv, cacheVars
  <1>4. ReferencesAreAlive'
    BY DEF ReferencesAreAlive, SoundInv, cacheVars
  <1>5. CountsAreReferences'
    BY DEF CountsAreReferences, SoundInv, cacheVars, Holders
  <1>. QED BY <1>2, <1>3, <1>4, <1>5 DEF SoundInv

(* A new reference to an element that is counted. *)
LEMMA EmplaceAgainSound ==
  ASSUME CacheTypeOK, CacheTypeOK', SoundInv, undefined = "nothing", IInv', NEW t,
         NEW h \in Handles, NEW k \in Keys, EmplaceAgain(t, h, k)
  PROVE  SoundInv'
  <1>. IInv /\ TypeOK /\ EraserInv /\ ElementInv /\ ReferencesAreAlive /\ CountsAreReferences
    BY DEF SoundInv, IInv
  <1>1. /\ counts[k] > 0 /\ refs[h] = NoKey
        /\ counts' = [counts EXCEPT ![k] = counts[k] + 1]
        /\ refs' = [refs EXCEPT ![h] = k] /\ target' = [target EXCEPT ![h] = elements[k]]
        /\ UNCHANGED <<elements, epc, ekey, undefined, alive, cpc, cobj, finished>>
    BY DEF EmplaceAgain, Hold, vars, threadVars, objectVars
  <1>2. CountsAreReferences'
    <2>1. ASSUME NEW l \in Keys PROVE counts'[l] = Cardinality(Holders(l))'
      <3>1. counts[l] = Cardinality(Holders(l))
        BY DEF CountsAreReferences
      <3>2. /\ refs'[h] = k /\ refs[h] # l
            /\ \A g \in Handles : g # h => refs'[g] = refs[g]
        BY <1>1, CacheAssumption DEF CacheTypeOK
      <3>3. Cardinality(Holders(l))' = IF l = k THEN Cardinality(Holders(l)) + 1
                                        ELSE Cardinality(Holders(l))
        BY <3>2, HolderCounts
      <3>. QED BY <1>1, <3>1, <3>3 DEF CacheTypeOK
    <2>. QED BY <2>1 DEF CountsAreReferences
  <1>3. elements[k] \in alive
    <2>1. PICK g \in Handles : refs[g] = k
      <3>1. Holders(k) # {}
        BY <1>1, FS_EmptySet DEF CountsAreReferences
      <3>. QED BY <3>1 DEF Holders
    <2>. QED BY <2>1, CacheAssumption DEF ReferencesAreAlive
  <1>4. ReferencesAreAlive'
    BY <1>1, <1>3 DEF ReferencesAreAlive, CacheTypeOK
  <1>5. EraserInv'
    <2>1. \A c \in Clients : ekey[c] # k
      BY <1>1, CacheAssumption DEF EraserInv
    <2>. QED BY <1>1, <2>1 DEF EraserInv, CacheTypeOK
  <1>6. ElementInv'
    BY <1>1 DEF ElementInv
  <1>. QED BY <1>2, <1>4, <1>5, <1>6 DEF SoundInv

(* The first reference to a file. *)
LEMMA EmplaceNewSound ==
  ASSUME CacheTypeOK, CacheTypeOK', SoundInv, undefined = "nothing", IInv',
         NEW t \in Workers \cup Clients, NEW h \in Handles, NEW k \in Keys, NEW o \in Objects,
         EmplaceNew(t, h, k, o)
  PROVE  SoundInv'
  <1>. IInv /\ TypeOK /\ EraserInv /\ ElementInv /\ ReferencesAreAlive /\ CountsAreReferences
    BY DEF SoundInv, IInv
  <1>1. /\ counts[k] = 0 /\ elements[k] = NoObject /\ refs[h] = NoKey
        /\ elements' = [elements EXCEPT ![k] = o] /\ counts' = [counts EXCEPT ![k] = 1]
        /\ refs' = [refs EXCEPT ![h] = k] /\ target' = [target EXCEPT ![h] = o]
        /\ UNCHANGED <<epc, ekey, undefined>> /\ QueueForLoad(t, o)
    BY DEF EmplaceNew, Hold
  <1>2. /\ o \notin alive /\ alive' = alive \cup {o} /\ cobj' = cobj
        /\ \A c \in Clients : \/ cpc'[c] = cpc[c]
                              \/ cpc[c] \in Ensuring /\ cpc'[c] \in Ensuring
        /\ \A x \in Objects : x # o => finished'[x] = finished[x]
    BY <1>1, QueueFrame
  <1>3. /\ elements'[k] = o /\ counts'[k] = 1 /\ o # NoObject
        /\ \A l \in Keys : l # k => elements'[l] = elements[l] /\ counts'[l] = counts[l]
    BY <1>1, ThreadAssumption DEF CacheTypeOK
  <1>4. CountsAreReferences'
    <2>1. ASSUME NEW l \in Keys PROVE counts'[l] = Cardinality(Holders(l))'
      <3>1. counts[l] = Cardinality(Holders(l))
        BY DEF CountsAreReferences
      <3>2. /\ refs'[h] = k /\ refs[h] # l
            /\ \A g \in Handles : g # h => refs'[g] = refs[g]
        BY <1>1, CacheAssumption DEF CacheTypeOK
      <3>3. Cardinality(Holders(l))' = IF l = k THEN Cardinality(Holders(l)) + 1
                                        ELSE Cardinality(Holders(l))
        BY <3>2, HolderCounts
      <3>. QED BY <1>1, <1>3, <3>1, <3>3
    <2>. QED BY <2>1 DEF CountsAreReferences
  <1>5. ReferencesAreAlive'
    <2>1. SUFFICES ASSUME NEW g \in Handles, refs'[g] # NoKey
                   PROVE  target'[g] = elements'[refs'[g]] /\ target'[g] \in alive'
      BY DEF ReferencesAreAlive
    <2>2. CASE g = h
      BY <1>1, <1>2, <1>3, <2>2 DEF CacheTypeOK
    <2>3. CASE g # h
      <3>1. refs'[g] = refs[g] /\ target'[g] = target[g]
        BY <1>1, <2>3 DEF CacheTypeOK
      <3>2. target[g] = elements[refs[g]] /\ target[g] \in alive /\ refs[g] \in Keys
        BY <2>1, <3>1 DEF ReferencesAreAlive, CacheTypeOK
      <3>3. refs[g] # k
        BY <1>1, <3>2, ThreadAssumption DEF TypeOK
      <3>. QED BY <1>2, <1>3, <3>1, <3>2, <3>3
    <2>. QED BY <2>2, <2>3
  <1>6. ElementInv'
    <2>1. \A l \in Keys : elements[l] # o
      BY <1>2, <1>3 DEF ElementInv
    <2>2. \A l \in Keys : elements'[l] # NoObject => elements'[l] \in alive'
      BY <1>2, <1>3 DEF ElementInv
    <2>3. ASSUME NEW x \in alive' PROVE \E l \in Keys : elements'[l] = x
      <3>1. CASE x = o
        BY <1>3, <3>1
      <3>2. CASE x # o
        <4>1. PICK l \in Keys : elements[l] = x
          BY <1>2, <3>2 DEF ElementInv
        <4>2. l # k
          BY <1>1, <1>2, <3>2, <4>1, ThreadAssumption DEF TypeOK
        <4>. QED BY <1>3, <4>1, <4>2
      <3>. QED BY <3>1, <3>2
    <2>4. \A l, m \in Keys : elements'[l] = elements'[m] /\ elements'[l] # NoObject => l = m
      BY <1>3, <2>1 DEF ElementInv
    <2>. QED BY <2>2, <2>3, <2>4 DEF ElementInv
  <1>7. EraserInv'
    <2>1. \A c \in Clients : ekey[c] # k
      BY <1>1, CacheAssumption DEF EraserInv
    <2>2. ASSUME NEW c \in Clients, epc[c] # "none"
          PROVE  /\ ekey[c] \in Keys /\ ekey[c] # k
                 /\ elements'[ekey[c]] = elements[ekey[c]] /\ counts'[ekey[c]] = counts[ekey[c]]
                 /\ finished'[elements[ekey[c]]] = finished[elements[ekey[c]]]
      <3>1. ekey[c] \in Keys /\ ekey[c] # k /\ elements[ekey[c]] # NoObject
        BY <2>1, <2>2 DEF EraserInv, CacheTypeOK
      <3>2. elements[ekey[c]] \in alive
        BY <3>1 DEF ElementInv
      <3>3. elements[ekey[c]] \in Objects /\ elements[ekey[c]] # o
        BY <1>2, <3>2 DEF TypeOK
      <3>. QED BY <1>2, <1>3, <3>1, <3>3
    <2>3. \A l \in Keys : counts'[l] = 0 /\ elements'[l] # NoObject => \E c \in Clients : ekey'[c] = l
      BY <1>1, <1>3 DEF EraserInv
    <2>4. \A c \in Clients : /\ epc'[c] = "none" <=> ekey'[c] = NoKey
                             /\ epc'[c] = "none" => cpc'[c] = "idle"
      BY <1>1, <1>2 DEF EraserInv, Ensuring
    <2>5. ASSUME NEW c \in Clients, epc'[c] # "none"
          PROVE  /\ counts'[ekey'[c]] = 0 /\ elements'[ekey'[c]] # NoObject
                 /\ \A d \in Clients : ekey'[d] = ekey'[c] => d = c
                 /\ epc'[c] = "ensuring" => cpc'[c] \in Ensuring /\ cobj'[c] = elements'[ekey'[c]]
                 /\ epc'[c] \in {"checking", "removing"} => cpc'[c] = "idle"
                 /\ epc'[c] = "removing" => finished'[elements'[ekey'[c]]]
      BY <1>1, <1>2, <2>2, <2>5 DEF EraserInv, Ensuring
    <2>. QED BY <2>3, <2>4, <2>5 DEF EraserInv
  <1>. QED BY <1>1, <1>4, <1>5, <1>6, <1>7 DEF SoundInv

(* A reference that is moved holds the same key and the same element. *)
LEMMA MoveSound ==
  ASSUME CacheTypeOK, CacheTypeOK', SoundInv, undefined = "nothing", IInv', NEW t,
         NEW h \in Handles, NEW g \in Handles, Move(t, h, g)
  PROVE  SoundInv'
  <1>. IInv /\ TypeOK /\ EraserInv /\ ElementInv /\ ReferencesAreAlive /\ CountsAreReferences
    BY DEF SoundInv, IInv
  <1>1. /\ refs[h] # NoKey /\ refs[g] = NoKey /\ h # g
        /\ refs' = [refs EXCEPT ![h] = NoKey, ![g] = refs[h]]
        /\ target' = [target EXCEPT ![h] = NoObject, ![g] = target[h]]
        /\ UNCHANGED <<elements, counts, epc, ekey, undefined, alive, cpc, cobj, finished>>
    BY DEF Move, vars, threadVars, objectVars
  <1>2. /\ refs'[h] = NoKey /\ refs'[g] = refs[h] /\ target'[g] = target[h]
        /\ \A f \in Handles : f # g /\ f # h => refs'[f] = refs[f] /\ target'[f] = target[f]
    BY <1>1 DEF CacheTypeOK
  <1>3. CountsAreReferences'
    <2>1. ASSUME NEW l \in Keys PROVE Cardinality(Holders(l))' = Cardinality(Holders(l))
      <3>1. CASE refs[h] # l
        BY <1>1, <1>2, <3>1, CacheAssumption DEF Holders
      <3>2. CASE refs[h] = l
        <4>1. Holders(l)' = (Holders(l) \ {h}) \cup {g}
          BY <1>1, <1>2, <3>2, CacheAssumption DEF Holders
        <4>2. h \in Holders(l) /\ g \notin Holders(l)
          BY <1>1, <3>2 DEF Holders
        <4>3. IsFiniteSet(Holders(l))
          <5>1. Holders(l) \in SUBSET Handles
            BY DEF Holders
          <5>. QED BY <5>1, FS_Subset, CacheAssumption
        <4>4. /\ IsFiniteSet(Holders(l) \ {h})
              /\ Cardinality(Holders(l) \ {h}) = Cardinality(Holders(l)) - 1
          BY <4>2, <4>3, FS_RemoveElement
        <4>5. Cardinality((Holders(l) \ {h}) \cup {g}) = Cardinality(Holders(l) \ {h}) + 1
          BY <4>2, <4>4, FS_AddElement
        <4>6. Cardinality(Holders(l)) \in Nat
          BY <4>3, FS_CardinalityType
        <4>. QED BY <4>1, <4>4, <4>5, <4>6
      <3>. QED BY <3>1, <3>2
    <2>. QED BY <1>1, <2>1 DEF CountsAreReferences
  <1>4. ReferencesAreAlive'
    <2>1. SUFFICES ASSUME NEW f \in Handles, refs'[f] # NoKey
                   PROVE  target'[f] = elements[refs'[f]] /\ target'[f] \in alive
      BY <1>1 DEF ReferencesAreAlive
    <2>2. CASE f = g
      BY <1>1, <1>2, <2>2 DEF ReferencesAreAlive
    <2>3. CASE f # g
      BY <1>2, <2>1, <2>3 DEF ReferencesAreAlive
    <2>. QED BY <2>2, <2>3
  <1>5. EraserInv' /\ ElementInv'
    BY <1>1 DEF EraserInv, ElementInv
  <1>. QED BY <1>3, <1>4, <1>5 DEF SoundInv

(* A reference that ends, and the last one that does. *)
LEMMA ReleaseSound ==
  ASSUME CacheTypeOK, CacheTypeOK', SoundInv, undefined = "nothing", IInv',
         NEW c \in Clients, NEW h \in Handles, Release(c, h)
  PROVE  SoundInv'
  <1>. IInv /\ TypeOK /\ EraserInv /\ ElementInv /\ ReferencesAreAlive /\ CountsAreReferences
    BY DEF SoundInv, IInv
  <1>. DEFINE k == refs[h]
  <1>1. /\ k # NoKey /\ epc[c] = "none" /\ cpc[c] = "idle"
        /\ counts' = [counts EXCEPT ![k] = counts[k] - 1]
        /\ refs' = [refs EXCEPT ![h] = NoKey] /\ target' = [target EXCEPT ![h] = NoObject]
        /\ IF counts[k] = 1
           THEN epc' = [epc EXCEPT ![c] = "checking"] /\ ekey' = [ekey EXCEPT ![c] = k]
           ELSE UNCHANGED <<epc, ekey>>
        /\ UNCHANGED <<elements, undefined, alive, cpc, cobj, finished>>
    BY DEF Release, Drop, vars, threadVars, objectVars
  <1>2. /\ k \in Keys /\ counts[k] \in Nat /\ counts[k] > 0 /\ elements[k] \in Objects
    BY <1>1, HeldFacts
  <1>. HIDE DEF k
  <1>3. /\ counts'[k] = counts[k] - 1 /\ refs'[h] = NoKey
        /\ \A l \in Keys : l # k => counts'[l] = counts[l]
        /\ \A g \in Handles : g # h => refs'[g] = refs[g] /\ target'[g] = target[g]
    BY <1>1, <1>2 DEF CacheTypeOK
  <1>4. CountsAreReferences'
    <2>1. ASSUME NEW l \in Keys PROVE counts'[l] = Cardinality(Holders(l))'
      <3>1. counts[l] = Cardinality(Holders(l)) /\ refs'[h] # l
        BY <1>3, CacheAssumption DEF CountsAreReferences
      <3>2. Cardinality(Holders(l))' = IF l = k THEN Cardinality(Holders(l)) - 1
                                        ELSE Cardinality(Holders(l))
        BY <1>3, <3>1, HolderCounts DEF k
      <3>. QED BY <1>3, <3>1, <3>2
    <2>. QED BY <2>1 DEF CountsAreReferences
  <1>5. ReferencesAreAlive'
    BY <1>1, <1>3 DEF ReferencesAreAlive
  <1>6. ElementInv'
    BY <1>1 DEF ElementInv
  <1>7. \A d \in Clients : ekey[d] # k
    BY <1>2, CacheAssumption DEF EraserInv
  <1>8. EraserInv'
    <2>1. CASE counts[k] # 1
      <3>1. UNCHANGED <<epc, ekey>> /\ counts'[k] # 0
        BY <1>1, <1>2, <1>3, <2>1
      <3>2. \A d \in Clients : epc[d] # "none" => counts'[ekey[d]] = 0
        BY <1>3, <1>7 DEF EraserInv, CacheTypeOK
      <3>3. \A l \in Keys : counts'[l] = 0 => counts[l] = 0
        BY <1>3, <3>1
      <3>. QED BY <1>1, <3>1, <3>2, <3>3 DEF EraserInv
    <2>2. CASE counts[k] = 1
      <3>1. /\ epc'[c] = "checking" /\ ekey'[c] = k /\ counts'[k] = 0 /\ elements'[k] # NoObject
            /\ \A d \in Clients : d # c => epc'[d] = epc[d] /\ ekey'[d] = ekey[d]
        BY <1>1, <1>2, <1>3, <2>2, ThreadAssumption DEF CacheTypeOK
      <3>2. \A d \in Clients : d # c /\ epc[d] # "none" =>
              counts'[ekey[d]] = 0 /\ elements'[ekey[d]] = elements[ekey[d]]
        BY <1>1, <1>3, <1>7 DEF EraserInv, CacheTypeOK
      <3>3. \A l \in Keys : counts'[l] = 0 /\ elements'[l] # NoObject => \E d \in Clients : ekey'[d] = l
        <4>1. SUFFICES ASSUME NEW l \in Keys, l # k, counts[l] = 0, elements[l] # NoObject
                       PROVE  \E d \in Clients : ekey'[d] = l
          BY <1>1, <1>3, <3>1
        <4>2. PICK d \in Clients : ekey[d] = l
          BY <4>1 DEF EraserInv
        <4>3. d # c
          BY <1>1, <4>1, <4>2, CacheAssumption DEF EraserInv
        <4>. QED BY <3>1, <4>2, <4>3
      <3>4. \A d \in Clients : /\ epc'[d] = "none" <=> ekey'[d] = NoKey
                               /\ epc'[d] = "none" => cpc'[d] = "idle"
                               /\ \A e \in Clients : epc'[d] # "none" /\ ekey'[e] = ekey'[d] => e = d
        BY <1>1, <1>2, <1>7, <3>1, CacheAssumption DEF EraserInv
      <3>5. \A d \in Clients : epc'[d] # "none" =>
              /\ counts'[ekey'[d]] = 0 /\ elements'[ekey'[d]] # NoObject
              /\ epc'[d] = "ensuring" => cpc'[d] \in Ensuring /\ cobj'[d] = elements'[ekey'[d]]
              /\ epc'[d] \in {"checking", "removing"} => cpc'[d] = "idle"
              /\ epc'[d] = "removing" => finished'[elements'[ekey'[d]]]
        BY <1>1, <3>1, <3>2 DEF EraserInv
      <3>. QED BY <3>3, <3>4, <3>5 DEF EraserInv
    <2>. QED BY <2>1, <2>2
  <1>. QED BY <1>1, <1>4, <1>5, <1>6, <1>8 DEF SoundInv

(* finishedLoading() is asked, and ensure_deletable entered when it is false. *)
LEMMA CheckSound ==
  ASSUME CacheTypeOK, CacheTypeOK', SoundInv, undefined = "nothing", IInv',
         NEW c \in Clients, Check(c)
  PROVE  SoundInv'
  <1>. IInv /\ TypeOK /\ EraserInv /\ ElementInv /\ ReferencesAreAlive /\ CountsAreReferences
    BY DEF SoundInv, IInv
  <1>. DEFINE o == elements[ekey[c]]
  <1>1. /\ epc[c] = "checking" /\ UNCHANGED <<elements, counts, refs, target, ekey, undefined>>
        /\ \/ /\ finished[o] /\ epc' = [epc EXCEPT ![c] = "removing"] /\ UNCHANGED <<cpc, cobj>>
           \/ /\ epc' = [epc EXCEPT ![c] = "ensuring"]
              /\ cpc' = [cpc EXCEPT ![c] = "ensuring"] /\ cobj' = [cobj EXCEPT ![c] = o]
        /\ UNCHANGED <<alive, finished>>
    BY DEF Check, EnsureDeletable, vars, threadVars, objectVars
  <1>. HIDE DEF o
  <1>2. \A d \in Clients : d # c => epc'[d] = epc[d] /\ cpc'[d] = cpc[d] /\ cobj'[d] = cobj[d]
    BY <1>1 DEF CacheTypeOK, TypeOK
  <1>3. \/ finished[o] /\ epc'[c] = "removing" /\ cpc'[c] = "idle"
        \/ epc'[c] = "ensuring" /\ cpc'[c] = "ensuring" /\ cobj'[c] = o
    BY <1>1 DEF CacheTypeOK, TypeOK, EraserInv
  <1>4. EraserInv'
    <2>1. /\ epc'[c] # "none" /\ ekey[c] # NoKey
          /\ epc'[c] = "ensuring" => cpc'[c] \in Ensuring /\ cobj'[c] = elements[ekey[c]]
          /\ epc'[c] \in {"checking", "removing"} => cpc'[c] = "idle"
          /\ epc'[c] = "removing" => finished[elements[ekey[c]]]
      BY <1>1, <1>3 DEF EraserInv, Ensuring, o
    <2>2. counts[ekey[c]] = 0 /\ elements[ekey[c]] # NoObject
          /\ \A d \in Clients : ekey[d] = ekey[c] => d = c
      BY <1>1 DEF EraserInv
    <2>3. \A d \in Clients : /\ epc'[d] = "none" <=> ekey'[d] = NoKey
                             /\ epc'[d] = "none" => cpc'[d] = "idle"
      BY <1>1, <1>2, <2>1 DEF EraserInv
    <2>4. ASSUME NEW d \in Clients, epc'[d] # "none"
          PROVE  /\ counts'[ekey'[d]] = 0 /\ elements'[ekey'[d]] # NoObject
                 /\ \A e \in Clients : ekey'[e] = ekey'[d] => e = d
                 /\ epc'[d] = "ensuring" => cpc'[d] \in Ensuring /\ cobj'[d] = elements'[ekey'[d]]
                 /\ epc'[d] \in {"checking", "removing"} => cpc'[d] = "idle"
                 /\ epc'[d] = "removing" => finished'[elements'[ekey'[d]]]
      <3>1. CASE d = c
        BY <1>1, <2>1, <2>2, <3>1
      <3>2. CASE d # c
        BY <1>1, <1>2, <2>4, <3>2 DEF EraserInv
      <3>. QED BY <3>1, <3>2
    <2>5. \A l \in Keys : counts'[l] = 0 /\ elements'[l] # NoObject => \E d \in Clients : ekey'[d] = l
      BY <1>1 DEF EraserInv
    <2>. QED BY <2>3, <2>4, <2>5 DEF EraserInv
  <1>5. ElementInv' /\ ReferencesAreAlive' /\ CountsAreReferences'
    BY <1>1 DEF ElementInv, ReferencesAreAlive, CountsAreReferences, Holders
  <1>. QED BY <1>1, <1>4, <1>5 DEF SoundInv

(* The end of an erase: the element goes, and nothing else refers to it. *)
LEMMA EraseEnds ==
  ASSUME CacheTypeOK, CacheTypeOK', SoundInv, undefined = "nothing",
         NEW c \in Clients, epc[c] # "none", EndErase(c),
         alive' = alive \ {elements[ekey[c]]}, finished' = finished, cpc'[c] = "idle",
         \A d \in Clients : d # c => cpc'[d] = cpc[d] /\ cobj'[d] = cobj[d]
  PROVE  EraserInv' /\ ElementInv' /\ ReferencesAreAlive' /\ CountsAreReferences'
  <1>. IInv /\ TypeOK /\ EraserInv /\ ElementInv /\ ReferencesAreAlive /\ CountsAreReferences
    BY DEF SoundInv, IInv
  <1>. DEFINE k == ekey[c]
              o == elements[k]
  <1>1. /\ k \in Keys /\ counts[k] = 0 /\ o # NoObject
        /\ \A d \in Clients : d # c => ekey[d] # k
    BY DEF EraserInv, CacheTypeOK
  <1>2. /\ elements'[k] = NoObject /\ counts'[k] = 0 /\ epc'[c] = "none" /\ ekey'[c] = NoKey
        /\ \A l \in Keys : l # k => elements'[l] = elements[l] /\ counts'[l] = counts[l]
        /\ \A d \in Clients : d # c => epc'[d] = epc[d] /\ ekey'[d] = ekey[d]
        /\ refs' = refs /\ target' = target
    BY <1>1 DEF EndErase, CacheTypeOK
  <1>3. \A l \in Keys : l # k => elements[l] # o
    BY <1>1 DEF ElementInv
  <1>. HIDE DEF k, o
  <1>4. alive' = alive \ {o}
    BY DEF k, o
  <1>5. CountsAreReferences'
    BY <1>1, <1>2 DEF CountsAreReferences, Holders
  <1>6. ReferencesAreAlive'
    <2>1. ASSUME NEW h \in Handles, refs[h] # NoKey PROVE refs[h] \in Keys /\ refs[h] # k
      BY <1>1, <2>1, HeldFacts
    <2>. QED BY <1>2, <1>3, <1>4, <2>1 DEF ReferencesAreAlive
  <1>7. ElementInv'
    <2>1. \A l \in Keys : elements'[l] # NoObject => elements'[l] \in alive'
      BY <1>2, <1>3, <1>4 DEF ElementInv
    <2>2. ASSUME NEW x \in alive' PROVE \E l \in Keys : elements'[l] = x
      <3>1. PICK l \in Keys : elements[l] = x
        BY <1>4 DEF ElementInv
      <3>. QED BY <1>2, <1>4, <3>1 DEF o
    <2>3. \A l, m \in Keys : elements'[l] = elements'[m] /\ elements'[l] # NoObject => l = m
      BY <1>2 DEF ElementInv
    <2>. QED BY <2>1, <2>2, <2>3 DEF ElementInv
  <1>8. EraserInv'
    <2>1. \A d \in Clients : d # c /\ epc[d] # "none" =>
            /\ ekey[d] \in Keys /\ counts'[ekey[d]] = counts[ekey[d]]
            /\ elements'[ekey[d]] = elements[ekey[d]]
      BY <1>1, <1>2 DEF EraserInv, CacheTypeOK
    <2>2. \A d \in Clients : /\ epc'[d] = "none" <=> ekey'[d] = NoKey
                             /\ epc'[d] = "none" => cpc'[d] = "idle"
      BY <1>2 DEF EraserInv
    <2>3. ASSUME NEW d \in Clients, epc'[d] # "none"
          PROVE  /\ counts'[ekey'[d]] = 0 /\ elements'[ekey'[d]] # NoObject
                 /\ \A e \in Clients : ekey'[e] = ekey'[d] => e = d
                 /\ epc'[d] = "ensuring" => cpc'[d] \in Ensuring /\ cobj'[d] = elements'[ekey'[d]]
                 /\ epc'[d] \in {"checking", "removing"} => cpc'[d] = "idle"
                 /\ epc'[d] = "removing" => finished'[elements'[ekey'[d]]]
      <3>1. d # c /\ epc[d] # "none" /\ ekey[d] # NoKey
        BY <1>2, <2>3 DEF EraserInv
      <3>2. \A e \in Clients : ekey'[e] = ekey'[d] => e = d
        BY <1>2, <3>1 DEF EraserInv
      <3>. QED BY <1>2, <2>1, <3>1, <3>2 DEF EraserInv
    <2>4. ASSUME NEW l \in Keys, counts'[l] = 0, elements'[l] # NoObject
          PROVE  \E d \in Clients : ekey'[d] = l
      <3>1. l # k /\ counts[l] = 0 /\ elements[l] # NoObject
        BY <1>2, <2>4
      <3>2. PICK d \in Clients : ekey[d] = l
        BY <3>1 DEF EraserInv
      <3>. QED BY <1>2, <3>1, <3>2 DEF k
    <2>. QED BY <2>2, <2>3, <2>4 DEF EraserInv
  <1>. QED BY <1>5, <1>6, <1>7, <1>8

(* One lemma for all the steps. *)
LEMMA SoundStep ==
  ASSUME CacheTypeOK, CacheTypeOK', SoundInv, [CacheNext]_allVars
  PROVE  SoundInv'
  <1>1. CASE UNCHANGED allVars
    <2>1. UNCHANGED vars /\ UNCHANGED cacheVars
      BY <1>1 DEF allVars
    <2>2. CASE undefined = "nothing"
      <3>1. IInv'
        BY <2>1, <2>2, LoaderStep DEF SoundInv
      <3>. QED BY <2>1, <2>2, <3>1, SoundFrame DEF vars, threadVars, objectVars
    <2>3. CASE undefined # "nothing"
      BY <2>1, <2>3 DEF SoundInv, ReferencesAreAlive, CountsAreReferences, Holders, cacheVars,
                        vars, objectVars
    <2>. QED BY <2>2, <2>3
  <1>2. CASE CacheNext /\ \E c \in Clients : RemoveFinished(c)
    <2>1. PICK c \in Clients : RemoveFinished(c)
      BY <1>2
    <2>2. undefined = "nothing"
      BY <1>2 DEF CacheNext, WorkerStep, EraseStep, Refer, HandleStep
    <2>3. IInv /\ TypeOK /\ EraserInv /\ ElementInv
      BY <2>2 DEF SoundInv, IInv
    <2>4. /\ epc[c] = "removing" /\ EndErase(c) /\ alive' = alive \ {elements[ekey[c]]}
          /\ finished' = finished /\ cpc' = cpc /\ cobj' = cobj
          /\ undefined' = IF elements[ekey[c]] \in loading THEN "overtaken" ELSE undefined
      BY <2>1 DEF RemoveFinished, threadVars
    <2>5. cpc[c] = "idle"
      BY <2>3, <2>4 DEF EraserInv
    <2>6. EraserInv' /\ ElementInv' /\ ReferencesAreAlive' /\ CountsAreReferences'
      BY <2>2, <2>4, <2>5, EraseEnds
    <2>7. undefined' = "nothing" => IInv'
      BY <2>1, <2>3, <2>4, RemoveFinishedStep
    <2>. QED BY <2>6, <2>7 DEF SoundInv
  <1>3. CASE CacheNext /\ ~\E c \in Clients : RemoveFinished(c)
    <2>1. undefined = "nothing"
      BY <1>3 DEF CacheNext, WorkerStep, EraseStep, Refer, HandleStep
    <2>2. IInv /\ TypeOK
      BY <2>1 DEF SoundInv, IInv
    <2>3. IInv'
      BY <1>3, <2>2, CacheUsesLoader, LoaderStep
    <2>4. ASSUME NEW w \in Workers, WorkerStep(w) PROVE SoundInv'
      <3>1. Process(w) /\ UNCHANGED cacheVars
        BY <2>4 DEF WorkerStep
      <3>2. \A c \in Clients : cpc[c] \notin Waiting
        BY <2>1 DEF SoundInv, EraserInv, CacheTypeOK, EraseLocations, Waiting, Ensuring
      <3>. QED BY <2>1, <2>2, <2>3, <3>1, <3>2, WorkerFrame, SoundFrame
    <2>5. ASSUME NEW c \in Clients, Ensure(c) PROVE SoundInv'
      <3>1. /\ UNCHANGED cacheVars /\ UNCHANGED <<alive, cobj, finished>>
            /\ cpc[c] = "ensuring" /\ \E l \in Ensuring : cpc' = [cpc EXCEPT ![c] = l]
        BY <2>5 DEF Ensure, EnsureUnqueue, EnsureReturn, EnsureSleep, objectVars, Ensuring
      <3>2. \A d \in Clients : \/ cpc'[d] = cpc[d]
                               \/ cpc[d] \in Ensuring /\ cpc'[d] \in Ensuring
        BY <2>2, <3>1 DEF TypeOK, Ensuring
      <3>. QED BY <2>1, <2>3, <3>1, <3>2, SoundFrame
    <2>6. ASSUME NEW c \in Clients, Check(c) PROVE SoundInv'
      BY <2>1, <2>3, <2>6, CheckSound
    <2>7. ASSUME NEW c \in Clients, RemoveEnsured(c) PROVE SoundInv'
      <3>1. /\ epc[c] = "ensuring" /\ EndErase(c) /\ alive' = alive \ {cobj[c]}
            /\ finished' = finished /\ undefined' = undefined
            /\ cpc' = [cpc EXCEPT ![c] = "idle"] /\ cobj' = [cobj EXCEPT ![c] = NoObject]
        BY <2>7 DEF RemoveEnsured, Delete
      <3>2. cobj[c] = elements[ekey[c]]
        BY <2>1, <3>1 DEF SoundInv, EraserInv
      <3>3. cpc'[c] = "idle" /\ \A d \in Clients : d # c => cpc'[d] = cpc[d] /\ cobj'[d] = cobj[d]
        BY <2>2, <3>1 DEF TypeOK
      <3>. QED BY <2>1, <2>3, <3>1, <3>2, <3>3, EraseEnds DEF SoundInv
    <2>8. ASSUME NEW t \in Workers \cup Clients, NEW h \in Handles, NEW k \in Keys, Refer(t, h, k)
          PROVE  SoundInv'
      <3>1. CASE EmplaceAgain(t, h, k)
        BY <2>1, <2>3, <3>1, EmplaceAgainSound
      <3>2. CASE \E o \in Objects : EmplaceNew(t, h, k, o)
        BY <2>1, <2>3, <3>2, EmplaceNewSound
      <3>3. CASE EmplaceCrossing(t, h, k)
        BY <3>3 DEF EmplaceCrossing, SoundInv, ReferencesAreAlive, CountsAreReferences
      <3>. QED BY <2>8, <3>1, <3>2, <3>3 DEF Refer
    <2>9. ASSUME HandleStep PROVE SoundInv'
      BY <2>1, <2>3, <2>9, MoveSound, ReleaseSound DEF HandleStep
    <2>. QED BY <1>3, <2>4, <2>5, <2>6, <2>7, <2>8, <2>9 DEF CacheNext, EraseStep
  <1>. QED BY <1>1, <1>2, <1>3

LEMMA CacheInitSound == CacheInit => CacheIInv
  <1>. SUFFICES ASSUME CacheInit PROVE CacheIInv
    OBVIOUS
  <1>1. CacheTypeOK
    BY DEF CacheInit, CacheTypeOK, EraseLocations
  <1>2. IInv
    BY InitIInv DEF CacheInit
  <1>3. EraserInv /\ ElementInv
    BY CacheAssumption, ThreadAssumption DEF CacheInit, Init, EraserInv, ElementInv
  <1>4. ReferencesAreAlive
    BY DEF CacheInit, ReferencesAreAlive
  <1>5. CountsAreReferences
    <2>1. \A k \in Keys : Holders(k) = {}
      BY CacheAssumption DEF CacheInit, Holders
    <2>. QED BY <2>1, FS_EmptySet DEF CacheInit, CountsAreReferences
  <1>. QED BY <1>1, <1>2, <1>3, <1>4, <1>5 DEF CacheIInv

-----------------------------------------------------------------------------
(* The theorems *)

(* The inductive invariant of the cache, the loader's with it. *)
THEOREM CacheInvariance == CacheSpec => []CacheIInv
  <1>1. CacheIInv /\ [CacheNext]_allVars => CacheIInv'
    BY CacheTypeStep, SoundStep DEF CacheIInv, SoundInv
  <1>. QED BY <1>1, CacheInitSound, PTL DEF CacheSpec

(* No reference is left with a deleted element, unless an emplace crossed an
   erase. *)
THEOREM ReferencesHold == CacheSpec => []ReferencesAreAlive
  BY CacheInvariance, PTL DEF CacheIInv

(* The counts are the references, for any number of files and references. *)
THEOREM CountsHold == CacheSpec => []CountsAreReferences
  BY CacheInvariance, PTL DEF CacheIInv

(* A finished element that no worker holds is one the contract lets go. *)
LEMMA RemoveFinishedContract ==
  ASSUME IInv, EraserInv, ElementInv, CacheTypeOK, NEW c \in Clients, RemoveFinished(c),
         elements[ekey[c]] \notin loading
  PROVE  Contract!Next
  <1>. DEFINE o == elements[ekey[c]]
  <1>1. /\ epc[c] = "removing" /\ alive' = alive \ {o}
        /\ UNCHANGED <<toLoad, loading, finished>>
    BY DEF RemoveFinished, loaderVars
  <1>2. o \in Objects /\ o \in alive /\ finished[o] /\ o \notin loading
    BY <1>1 DEF EraserInv, ElementInv, CacheTypeOK, IInv, TypeOK
  <1>. HIDE DEF o
  <1>3. ~IsQueued(o)
    BY <1>2, PriorityAssumption DEF IInv, QueueInv, IsQueued, QueueOf
  <1>4. \A x \in Objects : IsQueued(x)' <=> IsQueued(x)
    BY <1>1 DEF IsQueued, QueueOf
  <1>5. \A x \in Objects : x # o => status'[x] = status[x]
    BY <1>1, <1>4, StatusKept
  <1>6. status[o] = "done" /\ status'[o] = "absent"
    BY <1>1, <1>2, <1>3 DEF status
  <1>7. Contract!Become(o, "done", "absent")
    BY <1>2, <1>5, <1>6, OneBecomes
  <1>. QED BY <1>2, <1>7 DEF Contract!Next, Contract!Destroy

(* The cache keeps to what the loader's contract allows its callers, but for
   the deletion that overtakes a worker. *)
THEOREM ContractUsed == CacheSpec => UsesContract
  <1>1. CacheIInv /\ [CacheNext]_allVars
          => [undefined' # "overtaken" => Contract!Next]_status
    <2>. SUFFICES ASSUME CacheIInv, [CacheNext]_allVars, undefined' # "overtaken"
                  PROVE  [Contract!Next]_status
      OBVIOUS
    <2>1. CASE UNCHANGED allVars
      <3>1. \A x \in Objects : status'[x] = status[x]
        BY <2>1 DEF allVars, vars, loaderVars, objectVars, status, IsQueued, QueueOf
      <3>. QED BY <3>1, AllKept
    <2>2. CASE CacheNext
      <3>1. undefined = "nothing"
        BY <2>2 DEF CacheNext, WorkerStep, EraseStep, Refer, HandleStep
      <3>2. IInv /\ EraserInv /\ ElementInv /\ CacheTypeOK
        BY <3>1 DEF CacheIInv
      <3>3. ASSUME NEW c \in Clients, RemoveFinished(c) PROVE Contract!Next
        <4>1. elements[ekey[c]] \notin loading
          BY <3>3 DEF RemoveFinished
        <4>. QED BY <3>2, <3>3, <4>1, RemoveFinishedContract
      <3>4. CASE \A c \in Clients : ~RemoveFinished(c)
        <4>1. [Next]_vars
          BY <3>2, <3>4, CacheUsesLoader
        <4>2. IInv'
          BY <3>2, <4>1, LoaderStep
        <4>. QED BY <3>2, <4>1, <4>2, ContractStep
      <3>. QED BY <3>3, <3>4
    <2>. QED BY <2>1, <2>2
  <1>. QED BY <1>1, CacheInvariance, PTL DEF CacheSpec, UsesContract

=============================================================================
