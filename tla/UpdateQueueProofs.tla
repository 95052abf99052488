--------------------------- MODULE UpdateQueueProofs ---------------------------
(***************************************************************************)
(* What UpdateQueue does for any tiles, objects and calls.                 *)
(***************************************************************************)
EXTENDS UpdateQueue, TLAPS

\* Queueing an update keeps the updates that are queued in their places, puts
\* the new one behind them, and wakes the update thread up if it is asleep.
LEMMA Queued ==
    ASSUME TypeOK, NobodyOversleeps, NEW x \in Objects, NEW type \in Types,
           QueueUpdate(x, type)
    PROVE  /\ queue' \in Seq(Updates) /\ queue' # <<>>
           /\ Len(queue') = Len(queue) + 1
           /\ \A i \in 1..Len(queue) : queue'[i] = queue[i]
           /\ queue'[Len(queue')] = <<x, type>>
           /\ queue # <<>> => Head(queue') = Head(queue)
           /\ asleep' \subseteq asleep /\ "updater" \notin asleep'
           /\ updater # "blocking"
<1>1. <<x, type>> \in Updates /\ queue \in Seq(Updates)
  BY DEF Updates, TypeOK
<1>2. queue' = Append(queue, <<x, type>>)
  BY DEF QueueUpdate
<1>3. /\ queue' \in Seq(Updates) /\ queue' # <<>>
      /\ Len(queue') = Len(queue) + 1
      /\ \A i \in 1..Len(queue) : queue'[i] = queue[i]
      /\ queue'[Len(queue')] = <<x, type>>
      /\ queue # <<>> => Head(queue') = Head(queue)
  BY <1>1, <1>2
<1>4. asleep' \subseteq asleep /\ "updater" \notin asleep'
  BY DEF QueueUpdate, NobodyOversleeps, TypeOK
<1> QED
  BY <1>3, <1>4 DEF QueueUpdate, MutexFree

\* What queueing an update leaves of the invariant, whoever does it.
LEMMA QueueKeeps ==
    ASSUME IInv, NEW x \in Objects, NEW type \in Types, QueueUpdate(x, type),
           x \in Plain => x \in stored,
           UNCHANGED <<updaterVars, tile, registered, stored>>
    PROVE  /\ AppliedInv'
           /\ \A i \in DOMAIN queue' :
                 queue'[i][1] \in Plain => queue'[i][1] \in stored
           /\ Len(queue') \in DOMAIN queue' /\ BehindIsBookkeeping(Len(queue))'
           /\ x \in Renumbered =>
                 \A i \in Nat : BehindIsBookkeeping(i) => BehindIsBookkeeping(i)'
<1>1. TypeOK /\ NobodyOversleeps /\ ThreadInv /\ AppliedInv /\ DeletedIsGone
  BY DEF IInv
<1>2. /\ queue' \in Seq(Updates) /\ queue' # <<>>
      /\ Len(queue') = Len(queue) + 1
      /\ \A i \in 1..Len(queue) : queue'[i] = queue[i]
      /\ queue'[Len(queue')] = <<x, type>>
      /\ queue # <<>> => Head(queue') = Head(queue)
  BY <1>1, Queued
<1>3. queue \in Seq(Updates) /\ Len(queue) \in Nat /\ DOMAIN queue = 1..Len(queue)
      /\ DOMAIN queue' = 1..Len(queue')
  BY <1>1, <1>2 DEF TypeOK
<1>4. AppliedInv'
  <2>1. updater = "applying" => Head(queue') = Head(queue)
    BY <1>1, <1>2 DEF ThreadInv
  <2> QED
    BY <1>1, <2>1 DEF AppliedInv, Gone, updaterVars
<1>5. \A i \in DOMAIN queue' : i = Len(queue') \/ i \in 1..Len(queue)
  BY <1>2, <1>3
<1>6. \A i \in DOMAIN queue' : queue'[i][1] \in Plain => queue'[i][1] \in stored
  BY <1>1, <1>2, <1>3, <1>5 DEF DeletedIsGone
<1>7. Len(queue') \in DOMAIN queue' /\ BehindIsBookkeeping(Len(queue))'
  BY <1>2, <1>3 DEF BehindIsBookkeeping
<1>8. ASSUME x \in Renumbered, NEW i \in Nat, BehindIsBookkeeping(i)
      PROVE  BehindIsBookkeeping(i)'
  <2> SUFFICES ASSUME NEW j \in DOMAIN queue', j > i
               PROVE  queue'[j][1] \in Renumbered
    BY DEF BehindIsBookkeeping
  <2>1. CASE j = Len(queue')
    BY <1>2, <1>8, <2>1
  <2>2. CASE j \in 1..Len(queue)
    BY <1>2, <1>3, <1>8, <2>2 DEF BehindIsBookkeeping
  <2> QED
    BY <1>5, <2>1, <2>2
<1> QED
  BY <1>4, <1>6, <1>7, <1>8

\* Initially nothing is queued and nothing loaded.
LEMMA Initially == Init => IInv
<1> SUFFICES ASSUME Init PROVE IInv
  OBVIOUS
<1>1. TypeOK
  <2>1. queue \in Seq(Updates)
    BY DEF Init
  <2>2. /\ tile \in [Tiles -> {"absent", "loading", "loaded"}]
        /\ todo \in [Tiles -> SUBSET Objects]
        /\ adding \in [Tiles -> Objects \cup {None}]
        /\ registered \in [Tiles -> SUBSET Objects]
    BY DEF Init
  <2>3. op \in Ops
    BY DEF Init, Ops
  <2> QED
    BY <2>1, <2>2, <2>3 DEF Init, TypeOK
<1>2. NobodyOversleeps /\ ThreadInv
  BY DEF Init, NobodyOversleeps, ThreadInv
<1>3. TileInv /\ AppliedInv /\ RemovalInv
  BY DEF Init, TileInv, AppliedInv, RemovalInv
<1>4. RemovedIsGone /\ DeletedIsGone
  BY DEF Init, RemovedIsGone, DeletedIsGone
<1> QED
  BY <1>1, <1>2, <1>3, <1>4 DEF IInv

\* Asking for a tile that is absent is all loadTile changes.
LEMMA Loads ==
    ASSUME TypeOK, TileInv, NEW t \in Tiles, LoadTile(t),
           UNCHANGED <<adding, registered>>
    PROVE  /\ tile' \in [Tiles -> {"absent", "loading", "loaded"}]
           /\ todo' \in [Tiles -> SUBSET Objects]
           /\ TileInv'
           /\ \A u \in Tiles : tile[u] = "loaded" => tile'[u] = "loaded"
<1> USE DEF TypeOK, LoadTile
<1>1. CASE tile[t] = "absent"
  <2>1. /\ tile' = [tile EXCEPT ![t] = "loading"]
        /\ todo' = [todo EXCEPT ![t] = Rows[t]]
    BY <1>1
  <2>2. todo' \in [Tiles -> SUBSET Objects]
        /\ tile' \in [Tiles -> {"absent", "loading", "loaded"}]
    BY <2>1, RowsAssumption
  <2>3. \A u \in Tiles : u # t => todo'[u] = todo[u] /\ tile'[u] = tile[u]
    BY <2>1
  <2>4. todo'[t] = Rows[t] /\ tile'[t] = "loading"
    BY <2>1
  <2> QED
    BY <1>1, <2>2, <2>3, <2>4 DEF TileInv
<1>2. CASE tile[t] # "absent"
  BY <1>2 DEF TileInv
<1> QED
  BY <1>1, <1>2

\* A tile that is loaded and does not list an object goes on like this while
\* tiles stay loaded and lists are left alone.
LEMMA GoneKeeps ==
    ASSUME \A u \in Tiles : tile[u] = "loaded" => tile'[u] = "loaded",
           registered' = registered, NEW x, NEW t \in Tiles, Gone(x, t)
    PROVE  Gone(x, t)'
BY DEF Gone

----------------------------------------------------------------------------
\* The update thread.

LEMMA UpdaterDecideKeeps ==
    ASSUME IInv, UpdaterDecide
    PROVE  IInv'
<1> USE DEF UpdaterDecide, queueVars, mainVars, tileVars
<1>0. /\ TypeOK /\ NobodyOversleeps /\ ThreadInv /\ TileInv /\ AppliedInv
      /\ RemovalInv /\ RemovedIsGone /\ DeletedIsGone
  BY DEF IInv
<1>1. queue # <<>> => Head(queue)[1] \in Objects /\ Touches[Head(queue)[1]] \in SUBSET Tiles
  BY <1>0, RowsAssumption DEF TypeOK, Updates
<1>2. left = {} /\ visiting = None
  BY <1>0 DEF ThreadInv, TypeOK
<1>3. TypeOK'
  BY <1>0, <1>1, <1>2 DEF TypeOK
<1>4. NobodyOversleeps' /\ ThreadInv'
  BY <1>0, <1>2 DEF NobodyOversleeps, ThreadInv
<1>5. TileInv' /\ RemovalInv' /\ RemovedIsGone' /\ DeletedIsGone'
  BY <1>0 DEF TileInv, RemovalInv, RemovedIsGone, DeletedIsGone,
              BehindIsBookkeeping, Gone
<1>6. AppliedInv'
  BY <1>0 DEF AppliedInv, Gone
<1> QED
  BY <1>3, <1>4, <1>5, <1>6 DEF IInv

LEMMA UpdaterBlockKeeps ==
    ASSUME IInv, UpdaterBlock
    PROVE  IInv'
<1> USE DEF UpdaterBlock, mainVars, tileVars
<1>0. /\ TypeOK /\ NobodyOversleeps /\ ThreadInv /\ TileInv /\ AppliedInv
      /\ RemovalInv /\ RemovedIsGone /\ DeletedIsGone
  BY DEF IInv
<1>1. TypeOK'
  BY <1>0 DEF TypeOK
<1>2. NobodyOversleeps' /\ ThreadInv'
  BY <1>0 DEF NobodyOversleeps, ThreadInv
<1>3. TileInv' /\ RemovalInv' /\ RemovedIsGone' /\ DeletedIsGone' /\ AppliedInv'
  BY <1>0 DEF TileInv, RemovalInv, RemovedIsGone, DeletedIsGone, AppliedInv,
              BehindIsBookkeeping, Gone
<1> QED
  BY <1>1, <1>2, <1>3 DEF IInv

LEMMA UpdaterVisitKeeps ==
    ASSUME IInv, NEW t \in left, UpdaterVisit(t)
    PROVE  IInv'
<1> USE DEF UpdaterVisit, queueVars, mainVars
<1>0. /\ TypeOK /\ NobodyOversleeps /\ ThreadInv /\ TileInv /\ AppliedInv
      /\ RemovalInv /\ RemovedIsGone /\ DeletedIsGone
  BY DEF IInv
<1>1. t \in Tiles
  BY <1>0 DEF TypeOK
<1>2. /\ tile' \in [Tiles -> {"absent", "loading", "loaded"}]
      /\ todo' \in [Tiles -> SUBSET Objects]
      /\ TileInv'
      /\ \A u \in Tiles : tile[u] = "loaded" => tile'[u] = "loaded"
  BY <1>0, <1>1, Loads
<1>3. TypeOK'
  BY <1>0, <1>1, <1>2 DEF TypeOK
<1>4. NobodyOversleeps' /\ ThreadInv' /\ DeletedIsGone'
  BY <1>0 DEF NobodyOversleeps, ThreadInv, DeletedIsGone
<1>5. \A x, u : u \in Tiles /\ Gone(x, u) => Gone(x, u)'
  BY <1>2, GoneKeeps
<1>6. AppliedInv'
  <2>1. updater = "applying" /\ queue \in Seq(Updates) /\ queue # <<>>
    BY <1>0 DEF ThreadInv, TypeOK
  <2>2. Touches[Head(queue)[1]] \subseteq Tiles
    BY <2>1, RowsAssumption DEF Updates
  <2> QED
    BY <1>0, <1>5, <2>1, <2>2 DEF AppliedInv
<1>7. object \in Objects => Touches[object] \subseteq Tiles
  BY RowsAssumption
<1>8. object \in Plain => object \in Objects
  BY DEF Plain
<1>9. RemovalInv' /\ RemovedIsGone'
  BY <1>0, <1>5, <1>7, <1>8 DEF RemovalInv, RemovedIsGone, BehindIsBookkeeping
<1> QED
  BY <1>2, <1>3, <1>4, <1>6, <1>9 DEF IInv

LEMMA UpdaterRegisterKeeps ==
    ASSUME IInv, UpdaterRegister
    PROVE  IInv'
<1> USE DEF UpdaterRegister, queueVars, mainVars
<1>0. /\ TypeOK /\ NobodyOversleeps /\ ThreadInv /\ TileInv /\ AppliedInv
      /\ RemovalInv /\ RemovedIsGone /\ DeletedIsGone
  BY DEF IInv
<1>1. /\ visiting \in Tiles /\ visiting \in left /\ updater = "applying"
      /\ queue \in Seq(Updates) /\ queue # <<>> /\ tile[visiting] = "loaded"
  BY <1>0 DEF TypeOK, ThreadInv
<1> DEFINE x == Head(queue)[1]
<1>2. x \in Objects /\ Head(queue)[2] \in Types /\ Touches[x] \subseteq Tiles
  BY <1>1, RowsAssumption DEF Updates
<1>3. /\ registered' \in [Tiles -> SUBSET Objects]
      /\ \A u \in Tiles : u # visiting => registered'[u] = registered[u]
      /\ Head(queue)[2] = "add" => registered'[visiting] = registered[visiting] \cup {x}
      /\ Head(queue)[2] = "remove" => registered'[visiting] = registered[visiting] \ {x}
  BY <1>0, <1>1, <1>2 DEF TypeOK
<1> HIDE DEF x
<1>3a. x' = x
  BY DEF x
<1>4. TypeOK'
  BY <1>0, <1>1, <1>3 DEF TypeOK
<1>5. NobodyOversleeps' /\ ThreadInv'
  BY <1>0, <1>1 DEF NobodyOversleeps, ThreadInv
<1>6. visiting \in Touches[x]
  BY <1>0, <1>1 DEF ThreadInv, x
<1>7. TileInv'
  BY <1>0, <1>1, <1>2, <1>3, <1>6 DEF TileInv, Types
<1>8. AppliedInv'
  <2>1. SUFFICES ASSUME Head(queue)[2] = "remove", NEW t \in Touches[x] \ left'
                 PROVE  Gone(x, t)'
    BY <1>1 DEF AppliedInv, x
  <2>2. CASE t = visiting
    BY <1>1, <1>3, <1>3a, <2>1, <2>2 DEF Gone
  <2>3. CASE t # visiting
    <3>1. t \in Touches[x] \ left
      BY <2>1, <2>3
    <3>2. Gone(x, t)
      BY <1>0, <1>1, <2>1, <3>1 DEF AppliedInv, x
    <3> QED
      BY <1>2, <1>3, <1>3a, <2>3, <3>1, <3>2 DEF Gone
  <2> QED
    BY <2>2, <2>3
<1>9. ASSUME object \in Plain, BehindIsBookkeeping(0), NEW t \in Tiles, Gone(object, t)
      PROVE  Gone(object, t)'
  <2>1. x \in Renumbered
    BY <1>1, <1>9 DEF BehindIsBookkeeping, x
  <2>2. x # object
    BY <1>9, <2>1 DEF Plain
  <2> QED
    BY <1>2, <1>3, <1>9, <2>2 DEF Gone, Types
<1>10. object \in Plain => Touches[object] \subseteq Tiles
  BY RowsAssumption DEF Plain
<1>11. RemovalInv'
  BY <1>0, <1>9, <1>10 DEF RemovalInv, BehindIsBookkeeping
<1>12. RemovedIsGone'
  BY <1>0, <1>9, <1>10 DEF RemovedIsGone, RemovalInv
<1>13. DeletedIsGone'
  <2>1. x \in Plain => x \in stored
    BY <1>0, <1>1 DEF DeletedIsGone, x
  <2>2. \A t \in Tiles : registered'[t] \cap Plain \subseteq stored
    BY <1>0, <1>2, <1>3, <2>1 DEF DeletedIsGone, Types
  <2> QED
    BY <1>0, <2>2 DEF DeletedIsGone
<1> QED
  BY <1>4, <1>5, <1>7, <1>8, <1>11, <1>12, <1>13 DEF IInv

LEMMA UpdaterPopKeeps ==
    ASSUME IInv, UpdaterPop
    PROVE  IInv'
<1> USE DEF UpdaterPop, mainVars, tileVars
<1>0. /\ TypeOK /\ NobodyOversleeps /\ ThreadInv /\ TileInv /\ AppliedInv
      /\ RemovalInv /\ RemovedIsGone /\ DeletedIsGone
  BY DEF IInv
<1>1. queue \in Seq(Updates) /\ queue # <<>>
  BY <1>0 DEF TypeOK, ThreadInv
<1>2. /\ queue' \in Seq(Updates) /\ Len(queue') = Len(queue) - 1
      /\ Len(queue) \in Nat /\ DOMAIN queue = 1..Len(queue)
      /\ DOMAIN queue' = 1..Len(queue')
      /\ \A i \in DOMAIN queue' : i + 1 \in DOMAIN queue /\ queue'[i] = queue[i + 1]
  BY <1>1
<1>3. TypeOK' /\ NobodyOversleeps' /\ ThreadInv'
  BY <1>0, <1>2 DEF TypeOK, NobodyOversleeps, ThreadInv
<1>4. TileInv' /\ AppliedInv' /\ RemovedIsGone'
  BY <1>0 DEF TileInv, AppliedInv, RemovedIsGone, Gone
<1>5. DeletedIsGone'
  BY <1>0, <1>2 DEF DeletedIsGone
<1>6. ASSUME NEW i \in DOMAIN queue, BehindIsBookkeeping(i)
      PROVE  BehindIsBookkeeping(i - 1)'
  BY <1>2, <1>6 DEF BehindIsBookkeeping
<1>7. BehindIsBookkeeping(0) => BehindIsBookkeeping(0)'
  BY <1>2 DEF BehindIsBookkeeping
<1>8. ASSUME op = "waiting", next \in {"moved", "erase"}, object \in Plain
      PROVE  \/ \E i \in DOMAIN queue' :
                   queue'[i] = <<object, "remove">> /\ BehindIsBookkeeping(i)'
             \/ /\ BehindIsBookkeeping(0)'
                /\ \A t \in Touches[object] : Gone(object, t)'
  <2>1. CASE \E i \in DOMAIN queue :
                queue[i] = <<object, "remove">> /\ BehindIsBookkeeping(i)
    <3>1. PICK i \in DOMAIN queue :
             queue[i] = <<object, "remove">> /\ BehindIsBookkeeping(i)
      BY <2>1
    <3>2. CASE i = 1
      <4>1. Head(queue) = <<object, "remove">>
        BY <1>1, <3>1, <3>2
      <4>2. \A t \in Touches[object] : Gone(object, t)
        BY <1>0, <4>1 DEF AppliedInv
      <4>3. BehindIsBookkeeping(0)'
        BY <1>6, <3>1, <3>2
      <4> QED
        BY <4>2, <4>3 DEF Gone
    <3>3. CASE i # 1
      <4>1. i - 1 \in DOMAIN queue' /\ queue'[i - 1] = queue[i]
        BY <1>2, <3>1, <3>3
      <4> QED
        BY <1>6, <3>1, <4>1
    <3> QED
      BY <3>2, <3>3
  <2>2. CASE BehindIsBookkeeping(0) /\ \A t \in Touches[object] : Gone(object, t)
    BY <1>7, <2>2 DEF Gone
  <2> QED
    BY <1>0, <1>8, <2>1, <2>2 DEF RemovalInv
<1>9. RemovalInv'
  BY <1>0, <1>7, <1>8 DEF RemovalInv
<1> QED
  BY <1>3, <1>4, <1>5, <1>9 DEF IInv

----------------------------------------------------------------------------
\* The workers.

LEMMA WorkerStoreKeeps ==
    ASSUME IInv, NEW t \in Tiles, NEW o \in Objects, WorkerStore(t, o)
    PROVE  IInv'
<1> USE DEF WorkerStore, queueVars, updaterVars, mainVars
<1>0. /\ TypeOK /\ NobodyOversleeps /\ ThreadInv /\ TileInv /\ AppliedInv
      /\ RemovalInv /\ RemovedIsGone /\ DeletedIsGone
  BY DEF IInv
<1>1. /\ todo' \in [Tiles -> SUBSET Objects]
      /\ adding' \in [Tiles -> Objects \cup {None}]
      /\ registered' \in [Tiles -> SUBSET Objects]
      /\ stored' \in SUBSET Objects
  BY <1>0 DEF TypeOK
<1>2. /\ \A u \in Tiles : u # t => registered'[u] = registered[u]
      /\ registered'[t] = registered[t] \cup {o}
      /\ \A u \in Tiles : todo'[u] \subseteq todo[u]
      /\ \A u \in Tiles : adding'[u] = adding[u] \/ adding'[u] \in Renumbered
  BY <1>0 DEF TypeOK
<1>3. tile[t] = "loading" /\ t \in Touches[o]
  BY <1>0, RowsAssumption DEF TileInv
<1>4. TypeOK'
  BY <1>0, <1>1 DEF TypeOK
<1>5. NobodyOversleeps' /\ ThreadInv'
  BY <1>0 DEF NobodyOversleeps, ThreadInv
<1>6. TileInv'
  BY <1>0, <1>2, <1>3 DEF TileInv
<1>7. ASSUME NEW x, NEW u \in Tiles, Gone(x, u) PROVE Gone(x, u)'
  BY <1>2, <1>3, <1>7 DEF Gone
<1>8. AppliedInv'
  <2>1. updater = "applying" => Head(queue) \in Updates
    BY <1>0 DEF ThreadInv, TypeOK
  <2>2. updater = "applying" => Touches[Head(queue)[1]] \subseteq Tiles
    BY <2>1, RowsAssumption DEF Updates
  <2> QED
    BY <1>0, <1>7, <2>2 DEF AppliedInv
<1>9. object \in Plain => Touches[object] \subseteq Tiles
  BY RowsAssumption DEF Plain
<1>10. RemovalInv' /\ RemovedIsGone'
  BY <1>0, <1>7, <1>9 DEF RemovalInv, RemovedIsGone, BehindIsBookkeeping
<1>11. DeletedIsGone'
  BY <1>0, <1>2 DEF DeletedIsGone
<1> QED
  BY <1>4, <1>5, <1>6, <1>8, <1>10, <1>11 DEF IInv

LEMMA WorkerQueueKeeps ==
    ASSUME IInv, NEW t \in Tiles, WorkerQueue(t)
    PROVE  IInv'
<1> USE DEF WorkerQueue, updaterVars, mainVars
<1>0. /\ TypeOK /\ NobodyOversleeps /\ ThreadInv /\ TileInv /\ AppliedInv
      /\ RemovalInv /\ RemovedIsGone /\ DeletedIsGone
  BY DEF IInv
<1> DEFINE x == adding[t]
<1>1. x \in Objects /\ x \in Renumbered /\ QueueUpdate(x, "add") /\ "add" \in Types
  BY <1>0, NoneAssumption DEF TypeOK, TileInv, Types
<1>2. x \notin Plain
  BY <1>1 DEF Plain
<1> HIDE DEF x
<1>3. /\ queue' \in Seq(Updates) /\ queue' # <<>>
      /\ Len(queue') = Len(queue) + 1
      /\ \A i \in 1..Len(queue) : queue'[i] = queue[i]
      /\ asleep' \subseteq asleep /\ "updater" \notin asleep'
      /\ updater # "blocking"
  BY <1>0, <1>1, Queued
<1>4. /\ AppliedInv'
      /\ \A i \in DOMAIN queue' :
            queue'[i][1] \in Plain => queue'[i][1] \in stored
      /\ \A i \in Nat : BehindIsBookkeeping(i) => BehindIsBookkeeping(i)'
  BY <1>1, <1>2, QueueKeeps
<1>5. adding' \in [Tiles -> Objects \cup {None}]
      /\ \A u \in Tiles : adding'[u] = adding[u] \/ adding'[u] = None
  BY <1>0 DEF TypeOK
<1>6. TypeOK'
  BY <1>0, <1>3, <1>5 DEF TypeOK
<1>7. NobodyOversleeps' /\ ThreadInv'
  BY <1>0, <1>3 DEF NobodyOversleeps, ThreadInv
<1>8. TileInv'
  BY <1>0, <1>5 DEF TileInv
<1>9. RemovedIsGone' /\ DeletedIsGone'
  BY <1>0, <1>4 DEF RemovedIsGone, DeletedIsGone, Gone
<1>10. \A i \in DOMAIN queue : i \in Nat /\ i \in DOMAIN queue' /\ queue'[i] = queue[i]
  <2>1. queue \in Seq(Updates)
    BY <1>0 DEF TypeOK
  <2>2. DOMAIN queue = 1..Len(queue) /\ Len(queue) \in Nat /\ DOMAIN queue' = 1..Len(queue')
    BY <1>3, <2>1
  <2> QED
    BY <1>3, <2>2
<1>11. RemovalInv'
  <2>1. BehindIsBookkeeping(0) => BehindIsBookkeeping(0)'
    BY <1>4
  <2>2. ASSUME NEW i \in DOMAIN queue, queue[i] = <<object, "remove">>,
               BehindIsBookkeeping(i)
        PROVE  \E k \in DOMAIN queue' :
                  queue'[k] = <<object, "remove">> /\ BehindIsBookkeeping(k)'
    BY <1>4, <1>10, <2>2
  <2>3. \A u : Gone(object, u) => Gone(object, u)'
    BY DEF Gone
  <2> QED
    BY <1>0, <2>1, <2>2, <2>3 DEF RemovalInv
<1> QED
  BY <1>4, <1>6, <1>7, <1>8, <1>9, <1>11 DEF IInv

LEMMA WorkerFinishKeeps ==
    ASSUME IInv, NEW t \in Tiles, WorkerFinish(t)
    PROVE  IInv'
<1> USE DEF WorkerFinish, queueVars, updaterVars, mainVars
<1>0. /\ TypeOK /\ NobodyOversleeps /\ ThreadInv /\ TileInv /\ AppliedInv
      /\ RemovalInv /\ RemovedIsGone /\ DeletedIsGone
  BY DEF IInv
<1>1. /\ tile' \in [Tiles -> {"absent", "loading", "loaded"}]
      /\ tile'[t] = "loaded" /\ \A u \in Tiles : u # t => tile'[u] = tile[u]
  BY <1>0 DEF TypeOK
<1>2. TypeOK' /\ NobodyOversleeps' /\ ThreadInv' /\ DeletedIsGone'
  BY <1>0, <1>1 DEF TypeOK, NobodyOversleeps, ThreadInv, DeletedIsGone
<1>3. TileInv'
  BY <1>0, <1>1 DEF TileInv
<1>4. \A x, u : u \in Tiles /\ Gone(x, u) => Gone(x, u)'
  BY <1>1 DEF Gone
<1>5. AppliedInv'
  <2>1. updater = "applying" => Head(queue) \in Updates
    BY <1>0 DEF ThreadInv, TypeOK
  <2>2. updater = "applying" => Touches[Head(queue)[1]] \subseteq Tiles
    BY <2>1, RowsAssumption DEF Updates
  <2> QED
    BY <1>0, <1>4, <2>2 DEF AppliedInv
<1>6. object \in Plain => Touches[object] \subseteq Tiles
  BY RowsAssumption DEF Plain
<1>7. RemovalInv' /\ RemovedIsGone'
  BY <1>0, <1>4, <1>6 DEF RemovalInv, RemovedIsGone, BehindIsBookkeeping
<1> QED
  BY <1>2, <1>3, <1>5, <1>7 DEF IInv

----------------------------------------------------------------------------
\* The main thread.

\* What is left of the invariant when the main thread, awake, queues an update
\* of an object that is in the storage.
LEMMA MainQueues ==
    ASSUME IInv, op # "waiting", NEW x \in stored, NEW type \in Types,
           QueueUpdate(x, type), UNCHANGED <<stop, updaterVars, tileVars, stored>>,
           op' \in Ops, next' \in {"idle", "moved", "returned", "lock", "erase"},
           object' \in Objects \cup {None}, locked' \in BOOLEAN
    PROVE  /\ TypeOK' /\ NobodyOversleeps' /\ TileInv' /\ AppliedInv'
           /\ DeletedIsGone'
           /\ updater' # "blocking"
           /\ updater' = "applying" => queue' # <<>>
           /\ left' # {} => updater' = "applying"
                            /\ left' \subseteq Touches[Head(queue')[1]]
           /\ \E i \in DOMAIN queue' :
                 queue'[i] = <<x, type>> /\ BehindIsBookkeeping(i)'
<1> USE DEF updaterVars, tileVars
<1>0. /\ TypeOK /\ NobodyOversleeps /\ ThreadInv /\ TileInv /\ AppliedInv
      /\ RemovalInv /\ RemovedIsGone /\ DeletedIsGone
  BY DEF IInv
<1>1. x \in Objects
  BY <1>0 DEF TypeOK
<1>2. /\ queue' \in Seq(Updates) /\ queue' # <<>>
      /\ Len(queue') = Len(queue) + 1
      /\ queue'[Len(queue')] = <<x, type>>
      /\ queue # <<>> => Head(queue') = Head(queue)
      /\ asleep' \subseteq asleep /\ "updater" \notin asleep'
      /\ updater # "blocking"
  BY <1>0, <1>1, Queued
<1>3. /\ AppliedInv'
      /\ \A i \in DOMAIN queue' :
            queue'[i][1] \in Plain => queue'[i][1] \in stored
      /\ Len(queue') \in DOMAIN queue'
  BY <1>1, QueueKeeps
<1>4. \A j \in DOMAIN queue' : ~(j > Len(queue'))
  BY <1>2
<1>5. \E i \in DOMAIN queue' :
         queue'[i] = <<x, type>> /\ BehindIsBookkeeping(i)'
  BY <1>2, <1>3, <1>4 DEF BehindIsBookkeeping
<1>6. TypeOK'
  BY <1>0, <1>2 DEF TypeOK
<1>7. NobodyOversleeps'
  BY <1>0, <1>2 DEF NobodyOversleeps, TypeOK
<1>8. TileInv' /\ DeletedIsGone'
  BY <1>0, <1>3 DEF TileInv, DeletedIsGone
<1>9. /\ updater' # "blocking"
      /\ updater' = "applying" => queue' # <<>>
      /\ left' # {} => updater' = "applying"
                       /\ left' \subseteq Touches[Head(queue')[1]]
  BY <1>0, <1>2 DEF ThreadInv
<1> QED
  BY <1>3, <1>5, <1>6, <1>7, <1>8, <1>9

\* What is left of it when the main thread only goes on elsewhere.
LEMMA MainGoes ==
    ASSUME IInv, op # "waiting",
           UNCHANGED <<queue, asleep, updaterVars, tileVars, stored>>,
           stop' \in BOOLEAN,
           op' \in Ops, next' \in {"idle", "moved", "returned", "lock", "erase"},
           object' \in Objects \cup {None}, locked' \in BOOLEAN
    PROVE  /\ TypeOK' /\ NobodyOversleeps' /\ TileInv' /\ AppliedInv'
           /\ DeletedIsGone'
           /\ updater' = "blocking" => queue' = <<>>
           /\ updater' = "applying" => queue' # <<>>
           /\ left' # {} => updater' = "applying"
                            /\ left' \subseteq Touches[Head(queue')[1]]
<1> USE DEF updaterVars, tileVars
<1>0. /\ TypeOK /\ NobodyOversleeps /\ ThreadInv /\ TileInv /\ AppliedInv
      /\ RemovalInv /\ RemovedIsGone /\ DeletedIsGone
  BY DEF IInv
<1>1. TypeOK' /\ NobodyOversleeps'
  BY <1>0 DEF TypeOK, NobodyOversleeps
<1>2. TileInv' /\ DeletedIsGone' /\ AppliedInv'
  BY <1>0 DEF TileInv, DeletedIsGone, AppliedInv, Gone
<1>3. /\ updater' = "blocking" => queue' = <<>>
      /\ updater' = "applying" => queue' # <<>>
      /\ left' # {} => updater' = "applying"
                       /\ left' \subseteq Touches[Head(queue')[1]]
  BY <1>0 DEF ThreadInv
<1> QED
  BY <1>1, <1>2, <1>3

LEMMA MainQueueKeeps ==
    ASSUME IInv,
           \/ \E o \in Objects : Add(o) \/ Move(o) \/ Delete(o)
           \/ MoveAdd \/ DeleteLock
    PROVE  IInv'
<1> USE DEF Call, Goto, WaitThen, Ops, Types
<1>0. /\ TypeOK /\ NobodyOversleeps /\ ThreadInv /\ TileInv /\ AppliedInv
      /\ RemovalInv /\ RemovedIsGone /\ DeletedIsGone
  BY DEF IInv
<1>1. next \in {"idle", "moved", "returned", "lock", "erase"} /\ locked \in BOOLEAN
      /\ object \in Objects \cup {None} /\ stored \subseteq Objects
  BY <1>0 DEF TypeOK
<1>2. ASSUME NEW o \in Objects, Add(o) PROVE IInv'
  <2>1. /\ TypeOK' /\ NobodyOversleeps' /\ TileInv' /\ AppliedInv'
        /\ DeletedIsGone'
        /\ updater' # "blocking"
        /\ updater' = "applying" => queue' # <<>>
        /\ left' # {} => updater' = "applying"
                         /\ left' \subseteq Touches[Head(queue')[1]]
    BY <1>1, <1>2, MainQueues DEF Add, mainVars
  <2>2. ThreadInv' /\ RemovalInv' /\ RemovedIsGone'
    BY <1>0, <1>2, <2>1 DEF Add, mainVars, ThreadInv, RemovalInv, RemovedIsGone
  <2> QED
    BY <2>1, <2>2 DEF IInv
<1>3. ASSUME NEW o \in Objects, Move(o) PROVE IInv'
  <2>1. /\ TypeOK' /\ NobodyOversleeps' /\ TileInv' /\ AppliedInv'
        /\ DeletedIsGone'
        /\ updater' # "blocking"
        /\ updater' = "applying" => queue' # <<>>
        /\ left' # {} => updater' = "applying"
                         /\ left' \subseteq Touches[Head(queue')[1]]
        /\ \E i \in DOMAIN queue' :
              queue'[i] = <<o, "remove">> /\ BehindIsBookkeeping(i)'
    BY <1>1, <1>3, MainQueues DEF Move
  <2>2. ThreadInv' /\ RemovalInv' /\ RemovedIsGone'
    BY <1>0, <1>3, <2>1 DEF Move, ThreadInv, RemovalInv, RemovedIsGone
  <2> QED
    BY <2>1, <2>2 DEF IInv
<1>4. ASSUME NEW o \in Objects, Delete(o) PROVE IInv'
  <2>1. /\ TypeOK' /\ NobodyOversleeps' /\ TileInv' /\ AppliedInv'
        /\ DeletedIsGone'
        /\ updater' # "blocking"
        /\ updater' = "applying" => queue' # <<>>
        /\ left' # {} => updater' = "applying"
                         /\ left' \subseteq Touches[Head(queue')[1]]
    BY <1>1, <1>4, MainQueues DEF Delete
  <2>2. ThreadInv' /\ RemovalInv' /\ RemovedIsGone'
    BY <1>0, <1>4, <2>1 DEF Delete, ThreadInv, RemovalInv, RemovedIsGone
  <2> QED
    BY <2>1, <2>2 DEF IInv
<1>5. CASE MoveAdd
  <2>1. object \in stored /\ op' = "idle" /\ ~locked'
    BY <1>0, <1>5 DEF MoveAdd, ThreadInv
  <2>2. /\ TypeOK' /\ NobodyOversleeps' /\ TileInv' /\ AppliedInv'
        /\ DeletedIsGone'
        /\ updater' # "blocking"
        /\ updater' = "applying" => queue' # <<>>
        /\ left' # {} => updater' = "applying"
                         /\ left' \subseteq Touches[Head(queue')[1]]
    BY <1>1, <1>5, <2>1, MainQueues DEF MoveAdd
  <2>3. ThreadInv' /\ RemovalInv' /\ RemovedIsGone'
    BY <2>1, <2>2 DEF ThreadInv, RemovalInv, RemovedIsGone
  <2> QED
    BY <2>2, <2>3 DEF IInv
<1>6. CASE DeleteLock
  <2>1. object \in stored /\ op' = "waiting" /\ next' = "erase"
        /\ object' = object /\ stored' = stored /\ locked' \in BOOLEAN
    BY <1>0, <1>6 DEF DeleteLock, ThreadInv
  <2>2. /\ TypeOK' /\ NobodyOversleeps' /\ TileInv' /\ AppliedInv'
        /\ DeletedIsGone'
        /\ updater' # "blocking"
        /\ updater' = "applying" => queue' # <<>>
        /\ left' # {} => updater' = "applying"
                         /\ left' \subseteq Touches[Head(queue')[1]]
        /\ \E i \in DOMAIN queue' :
              queue'[i] = <<object, "remove">> /\ BehindIsBookkeeping(i)'
    BY <1>1, <1>6, <2>1, MainQueues DEF DeleteLock
  <2>3. ThreadInv' /\ RemovalInv' /\ RemovedIsGone'
    BY <2>1, <2>2 DEF ThreadInv, RemovalInv, RemovedIsGone
  <2> QED
    BY <2>2, <2>3 DEF IInv
<1> QED
  BY <1>2, <1>3, <1>4, <1>5, <1>6

LEMMA MainGoesKeeps ==
    ASSUME IInv,
           \/ \E o \in Objects : DeleteInstance(o)
           \/ Wait \/ WaitReturned \/ Stop \/ Join
    PROVE  IInv'
<1> USE DEF Call, Goto, WaitThen, Ops, queueVars
<1>0. /\ TypeOK /\ NobodyOversleeps /\ ThreadInv /\ TileInv /\ AppliedInv
      /\ RemovalInv /\ RemovedIsGone /\ DeletedIsGone
  BY DEF IInv
<1>1. /\ next \in {"idle", "moved", "returned", "lock", "erase"} /\ locked \in BOOLEAN
      /\ object \in Objects \cup {None} /\ stop \in BOOLEAN
  BY <1>0 DEF TypeOK
<1>2. /\ op # "waiting" /\ stop' \in BOOLEAN
      /\ op' \in Ops /\ next' \in {"idle", "moved", "returned", "lock", "erase"}
      /\ object' \in Objects \cup {None} /\ locked' = locked
      /\ UNCHANGED <<queue, asleep, updaterVars, tileVars, stored>>
  BY <1>1 DEF DeleteInstance, Wait, WaitReturned, Stop, Join
<1>3. /\ TypeOK' /\ NobodyOversleeps' /\ TileInv' /\ AppliedInv'
      /\ DeletedIsGone'
      /\ updater' = "blocking" => queue' = <<>>
      /\ updater' = "applying" => queue' # <<>>
      /\ left' # {} => updater' = "applying"
                       /\ left' \subseteq Touches[Head(queue')[1]]
  BY <1>1, <1>2, MainGoes
<1>4. /\ op' \notin {"moved", "returned", "erase"}
      /\ op' = "waiting" => next' = "returned"
      /\ op' = "lock" => object' \in stored
  BY DEF DeleteInstance, Wait, WaitReturned, Stop, Join
<1>5. ThreadInv'
  BY <1>0, <1>2, <1>3, <1>4 DEF ThreadInv, DeleteInstance, Wait, WaitReturned,
                                Stop, Join
<1>6. RemovalInv' /\ RemovedIsGone'
  BY <1>4 DEF RemovalInv, RemovedIsGone
<1> QED
  BY <1>3, <1>5, <1>6 DEF IInv

LEMMA LoadKeeps ==
    ASSUME IInv, NEW t \in Tiles, Load(t)
    PROVE  IInv'
<1> USE DEF Load, Call, queueVars, updaterVars, mainVars
<1>0. /\ TypeOK /\ NobodyOversleeps /\ ThreadInv /\ TileInv /\ AppliedInv
      /\ RemovalInv /\ RemovedIsGone /\ DeletedIsGone
  BY DEF IInv
<1>1. /\ tile' \in [Tiles -> {"absent", "loading", "loaded"}]
      /\ todo' \in [Tiles -> SUBSET Objects]
      /\ TileInv'
      /\ \A u \in Tiles : tile[u] = "loaded" => tile'[u] = "loaded"
  BY <1>0, Loads
<1>2. TypeOK' /\ NobodyOversleeps' /\ ThreadInv' /\ DeletedIsGone'
  BY <1>0, <1>1 DEF TypeOK, NobodyOversleeps, ThreadInv, DeletedIsGone
<1>3. \A x, u : u \in Tiles /\ Gone(x, u) => Gone(x, u)'
  BY <1>1, GoneKeeps
<1>4. AppliedInv'
  <2>1. updater = "applying" => Head(queue) \in Updates
    BY <1>0 DEF ThreadInv, TypeOK
  <2>2. updater = "applying" => Touches[Head(queue)[1]] \subseteq Tiles
    BY <2>1, RowsAssumption DEF Updates
  <2> QED
    BY <1>0, <1>3, <2>2 DEF AppliedInv
<1>5. RemovalInv' /\ RemovedIsGone'
  BY DEF RemovalInv, RemovedIsGone
<1> QED
  BY <1>1, <1>2, <1>4, <1>5 DEF IInv

LEMMA StopNotifyKeeps ==
    ASSUME IInv, StopNotify
    PROVE  IInv'
<1> USE DEF StopNotify, Goto, updaterVars, tileVars
<1>0. /\ TypeOK /\ NobodyOversleeps /\ ThreadInv /\ TileInv /\ AppliedInv
      /\ RemovalInv /\ RemovedIsGone /\ DeletedIsGone
  BY DEF IInv
<1>1. TypeOK'
  BY <1>0 DEF TypeOK, Ops
<1>2. NobodyOversleeps' /\ ThreadInv' /\ TileInv' /\ DeletedIsGone'
  BY <1>0 DEF NobodyOversleeps, ThreadInv, TileInv, DeletedIsGone
<1>3. AppliedInv' /\ RemovalInv' /\ RemovedIsGone'
  BY <1>0 DEF AppliedInv, RemovalInv, RemovedIsGone, Gone
<1> QED
  BY <1>1, <1>2, <1>3 DEF IInv

\* The object that is erased is on no tile and in no update.
LEMMA DeleteEraseKeeps ==
    ASSUME IInv, DeleteErase
    PROVE  IInv'
<1> USE DEF DeleteErase, Goto, queueVars, updaterVars, tileVars
<1>0. /\ TypeOK /\ NobodyOversleeps /\ ThreadInv /\ TileInv /\ AppliedInv
      /\ RemovalInv /\ RemovedIsGone /\ DeletedIsGone
  BY DEF IInv
<1>1. TypeOK'
  BY <1>0 DEF TypeOK, Ops
<1>2. NobodyOversleeps' /\ ThreadInv' /\ TileInv' /\ AppliedInv'
  BY <1>0 DEF NobodyOversleeps, ThreadInv, TileInv, AppliedInv, Gone
<1>3. RemovalInv' /\ RemovedIsGone'
  BY DEF RemovalInv, RemovedIsGone
<1>4. object \in Plain => \A t \in Tiles : object \notin registered[t]
  BY <1>0 DEF RemovedIsGone, TileInv, Gone
<1>5. \A i \in DOMAIN queue : queue[i][1] \in Renumbered
  BY <1>0 DEF RemovalInv, BehindIsBookkeeping, TypeOK
<1>6. DeletedIsGone'
  BY <1>0, <1>4, <1>5 DEF DeletedIsGone, Plain
<1> QED
  BY <1>1, <1>2, <1>3, <1>6 DEF IInv

LEMMA WaitCheckKeeps ==
    ASSUME IInv, WaitCheck
    PROVE  IInv'
<1> USE DEF WaitCheck, updaterVars, tileVars
<1>0. /\ TypeOK /\ NobodyOversleeps /\ ThreadInv /\ TileInv /\ AppliedInv
      /\ RemovalInv /\ RemovedIsGone /\ DeletedIsGone
  BY DEF IInv
<1>1. TypeOK'
  BY <1>0 DEF TypeOK, Ops
<1>2. TileInv' /\ AppliedInv' /\ DeletedIsGone'
  BY <1>0 DEF TileInv, AppliedInv, DeletedIsGone, Gone
<1>3. NobodyOversleeps'
  BY <1>0 DEF NobodyOversleeps
<1>4. ThreadInv'
  BY <1>0 DEF ThreadInv, TypeOK
<1>5. CASE queue = <<>>
  <2>1. BehindIsBookkeeping(0)'
    BY <1>5 DEF BehindIsBookkeeping
  <2>2. op' # "waiting"
    BY <1>0, <1>5 DEF TypeOK
  <2>3. op' \in {"moved", "erase"} /\ object \in Plain =>
           \A t \in Touches[object] : Gone(object, t)
    BY <1>0, <1>5 DEF RemovalInv
  <2>4. RemovalInv' /\ RemovedIsGone'
    BY <2>1, <2>2, <2>3 DEF RemovalInv, RemovedIsGone, Gone
  <2> QED
    BY <1>1, <1>2, <1>3, <1>4, <2>4 DEF IInv
<1>6. CASE queue # <<>>
  <2>1. RemovalInv' /\ RemovedIsGone'
    BY <1>0, <1>6 DEF RemovalInv, RemovedIsGone, BehindIsBookkeeping, Gone
  <2> QED
    BY <1>1, <1>2, <1>3, <1>4, <2>1 DEF IInv
<1> QED
  BY <1>5, <1>6

----------------------------------------------------------------------------
\* The cases of Next, as the lemmas above have them.
LEMMA Inductive == IInv /\ [Next]_vars => IInv'
<1> SUFFICES ASSUME IInv, [Next]_vars PROVE IInv'
  OBVIOUS
<1>1. CASE UNCHANGED vars
  BY <1>1 DEF vars, queueVars, updaterVars, mainVars, tileVars, IInv, TypeOK,
              NobodyOversleeps, ThreadInv, TileInv, AppliedInv, RemovalInv,
              RemovedIsGone, DeletedIsGone, BehindIsBookkeeping, Gone
<1>2. CASE Updater
  BY <1>2, UpdaterDecideKeeps, UpdaterBlockKeeps, UpdaterVisitKeeps,
     UpdaterRegisterKeeps, UpdaterPopKeeps DEF Updater
<1>3. ASSUME NEW t \in Tiles, Worker(t) PROVE IInv'
  BY <1>3, WorkerStoreKeeps, WorkerQueueKeeps, WorkerFinishKeeps DEF Worker
<1>4. CASE MainCall
  BY <1>4, LoadKeeps, MainQueueKeeps, MainGoesKeeps DEF MainCall
<1>5. CASE MainReturn
  BY <1>5, MainQueueKeeps, MainGoesKeeps, DeleteEraseKeeps, WaitCheckKeeps,
     StopNotifyKeeps DEF MainReturn
<1> QED
  BY <1>1, <1>2, <1>3, <1>4, <1>5 DEF Next

\* The inductive invariant holds in every reachable state.
THEOREM Invariance == Spec => []IInv
BY Initially, Inductive, PTL DEF Spec

\* No notification of the shared condition variable goes to the wrong thread:
\* nobody sleeps over what he waits for.
THEOREM WakeUps == Spec => []NobodyOversleeps
<1>1. IInv => NobodyOversleeps
  BY DEF IInv
<1> QED
  BY <1>1, Invariance, PTL

\* When the wait of a removal returns, the object is on no tile it touches and
\* all of these are loaded.
THEOREM Removal == Spec => []RemovedIsGone
<1>1. IInv => RemovedIsGone
  BY DEF IInv
<1> QED
  BY <1>1, Invariance, PTL

\* No tile lists and no update names an object that has been deleted.
THEOREM Deletion == Spec => []DeletedIsGone
<1>1. IInv => DeletedIsGone
  BY DEF IInv
<1> QED
  BY <1>1, Invariance, PTL
=============================================================================
