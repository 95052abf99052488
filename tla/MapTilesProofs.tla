---------------------------- MODULE MapTilesProofs ----------------------------
(***************************************************************************)
(* What MapTiles does for any map and any calls.                           *)
(***************************************************************************)
EXTENDS MapTiles, TLAPS

\* Destroying the object of a tile that may be discarded, and only then
\* leaving its slot loaded, preserves what the invariant says of the tiles.
LEMMA DestroyKeeps ==
    ASSUME IInv, NEW t \in Loaded, NEW s \in {"empty", "loading"}, Destroy(t, s)
    PROVE  /\ slot' \in [Tiles -> {"empty", "loading", "loaded"}]
           /\ Loaded' = Loaded \ {t}
           /\ changed' = changed \ {t} /\ failed' = failed \ {t}
           /\ unsaved' \in [Tiles -> SUBSET Kinds]
           /\ \A u \in Tiles : unsaved'[u] = IF u = t THEN {} ELSE unsaved[u]
           /\ stale' \in BOOLEAN
           /\ dangling' \in SUBSET undo
BY DEF IInv, TypeOK, Loaded, Destroy

\* UnloadTile leaves the table as it is or destroys the tile, and never one
\* whose last save failed.
LEMMA UnloadKeeps ==
    ASSUME IInv, NEW t \in Tiles, UnloadTile(t)
    PROVE  \/ UNCHANGED <<tileVars, stale, dangling>>
           \/ t \in Loaded \ failed /\ Destroy(t, "empty")
BY DEF UnloadTile

\* Loading tiles adds an object that is not loaded yet, or nothing.
LEMMA LoadKeeps ==
    ASSUME TypeOK, NEW t \in Tiles, slot' = LoadTile(t)
    PROVE  /\ slot' \in [Tiles -> {"empty", "loading", "loaded"}]
           /\ Loaded' = Loaded
BY DEF TypeOK, Loaded, LoadTile

\* Initially no tile is loaded.
LEMMA Initially == Init => IInv
<1> SUFFICES ASSUME Init PROVE IInv
  OBVIOUS
<1>1. Loaded = {}
  BY DEF Init, Loaded
<1>2. TypeOK
  <2>1. slot \in [Tiles -> {"empty", "loading", "loaded"}]
        /\ unsaved \in [Tiles -> SUBSET Kinds]
        /\ \A t \in Tiles \ Loaded : unsaved[t] = {}
    BY DEF Init
  <2>2. pending \in Seq(Tiles \X Intents)
    BY DEF Init
  <2>3. op \in Ops
    BY DEF Init, Ops
  <2> QED
    BY <2>1, <2>2, <2>3 DEF Init, TypeOK
<1>3. EditsGuarded
  BY DEF Init, EditsGuarded
<1>4. OperationInv
  BY DEF Init, OperationInv
<1> QED
  BY <1>2, <1>3, <1>4 DEF IInv

----------------------------------------------------------------------------
\* Every action preserves the invariant.  The last conjunct speaks of the main
\* thread: an action of another process, which leaves it where it is, may only
\* have touched what the suspended operation relies on.

LEMMA FinishLoadingKeeps ==
    ASSUME IInv, NEW t \in Tiles, FinishLoading(t)
    PROVE  IInv'
<1> USE DEF FinishLoading, tileVars, diskVars, historyVars, queueVars, mainVars,
            bakeVars
<1>1. Loaded' = Loaded \cup {t} /\ t \notin Loaded
  BY DEF IInv, TypeOK, Loaded
<1>2. TypeOK'
  BY <1>1 DEF IInv, TypeOK
<1>3. EditsGuarded'
  BY <1>1 DEF IInv, EditsGuarded
<1>4. OperationInv'
  BY <1>1 DEF IInv, OperationInv, Discardable
<1> QED
  BY <1>2, <1>3, <1>4 DEF IInv

LEMMA UpdateThreadKeeps ==
    ASSUME IInv, UpdateThread
    PROVE  IInv'
<1> USE DEF tileVars, diskVars, historyVars, queueVars, mainVars, bakeVars
<1>1. CASE UpdateBegin
  <2>1. pending # <<>> /\ pending \in Seq(Tiles \X Intents)
    BY <1>1 DEF UpdateBegin, IInv, TypeOK
  <2>2. Head(pending)[1] \in Tiles /\ pending' \in Seq(Tiles \X Intents)
    BY <1>1, <2>1 DEF UpdateBegin
  <2>3. /\ slot' \in [Tiles -> {"empty", "loading", "loaded"}]
        /\ Loaded' = Loaded
    BY <1>1, <2>2, LoadKeeps DEF UpdateBegin, IInv, TypeOK, Loaded
  <2>4. held' \in (Tiles \ Missing) \cup {NoTile} /\ stale' \in BOOLEAN
    BY <1>1, <2>2 DEF UpdateBegin, IInv, TypeOK
  <2>5. TypeOK'
    BY <1>1, <2>2, <2>3, <2>4 DEF UpdateBegin, IInv, TypeOK
  <2>6. EditsGuarded' /\ OperationInv'
    BY <1>1, <2>3 DEF UpdateBegin, IInv, EditsGuarded, OperationInv, Discardable
  <2> QED
    BY <2>5, <2>6 DEF IInv
<1>2. CASE UpdateApply
  <2>1. pending \in Seq(Tiles \X Intents) /\ pending # <<>> /\ Loaded' = Loaded
    BY <1>2 DEF UpdateApply, IInv, TypeOK, OperationInv, Loaded
  <2>2. pending' \in Seq(Tiles \X Intents)
    BY <1>2, <2>1 DEF UpdateApply
  <2>3. CASE stale
    <3>1. TypeOK'
      BY <1>2, <2>1, <2>2, <2>3 DEF UpdateApply, IInv, TypeOK
    <3>2. EditsGuarded' /\ OperationInv'
      BY <1>2, <2>1, <2>3
         DEF UpdateApply, IInv, EditsGuarded, OperationInv, Discardable
    <3> QED
      BY <3>1, <3>2 DEF IInv
  <2>4. CASE ~stale
    <3>1. /\ held \in Loaded
          /\ changed' = changed \/ changed' = changed \cup {held}
          /\ unsaved' = [unsaved EXCEPT ![held] = @ \cup {"objects"}]
      BY <1>2, <2>4 DEF UpdateApply, Touch, IInv, TypeOK
    <3>2. /\ unsaved' \in [Tiles -> SUBSET Kinds]
          /\ \A t \in Tiles \ Loaded : unsaved'[t] = {}
          /\ \A t \in Tiles : "terrain" \in unsaved'[t] <=> "terrain" \in unsaved[t]
      BY <3>1 DEF IInv, TypeOK, Kinds, Loaded
    <3>a. changed' \in SUBSET Loaded /\ held' = NoTile /\ stale' = FALSE
      BY <1>2, <3>1 DEF UpdateApply, IInv, TypeOK
    <3>b. UNCHANGED <<slot, failed, diskVars, historyVars, mainVars, bakeVars>>
      BY <1>2 DEF UpdateApply
    <3>3. TypeOK'
      BY <2>1, <2>2, <3>2, <3>a, <3>b DEF IInv, TypeOK
    <3>4. EditsGuarded'
      BY <1>2, <2>1, <3>1, <3>2 DEF UpdateApply, IInv, EditsGuarded
    <3>5. pinned \in SUBSET Tiles /\ scope' = scope /\ pinned' = pinned
      BY <1>2 DEF UpdateApply, IInv, TypeOK
    <3>6. OperationInv'
      BY <1>2, <2>1, <3>1, <3>2, <3>5
         DEF UpdateApply, IInv, OperationInv, Discardable
    <3> QED
      BY <3>3, <3>4, <3>6 DEF IInv
  <2> QED
    BY <2>3, <2>4
<1> QED
  BY <1>1, <1>2 DEF UpdateThread

LEMMA EnterTileKeeps ==
    ASSUME IInv, NEW t \in Tiles, EnterTile(t)
    PROVE  IInv'
<1> USE DEF EnterTile, tileVars, diskVars, historyVars, queueVars,
            mainVars, bakeVars
<1>1. /\ slot' \in [Tiles -> {"empty", "loading", "loaded"}]
      /\ Loaded' = Loaded
  BY LoadKeeps DEF IInv
<1>2. TypeOK'
  BY <1>1 DEF IInv, TypeOK
<1>3. EditsGuarded'
  BY <1>1 DEF IInv, EditsGuarded
<1>4. OperationInv'
  BY <1>1 DEF IInv, OperationInv, Discardable
<1> QED
  BY <1>2, <1>3, <1>4 DEF IInv

\* A step that destroys the object of a discardable tile, and only the step of
\* an operation that does not rely on it.
LEMMA DestroyPreserves ==
    ASSUME IInv, NEW t \in Loaded, NEW s \in {"empty", "loading"}, Destroy(t, s),
           t \notin scope,
           UNCHANGED <<files, undo, pending, held, bakeVars>>,
           onDisc' \in SUBSET Tiles,
           op' \in {"idle", op}, op' = op => UNCHANGED mainVars,
           op \in {"idle", "bake"} \/ op' = "idle",
           target' \in Tiles \cup {NoTile}, unload' \in BOOLEAN,
           scope # {} => op' = "bake"
    PROVE  IInv'
<1> USE DEF bakeVars, mainVars
<1>1. /\ slot' \in [Tiles -> {"empty", "loading", "loaded"}]
      /\ Loaded' = Loaded \ {t}
      /\ changed' = changed \ {t} /\ failed' = failed \ {t}
      /\ unsaved' \in [Tiles -> SUBSET Kinds]
      /\ \A u \in Tiles : unsaved'[u] = IF u = t THEN {} ELSE unsaved[u]
      /\ stale' \in BOOLEAN
      /\ dangling' \in SUBSET undo
  BY DestroyKeeps
<1>2. TypeOK'
  BY <1>1 DEF IInv, TypeOK, Ops
<1>3. EditsGuarded'
  BY <1>1 DEF IInv, EditsGuarded
<1>4. OperationInv'
  BY <1>1 DEF IInv, OperationInv, Discardable, TypeOK
<1> QED
  BY <1>2, <1>3, <1>4 DEF IInv

LEMMA UnloadFarTileKeeps ==
    ASSUME IInv, NEW t \in Tiles, UnloadFarTile(t)
    PROVE  IInv'
<1> USE DEF UnloadFarTile, Tick, tileVars, diskVars, historyVars, queueVars,
            mainVars, bakeVars
<1>1. CASE UNCHANGED <<tileVars, stale, dangling>>
  <2>1. UNCHANGED vars
    BY <1>1 DEF vars
  <2> QED
    BY <2>1 DEF vars, IInv, TypeOK, Loaded, EditsGuarded, OperationInv, Discardable
<1>2. CASE t \in Loaded \ failed /\ Destroy(t, "empty")
  <2>1. t \notin scope /\ (scope # {} => op = "bake")
    BY DEF IInv, OperationInv
  <2> QED
    BY <1>2, <2>1, DestroyPreserves DEF IInv, TypeOK
<1> QED
  BY <1>1, <1>2, UnloadKeeps

LEMMA ReloadTileKeeps ==
    ASSUME IInv, NEW t \in Tiles, ReloadTile(t)
    PROVE  IInv'
<1> USE DEF ReloadTile, Call, tileVars, diskVars, historyVars, queueVars,
            mainVars, bakeVars
<1>1. scope = {}
  BY DEF IInv, OperationInv
<1> QED
  BY <1>1, DestroyPreserves DEF IInv, TypeOK

LEMMA EditKeeps ==
    ASSUME IInv, NEW t \in Tiles, Edit(t)
    PROVE  IInv'
<1> USE DEF Edit, Call, Touch, tileVars, diskVars, historyVars, queueVars,
            mainVars, bakeVars
<1>1. /\ Loaded' = Loaded
      /\ unsaved' \in [Tiles -> SUBSET Kinds]
      /\ \A u \in Tiles \ {t} : unsaved'[u] = unsaved[u]
  BY DEF IInv, TypeOK, Kinds, Loaded
<1>2. TypeOK'
  BY <1>1 DEF IInv, TypeOK
<1>3. EditsGuarded'
  BY <1>1 DEF IInv, EditsGuarded
<1>4. OperationInv'
  BY <1>1 DEF IInv, TypeOK, OperationInv
<1> QED
  BY <1>2, <1>3, <1>4 DEF IInv

LEMMA UndoKeeps ==
    ASSUME IInv, NEW t \in Tiles, Undo(t)
    PROVE  IInv'
<1> USE DEF Undo, Call, Touch, tileVars, diskVars, historyVars, queueVars,
            mainVars, bakeVars
<1>1. /\ Loaded' = Loaded
      /\ unsaved' \in [Tiles -> SUBSET Kinds]
      /\ \A u \in Tiles \ Loaded : unsaved'[u] = unsaved[u]
      /\ \A u \in Tiles : "terrain" \in unsaved'[u] <=> "terrain" \in unsaved[u]
  BY DEF IInv, TypeOK, Kinds, Loaded
<1>2. TypeOK'
  BY <1>1 DEF IInv, TypeOK
<1>3. EditsGuarded'
  BY <1>1 DEF IInv, EditsGuarded
<1>4. OperationInv'
  BY <1>1 DEF IInv, TypeOK, OperationInv
<1> QED
  BY <1>2, <1>3, <1>4 DEF IInv

LEMMA QueueUpdateKeeps ==
    ASSUME IInv, NEW t \in Tiles, QueueUpdate(t)
    PROVE  IInv'
<1> USE DEF QueueUpdate, Call, tileVars, diskVars, historyVars, queueVars,
            mainVars, bakeVars
<1>0. <<t, "user_edit">> \in Tiles \X Intents /\ pending \in Seq(Tiles \X Intents)
  BY DEF IInv, TypeOK, Intents
<1>1. /\ pending' \in Seq(Tiles \X Intents) /\ pending' # <<>>
      /\ Loaded' = Loaded
  <2>1. pending' = Append(pending, <<t, "user_edit">>)
    OBVIOUS
  <2>2. Loaded' = Loaded
    BY DEF Loaded
  <2> HIDE DEF QueueUpdate
  <2> QED
    BY <1>0, <2>1, <2>2
<1>2. TypeOK'
  BY <1>1 DEF IInv, TypeOK, Ops
<1>3. EditsGuarded'
  BY <1>1 DEF IInv, EditsGuarded
<1>4. OperationInv'
  BY <1>1 DEF IInv, OperationInv, TypeOK
<1> QED
  BY <1>2, <1>3, <1>4 DEF IInv

LEMMA PlaceObjectKeeps ==
    ASSUME IInv, NEW t \in Tiles, PlaceObject(t)
    PROVE  IInv'
<1> USE DEF PlaceObject, Call, tileVars, diskVars, historyVars, queueVars,
            mainVars, bakeVars
<1>0. <<t, "bookkeeping">> \in Tiles \X Intents /\ pending \in Seq(Tiles \X Intents)
  BY DEF IInv, TypeOK, Intents
<1>1. /\ pending' \in Seq(Tiles \X Intents) /\ pending' # <<>>
      /\ Loaded' = Loaded
  <2>1. pending' = Append(pending, <<t, "bookkeeping">>)
    OBVIOUS
  <2>2. Loaded' = Loaded
    BY DEF Loaded
  <2> HIDE DEF PlaceObject
  <2> QED
    BY <1>0, <2>1, <2>2
<1>2. TypeOK'
  BY <1>1 DEF IInv, TypeOK, Ops
<1>3. EditsGuarded'
  BY <1>1 DEF IInv, EditsGuarded
<1>4. OperationInv'
  BY <1>1 DEF IInv, OperationInv, TypeOK
<1> QED
  BY <1>2, <1>3, <1>4 DEF IInv

LEMMA WaitReturnKeeps ==
    ASSUME IInv, WaitReturn
    PROVE  IInv'
<1> USE DEF WaitReturn, Return, Goto, tileVars, diskVars, historyVars, queueVars,
            mainVars, bakeVars
<1>1. Loaded' = Loaded
  BY DEF Loaded
<1>2. TypeOK'
  BY <1>1 DEF IInv, TypeOK, Ops
<1>3. EditsGuarded'
  BY <1>1 DEF IInv, EditsGuarded
<1>4. OperationInv'
  BY <1>1 DEF IInv, OperationInv, TypeOK
<1> QED
  BY <1>2, <1>3, <1>4 DEF IInv

LEMMA SaveBeginKeeps ==
    ASSUME IInv, NEW s \in Saves, NEW t \in Tiles, SaveBegin(s, t)
    PROVE  IInv'
<1> USE DEF SaveBegin, Call, Goto, tileVars, diskVars, historyVars, queueVars,
            mainVars, bakeVars
<1>1. Loaded' = Loaded /\ s \in Ops /\ s \notin {"bake", "release", "minimap", "minimapLoad", "import", "force"}
  BY DEF Loaded, Ops, Saves
<1>2. TypeOK'
  BY <1>1 DEF IInv, TypeOK
<1>3. EditsGuarded'
  BY <1>1 DEF IInv, EditsGuarded
<1>4. OperationInv'
  BY <1>1 DEF IInv, OperationInv, TypeOK
<1> QED
  BY <1>2, <1>3, <1>4 DEF IInv

LEMMA ImportBeginKeeps ==
    ASSUME IInv, NEW t \in Tiles, ImportBegin(t)
    PROVE  IInv'
<1> USE DEF ImportBegin, Call, Goto, tileVars, diskVars, historyVars, queueVars,
            mainVars, bakeVars
<1>1. /\ slot' \in [Tiles -> {"empty", "loading", "loaded"}]
      /\ Loaded' = Loaded
  BY LoadKeeps DEF IInv
<1>2. TypeOK'
  BY <1>1 DEF IInv, TypeOK, Ops
<1>3. EditsGuarded'
  BY <1>1 DEF IInv, EditsGuarded
<1>4. OperationInv'
  BY <1>1 DEF IInv, OperationInv, TypeOK, Discardable
<1> QED
  BY <1>2, <1>3, <1>4 DEF IInv

LEMMA MinimapBeginKeeps ==
    ASSUME IInv, NEW t \in Tiles, MinimapBegin(t)
    PROVE  IInv'
<1> USE DEF MinimapBegin, Call, Goto, tileVars, diskVars, historyVars, queueVars,
            mainVars, bakeVars
<1>1. /\ slot' \in [Tiles -> {"empty", "loading", "loaded"}]
      /\ Loaded' = Loaded
      /\ t \notin Loaded \cap changed => Discardable(t)
  BY LoadKeeps DEF IInv, EditsGuarded, Discardable
<1>2. TypeOK'
  BY <1>1 DEF IInv, TypeOK, Ops
<1>3. EditsGuarded'
  BY <1>1 DEF IInv, EditsGuarded
<1>4. OperationInv'
  BY <1>1 DEF IInv, OperationInv, TypeOK, Discardable
<1> QED
  BY <1>2, <1>3, <1>4 DEF IInv

LEMMA ForceBeginKeeps ==
    ASSUME IInv, NEW t \in Tiles, ForceBegin(t)
    PROVE  IInv'
<1> USE DEF ForceBegin, Call, Goto, tileVars, diskVars, historyVars, queueVars,
            mainVars, bakeVars
<1>1. /\ slot' \in [Tiles -> {"empty", "loading", "loaded"}]
      /\ Loaded' = Loaded
  BY LoadKeeps DEF IInv, TypeOK, Loaded
<1>2. TypeOK'
  <2>1. onDisc' \in SUBSET Tiles
    BY DEF MarkOnDisc, IInv, TypeOK
  <2>2. op' \in Ops /\ target' \in Tiles \cup {NoTile} /\ unload' \in BOOLEAN
    BY DEF Ops, IInv, TypeOK
  <2> QED
    BY <1>1, <2>1, <2>2 DEF IInv, TypeOK
<1>3. EditsGuarded'
  BY <1>1 DEF IInv, EditsGuarded
<1>4. OperationInv'
  BY <1>1 DEF IInv, OperationInv, TypeOK, Discardable
<1> QED
  BY <1>2, <1>3, <1>4 DEF IInv

LEMMA MinimapLoadedKeeps ==
    ASSUME IInv, MinimapLoaded
    PROVE  IInv'
<1> USE DEF MinimapLoaded, Goto, tileVars, diskVars, historyVars, queueVars,
            mainVars, bakeVars
<1>1. Loaded' = Loaded
  BY DEF Loaded
<1>2. TypeOK'
  BY <1>1 DEF IInv, TypeOK, Ops
<1>3. EditsGuarded'
  BY <1>1 DEF IInv, EditsGuarded
<1>4. OperationInv'
  BY <1>1 DEF IInv, OperationInv, TypeOK, Discardable
<1> QED
  BY <1>2, <1>3, <1>4 DEF IInv

\* Saving tiles removes edits from them, or remembers the failure on them.
LEMMA SaveTilesKeeps ==
    ASSUME TypeOK, NEW S \in SUBSET Loaded, NEW bad,
           NEW edits \in [Tiles -> SUBSET Kinds], SaveTiles(S, bad, edits),
           \A t \in Tiles \ Loaded : edits[t] = {}
    PROVE  /\ bad \in SUBSET S
           /\ unsaved' \in [Tiles -> SUBSET Kinds]
           /\ \A t \in Tiles \ Loaded : unsaved'[t] = {}
           /\ \A t \in Tiles : unsaved'[t] = IF t \in S \ bad THEN {} ELSE edits[t]
           /\ failed' = (failed \ S) \cup bad /\ failed' \in SUBSET Loaded
           /\ files' \in SUBSET Tiles
BY DEF TypeOK, SaveTiles, Loaded

LEMMA SaveFinishKeeps ==
    ASSUME IInv, SaveFinish
    PROVE  IInv'
<1> USE DEF SaveFinish, Return, Goto, tileVars, diskVars, historyVars, queueVars,
            mainVars, bakeVars
<1>1. PICK bad \in SUBSET SaveScope, wdl \in BOOLEAN :
        /\ SaveTiles(SaveScope, bad, unsaved)
        /\ changed' = IF op = "saveTile" THEN changed
                      ELSE changed \ (SaveScope \ bad)
        /\ Purge(bad = {} /\ wdl)
  OBVIOUS
<1>2. SaveScope \in SUBSET Loaded
  BY DEF SaveScope
<1>3. /\ bad \in SUBSET SaveScope
      /\ unsaved' \in [Tiles -> SUBSET Kinds]
      /\ \A t \in Tiles \ Loaded : unsaved'[t] = {}
      /\ \A t \in Tiles :
            unsaved'[t] = IF t \in SaveScope \ bad THEN {} ELSE unsaved[t]
      /\ failed' = (failed \ SaveScope) \cup bad /\ failed' \in SUBSET Loaded
      /\ files' \in SUBSET Tiles
  <2>1. unsaved \in [Tiles -> SUBSET Kinds] /\ \A t \in Tiles \ Loaded : unsaved[t] = {}
    BY DEF IInv, TypeOK
  <2>2. TypeOK
    BY DEF IInv
  <2> QED
    BY ONLY <1>1, <1>2, <2>1, <2>2, SaveTilesKeeps
<1>4. Loaded' = Loaded
  BY DEF Loaded
<1>5. undo' \in SUBSET Tiles /\ dangling' \in SUBSET undo'
  BY <1>1 DEF Purge, IInv, TypeOK
<1>6. changed' \in SUBSET Loaded
  BY <1>1 DEF IInv, TypeOK
<1>7. TypeOK'
  BY <1>3, <1>4, <1>5, <1>6 DEF IInv, TypeOK, Ops
<1>8. EditsGuarded'
  BY <1>1, <1>3, <1>4 DEF IInv, EditsGuarded
<1>9. OperationInv'
  <2>1. scope = {} /\ pinned = {}
    BY DEF IInv, TypeOK, OperationInv, Saves
  <2> QED
    BY <2>1 DEF IInv, OperationInv
<1> QED
  BY <1>7, <1>8, <1>9 DEF IInv

\* Touching a tile leaves the other tiles alone.
LEMMA TouchKeeps ==
    ASSUME TypeOK, NEW t \in Loaded, NEW k \in Kinds
    PROVE  /\ Touch(t, k) \in [Tiles -> SUBSET Kinds]
           /\ \A u \in Tiles \ Loaded : Touch(t, k)[u] = {}
           /\ \A u \in Tiles \ {t} : Touch(t, k)[u] = unsaved[u]
BY DEF TypeOK, Touch, Loaded

\* Changing a tile and saving it at once leaves it clean or remembered.
LEMMA ConvertKeeps ==
    ASSUME TypeOK, NEW t \in Loaded, NEW bad \in SUBSET {t},
           SaveTiles({t}, bad, Touch(t, "terrain"))
    PROVE  /\ unsaved' \in [Tiles -> SUBSET Kinds]
           /\ \A u \in Tiles \ Loaded : unsaved'[u] = {}
           /\ \A u \in Tiles \ {t} : unsaved'[u] = unsaved[u]
           /\ failed' \in SUBSET Loaded /\ failed' \ {t} = failed \ {t}
           /\ t \in failed' \/ "terrain" \notin unsaved'[t]
           /\ files' \in SUBSET Tiles
<1>1. /\ Touch(t, "terrain") \in [Tiles -> SUBSET Kinds]
      /\ \A u \in Tiles \ Loaded : Touch(t, "terrain")[u] = {}
      /\ \A u \in Tiles \ {t} : Touch(t, "terrain")[u] = unsaved[u]
  BY TouchKeeps DEF Kinds
<1>2. PICK S : S = {t}
  OBVIOUS
<1>3. /\ unsaved' \in [Tiles -> SUBSET Kinds]
      /\ \A u \in Tiles \ Loaded : unsaved'[u] = {}
      /\ \A u \in Tiles :
            unsaved'[u] = IF u \in {t} \ bad THEN {} ELSE Touch(t, "terrain")[u]
      /\ failed' = (failed \ {t}) \cup bad /\ failed' \in SUBSET Loaded
      /\ files' \in SUBSET Tiles
  <2>1. PICK edits : edits = Touch(t, "terrain")
    OBVIOUS
  <2>2. /\ S \in SUBSET Loaded
        /\ edits \in [Tiles -> SUBSET Kinds]
        /\ \A u \in Tiles \ Loaded : edits[u] = {}
        /\ SaveTiles(S, bad, edits)
    BY <1>1, <1>2, <2>1
  <2>3. /\ unsaved' \in [Tiles -> SUBSET Kinds]
        /\ \A u \in Tiles \ Loaded : unsaved'[u] = {}
        /\ \A u \in Tiles : unsaved'[u] = IF u \in S \ bad THEN {} ELSE edits[u]
        /\ failed' = (failed \ S) \cup bad /\ failed' \in SUBSET Loaded
        /\ files' \in SUBSET Tiles
    BY <2>2 DEF SaveTiles, TypeOK, Loaded
  <2> QED
    BY <1>2, <2>1, <2>3
<1>4. t \in Tiles
  BY DEF Loaded
<1> QED
  BY <1>1, <1>3, <1>4

LEMMA ImportSaveKeeps ==
    ASSUME IInv, ImportSave
    PROVE  IInv'
<1> USE DEF ImportSave, Goto, tileVars, diskVars, historyVars, queueVars,
            mainVars, bakeVars
<1>1. PICK bad \in SUBSET {target} :
        SaveTiles({target}, bad, Touch(target, "terrain"))
  OBVIOUS
<1>2. /\ unsaved' \in [Tiles -> SUBSET Kinds]
      /\ \A u \in Tiles \ Loaded : unsaved'[u] = {}
      /\ \A u \in Tiles \ {target} : unsaved'[u] = unsaved[u]
      /\ failed' \in SUBSET Loaded /\ failed' \ {target} = failed \ {target}
      /\ target \in failed' \/ "terrain" \notin unsaved'[target]
      /\ files' \in SUBSET Tiles
  BY <1>1, ConvertKeeps DEF IInv
<1>3. Loaded' = Loaded
  BY DEF Loaded
<1>4. TypeOK'
  BY <1>2, <1>3 DEF IInv, TypeOK, Ops
<1>5. EditsGuarded'
  BY <1>2, <1>3 DEF IInv, EditsGuarded
<1>6. OperationInv'
  BY <1>2, <1>3 DEF IInv, OperationInv, TypeOK, Discardable
<1> QED
  BY <1>4, <1>5, <1>6 DEF IInv

LEMMA ForceApplyKeeps ==
    ASSUME IInv, ForceApply
    PROVE  IInv'
<1> USE DEF ForceApply, Return, Goto, tileVars, diskVars, historyVars, queueVars,
            mainVars, bakeVars
<1>1. Loaded' = Loaded /\ changed' \in SUBSET Loaded
  BY DEF Loaded, IInv, TypeOK
<1>2. CASE unload
  <2>1. PICK bad \in SUBSET {target} :
          SaveTiles({target}, bad, Touch(target, "terrain"))
    BY <1>2
  <2>2. /\ unsaved' \in [Tiles -> SUBSET Kinds]
        /\ \A u \in Tiles \ Loaded : unsaved'[u] = {}
        /\ \A u \in Tiles \ {target} : unsaved'[u] = unsaved[u]
        /\ failed' \in SUBSET Loaded /\ failed' \ {target} = failed \ {target}
        /\ target \in failed' \/ "terrain" \notin unsaved'[target]
        /\ files' \in SUBSET Tiles
    BY <2>1, ConvertKeeps DEF IInv
  <2>3. TypeOK'
    BY <1>1, <1>2, <2>2 DEF IInv, TypeOK, Ops
  <2>4. EditsGuarded'
    BY <1>1, <1>2, <2>2 DEF IInv, EditsGuarded
  <2>5. OperationInv'
    BY <1>1, <1>2, <2>2 DEF IInv, OperationInv, TypeOK, Discardable
  <2> QED
    BY <2>3, <2>4, <2>5 DEF IInv
<1>3. CASE ~unload
  <2>1. /\ unsaved' \in [Tiles -> SUBSET Kinds]
        /\ \A u \in Tiles \ Loaded : unsaved'[u] = {}
        /\ \A u \in Tiles \ {target} : unsaved'[u] = unsaved[u]
    BY <1>3, TouchKeeps DEF IInv, Kinds
  <2>2. TypeOK'
    BY <1>1, <1>3, <2>1 DEF IInv, TypeOK, Ops
  <2>3. EditsGuarded'
    BY <1>1, <1>3, <2>1 DEF IInv, EditsGuarded
  <2>4. OperationInv'
    BY <1>1, <1>3, <2>1 DEF IInv, OperationInv, TypeOK
  <2> QED
    BY <2>2, <2>3, <2>4 DEF IInv
<1> QED
  BY <1>2, <1>3 DEF IInv, TypeOK

LEMMA ReleaseKeeps ==
    ASSUME IInv, Release
    PROVE  IInv'
<1> USE DEF Release, Return, Goto, tileVars, diskVars, historyVars, queueVars,
            mainVars, bakeVars
<1>1. /\ target \in Loaded /\ target \in Tiles /\ scope = {}
      /\ onDisc' \in SUBSET Tiles
      /\ Discardable(target)
  BY DEF MarkOnDisc, IInv, TypeOK, OperationInv, Loaded
<1>2. CASE unload /\ Destroy(target, "empty")
  BY <1>1, <1>2, DestroyPreserves
<1>3. CASE ~(unload /\ Destroy(target, "empty"))
  <2>1. /\ UNCHANGED <<slot, failed, unsaved, stale, dangling>>
        /\ changed' \in {changed, UnsetChanged(target)}
    BY <1>1, <1>3, UnloadKeeps
  <2>2. Loaded' = Loaded /\ changed' \in SUBSET Loaded
    BY <2>1 DEF UnsetChanged, Loaded, IInv, TypeOK
  <2>3. TypeOK'
    BY <1>1, <2>1, <2>2 DEF IInv, TypeOK, Ops
  <2>4. EditsGuarded'
    BY <1>1, <2>1, <2>2 DEF UnsetChanged, IInv, EditsGuarded, Discardable
  <2>5. OperationInv'
    BY <1>1, <2>1, <2>2 DEF IInv, OperationInv, TypeOK
  <2> QED
    BY <2>3, <2>4, <2>5 DEF IInv
<1> QED
  BY <1>2, <1>3

LEMMA MinimapEndKeeps ==
    ASSUME IInv, MinimapEnd
    PROVE  IInv'
<1> USE DEF MinimapEnd, Return, Goto, tileVars, diskVars, historyVars, queueVars,
            mainVars, bakeVars
<1>1. /\ target \in Tiles /\ scope = {}
      /\ onDisc' \in SUBSET Tiles
  BY DEF IInv, TypeOK, OperationInv
<1>2. CASE target \in Loaded /\ unload /\ Destroy(target, "empty")
  BY <1>1, <1>2, DestroyPreserves
<1>3. CASE ~(target \in Loaded /\ unload /\ Destroy(target, "empty"))
  <2>1. UNCHANGED <<tileVars, stale, dangling>>
    BY <1>1, <1>3, UnloadKeeps
  <2>2. Loaded' = Loaded
    BY <2>1 DEF Loaded
  <2>3. TypeOK'
    BY <1>1, <2>1, <2>2 DEF IInv, TypeOK, Ops
  <2>4. EditsGuarded'
    BY <2>1, <2>2 DEF IInv, EditsGuarded
  <2>5. OperationInv'
    BY <1>1, <2>1, <2>2 DEF IInv, OperationInv, TypeOK
  <2> QED
    BY <2>3, <2>4, <2>5 DEF IInv
<1> QED
  BY <1>2, <1>3

LEMMA BakeBeginKeeps ==
    ASSUME IInv, NEW S \in SUBSET Tiles, BakeBegin(S)
    PROVE  IInv'
<1> USE DEF BakeBegin, Call, Goto, tileVars, diskVars, historyVars, queueVars,
            mainVars, bakeVars
<1>1. Loaded' = Loaded
  BY DEF Loaded
<1>2. TypeOK'
  BY <1>1 DEF IInv, TypeOK, Ops, Loaded
<1>3. EditsGuarded'
  BY <1>1 DEF IInv, EditsGuarded, Discardable
<1>4. OperationInv'
  BY <1>1 DEF IInv, OperationInv, TypeOK, Discardable, EditsGuarded
<1> QED
  BY <1>2, <1>3, <1>4 DEF IInv

LEMMA BakeTileKeeps ==
    ASSUME IInv, NEW t \in Tiles, BakeTile(t)
    PROVE  IInv'
<1> USE DEF BakeTile, tileVars, diskVars, historyVars, queueVars,
            mainVars, bakeVars
<1>1. /\ Loaded' = Loaded /\ t \in Loaded /\ t \in changed
      /\ unsaved' \in [Tiles -> SUBSET Kinds]
      /\ \A u \in Tiles \ Loaded : unsaved'[u] = {}
      /\ \A u \in Tiles \ {t} : unsaved'[u] = unsaved[u]
  BY TouchKeeps DEF IInv, TypeOK, OperationInv, Kinds, Loaded
<1>2. TypeOK'
  BY <1>1 DEF IInv, TypeOK
<1>3. EditsGuarded'
  BY <1>1 DEF IInv, EditsGuarded
<1>4. OperationInv'
  BY <1>1 DEF IInv, OperationInv, TypeOK, Discardable
<1> QED
  BY <1>2, <1>3, <1>4 DEF IInv

LEMMA BakeEndKeeps ==
    ASSUME IInv, BakeEnd
    PROVE  IInv'
<1> USE DEF BakeEnd, Return, Goto, tileVars, diskVars, historyVars, queueVars,
            mainVars, bakeVars
<1>1. Loaded' = Loaded
  BY DEF Loaded
<1>2. TypeOK'
  BY <1>1 DEF IInv, TypeOK, Ops
<1>3. EditsGuarded'
  BY <1>1 DEF IInv, EditsGuarded, OperationInv, Discardable
<1>4. OperationInv'
  BY <1>1 DEF IInv, OperationInv, TypeOK
<1> QED
  BY <1>2, <1>3, <1>4 DEF IInv

----------------------------------------------------------------------------
\* The cases of Next, as the lemmas above have them.
LEMMA Inductive == IInv /\ [Next]_vars => IInv'
<1> SUFFICES ASSUME IInv, [Next]_vars PROVE IInv'
  OBVIOUS
<1>1. CASE UNCHANGED vars
  BY <1>1 DEF vars, tileVars, diskVars, historyVars, queueVars, mainVars,
              bakeVars, IInv, TypeOK, Loaded, EditsGuarded, OperationInv,
              Discardable
<1>2. ASSUME NEW t \in Tiles, FinishLoading(t) PROVE IInv'
  BY <1>2, FinishLoadingKeeps
<1>3. CASE UpdateThread
  BY <1>3, UpdateThreadKeeps
<1>4. CASE MainCall
  <2>1. ASSUME NEW t \in Tiles,
               \/ EnterTile(t) \/ UnloadFarTile(t) \/ Edit(t) \/ Undo(t)
               \/ QueueUpdate(t) \/ PlaceObject(t) \/ ReloadTile(t)
               \/ ImportBegin(t) \/ ForceBegin(t) \/ MinimapBegin(t)
        PROVE  IInv'
    BY <2>1, EnterTileKeeps, UnloadFarTileKeeps, EditKeeps, UndoKeeps,
       QueueUpdateKeeps, PlaceObjectKeeps, ReloadTileKeeps, ImportBeginKeeps, ForceBeginKeeps,
       MinimapBeginKeeps
  <2>2. ASSUME NEW s \in Saves, NEW t \in Tiles, SaveBegin(s, t) PROVE IInv'
    BY <2>2, SaveBeginKeeps
  <2>3. ASSUME NEW S \in SUBSET Tiles, BakeBegin(S) PROVE IInv'
    BY <2>3, BakeBeginKeeps
  <2> QED
    BY <1>4, <2>1, <2>2, <2>3 DEF MainCall
<1>5. ASSUME NEW t \in scope, BakeTile(t) PROVE IInv'
  BY <1>5, BakeTileKeeps DEF IInv, TypeOK
<1>6. CASE MainReturn
  BY <1>6, WaitReturnKeeps, SaveFinishKeeps, ImportSaveKeeps, ReleaseKeeps,
     ForceApplyKeeps, MinimapLoadedKeeps, MinimapEndKeeps, BakeEndKeeps
     DEF MainReturn
<1> QED
  BY <1>1, <1>2, <1>3, <1>4, <1>5, <1>6 DEF Next

\* The inductive invariant holds in every reachable state.
THEOREM Invariance == Spec => []IInv
BY Initially, Inductive, PTL DEF Spec

\* Every variable keeps its type, and only loaded tiles have flags or edits.
THEOREM TypeCorrect == Spec => []TypeOK
<1>1. IInv => TypeOK
  BY DEF IInv
<1> QED
  BY <1>1, Invariance, PTL

\* Edits of a tool that are not on disk are marked, or their failed save is
\* remembered.
THEOREM EditsAreGuarded == Spec => []EditsGuarded
<1>1. IInv => EditsGuarded
  BY DEF IInv
<1> QED
  BY <1>1, Invariance, PTL

\* A bake never has a pointer into a tile that is gone.
THEOREM BakeScopeIsAlive == Spec => []ScopeIsAlive
<1>1. IInv => ScopeIsAlive
  BY DEF IInv, TypeOK, OperationInv, ScopeIsAlive
<1> QED
  BY <1>1, Invariance, PTL

\* No step but the user's reload destroys a tile with edits of a tool that are
\* not on disk.
THEOREM EditsAreKept == Spec => EditsKept
<1>1. IInv /\ [Next]_vars =>
        [\A t \in Tiles : "terrain" \in unsaved[t] =>
            slot'[t] = "loaded" \/ ReloadTile(t)]_vars
  <2> SUFFICES ASSUME IInv, Next, NEW t \in Tiles, "terrain" \in unsaved[t],
                      ~ReloadTile(t)
               PROVE  slot'[t] = "loaded"
    OBVIOUS
  <2> USE DEF tileVars
  <2>1. slot[t] = "loaded" /\ slot \in [Tiles -> {"empty", "loading", "loaded"}]
    BY DEF IInv, TypeOK, EditsGuarded, Loaded
  <2>2. ASSUME NEW u \in Tiles, slot' = LoadTile(u) PROVE slot'[t] = "loaded"
    BY <2>1, <2>2 DEF LoadTile
  <2>3. ASSUME NEW u \in Tiles, NEW s \in {"empty", "loading"}, Destroy(u, s),
               u # t
        PROVE  slot'[t] = "loaded"
    BY <2>1, <2>3 DEF Destroy
  <2>4. ASSUME NEW u \in Tiles, UnloadTile(u), u = t => Discardable(t)
        PROVE  slot'[t] = "loaded"
    BY <2>1, <2>3, <2>4 DEF UnloadTile, Discardable
  <2>5. CASE slot' = slot
    BY <2>1, <2>5
  <2>6. ASSUME NEW u \in Tiles, FinishLoading(u) PROVE slot'[t] = "loaded"
    BY <2>1, <2>6 DEF FinishLoading
  <2>7. CASE UpdateThread
    <3>1. CASE UpdateBegin /\ pending # <<>> /\ Head(pending)[1] \notin Missing
      <4>1. pending \in Seq(Tiles \X Intents)
        BY DEF IInv, TypeOK
      <4>2. Head(pending)[1] \in Tiles
        BY <3>1, <4>1
      <4> QED
        BY <2>2, <3>1, <4>2 DEF UpdateBegin
    <3> QED
      BY <2>5, <2>7, <3>1 DEF UpdateThread, UpdateBegin, UpdateApply
  <2>8. CASE MainCall
    <3>1. ASSUME NEW u \in Tiles, UnloadFarTile(u) PROVE slot'[t] = "loaded"
      BY <2>4, <3>1 DEF UnloadFarTile, IInv, EditsGuarded, Discardable
    <3>2. ASSUME NEW u \in Tiles, ReloadTile(u) PROVE slot'[t] = "loaded"
      BY <2>3, <3>2 DEF ReloadTile
    <3>3. ASSUME NEW u \in Tiles,
                 EnterTile(u) \/ ImportBegin(u) \/ MinimapBegin(u)
          PROVE  slot'[t] = "loaded"
      BY <2>2, <3>3 DEF EnterTile, ImportBegin, MinimapBegin
    <3>4. ASSUME NEW u \in Tiles, ForceBegin(u) PROVE slot'[t] = "loaded"
      BY <2>2, <2>5, <3>4 DEF ForceBegin
    <3>5. ASSUME NEW u \in Tiles,
                 Edit(u) \/ Undo(u) \/ QueueUpdate(u) \/ PlaceObject(u)
          PROVE  slot'[t] = "loaded"
      BY <2>5, <3>5 DEF Edit, Undo, QueueUpdate, PlaceObject
    <3>6. ASSUME NEW s \in Saves, NEW u \in Tiles, SaveBegin(s, u)
          PROVE  slot'[t] = "loaded"
      BY <2>5, <3>6 DEF SaveBegin
    <3>7. ASSUME NEW S \in SUBSET Tiles, BakeBegin(S) PROVE slot'[t] = "loaded"
      BY <2>5, <3>7 DEF BakeBegin
    <3> QED
      BY <2>8, <3>1, <3>2, <3>3, <3>4, <3>5, <3>6, <3>7 DEF MainCall
  <2>9. ASSUME NEW u \in scope, BakeTile(u) PROVE slot'[t] = "loaded"
    BY <2>5, <2>9 DEF BakeTile
  <2>10. CASE MainReturn
    <3>1. CASE Release
      <4>1. target \in Tiles /\ Discardable(target)
        BY <3>1 DEF Release, IInv, OperationInv
      <4> QED
        BY <2>4, <2>5, <3>1, <4>1 DEF Release
    <3>2. CASE MinimapEnd
      <4>1. target \in Tiles /\ (unload => Discardable(target))
        BY <3>2 DEF MinimapEnd, IInv, OperationInv
      <4> QED
        BY <2>4, <2>5, <3>2, <4>1 DEF MinimapEnd
    <3> QED
      BY <2>5, <2>10, <3>1, <3>2
         DEF MainReturn, WaitReturn, SaveFinish, ImportSave, ForceApply,
             MinimapLoaded, BakeEnd
  <2> QED
    BY <2>6, <2>7, <2>8, <2>9, <2>10 DEF Next
<1> QED
  BY <1>1, Invariance, PTL DEF Spec, EditsKept

\* When saveall reports success nothing is left in memory only.
THEOREM SavedIsOnDisk == Spec => SavedMeansOnDisk
<1>1. IInv /\ [Next]_vars =>
        [op = "saveall" /\ op' = "idle" /\ failed' = {} =>
            pending' = <<>> /\ \A t \in Tiles : unsaved'[t] = {}]_vars
  <2> SUFFICES ASSUME IInv, Next, op = "saveall", op' = "idle", failed' = {}
               PROVE  pending' = <<>> /\ \A t \in Tiles : unsaved'[t] = {}
    OBVIOUS
  <2> USE DEF mainVars, queueVars, Goto, Return, Call, Tick
  <2>1. SaveFinish
    <3>1. ASSUME NEW t \in Tiles, FinishLoading(t) PROVE FALSE
      BY <3>1 DEF FinishLoading
    <3>2. ~UpdateThread
      BY DEF UpdateThread, UpdateBegin, UpdateApply
    <3>3. ~MainCall
      BY DEF MainCall, EnterTile, UnloadFarTile, Edit, Undo, QueueUpdate,
             PlaceObject, ReloadTile, ImportBegin, ForceBegin, MinimapBegin, SaveBegin,
             BakeBegin
    <3>4. ASSUME NEW t \in scope, BakeTile(t) PROVE FALSE
      BY <3>4 DEF BakeTile
    <3>5. CASE MainReturn
      BY <3>5 DEF MainReturn, WaitReturn, ImportSave, Release, ForceApply,
                  MinimapLoaded, MinimapEnd, BakeEnd
    <3> QED
      BY <3>1, <3>2, <3>3, <3>4, <3>5 DEF Next
  <2>2. pending' = <<>>
    BY <2>1 DEF SaveFinish
  <2>3. SaveScope = Loaded
    BY DEF SaveScope
  <2>4. PICK bad \in SUBSET Loaded : SaveTiles(Loaded, bad, unsaved)
    BY <2>1, <2>3 DEF SaveFinish
  <2>5. bad = {}
    BY <2>4 DEF SaveTiles
  <2>6. \A t \in Tiles : unsaved'[t] = {}
    BY <2>4, <2>5 DEF SaveTiles, IInv, TypeOK
  <2> QED
    BY <2>2, <2>6
<1> QED
  BY <1>1, Invariance, PTL DEF Spec, SavedMeansOnDisk

\* A tile that is about to be recorded as being on disk has been written, or
\* remembers that it was not.
DiskInv ==
    /\ OnDiscHasFile
    /\ op = "release" => target \in files \cup failed

\* On a map all of whose tiles exist, a tile recorded as being on disk has a
\* file there.
THEOREM OnDiscIsTrue == ASSUME Missing = {} PROVE Spec => []OnDiscHasFile
<1>1. Init => DiskInv
  BY DEF Init, DiskInv, OnDiscHasFile
<1>2. IInv /\ DiskInv /\ [Next]_vars => DiskInv'
  <2> SUFFICES ASSUME IInv, DiskInv, [Next]_vars PROVE DiskInv'
    OBVIOUS
  <2> USE DEF DiskInv, OnDiscHasFile, tileVars, diskVars, mainVars, Goto, Return,
              Call, Tick
  <2>1. CASE UNCHANGED vars
    BY <2>1 DEF vars
  <2>2. ASSUME NEW t \in Tiles, FinishLoading(t) PROVE DiskInv'
    BY <2>2 DEF FinishLoading
  <2>3. CASE UpdateThread
    BY <2>3 DEF UpdateThread, UpdateBegin, UpdateApply
  <2>4. CASE MainCall
    <3>1. ASSUME NEW t \in Tiles, UnloadFarTile(t) PROVE DiskInv'
      BY <3>1 DEF UnloadFarTile
    <3>2. ASSUME NEW t \in Tiles, ReloadTile(t) PROVE DiskInv'
      BY <3>2 DEF ReloadTile
    <3>3. ASSUME NEW t \in Tiles,
                 EnterTile(t) \/ ImportBegin(t) \/ MinimapBegin(t) \/ ForceBegin(t)
          PROVE  DiskInv'
      BY <3>3 DEF EnterTile, ImportBegin, MinimapBegin, ForceBegin
    <3>4. ASSUME NEW t \in Tiles,
                 Edit(t) \/ Undo(t) \/ QueueUpdate(t) \/ PlaceObject(t)
          PROVE  DiskInv'
      BY <3>4 DEF Edit, Undo, QueueUpdate, PlaceObject
    <3>5. ASSUME NEW s \in Saves, NEW t \in Tiles, SaveBegin(s, t) PROVE DiskInv'
      BY <3>5 DEF SaveBegin, Saves
    <3>6. ASSUME NEW S \in SUBSET Tiles, BakeBegin(S) PROVE DiskInv'
      BY <3>6 DEF BakeBegin
    <3> QED
      BY <2>4, <3>1, <3>2, <3>3, <3>4, <3>5, <3>6 DEF MainCall
  <2>5. ASSUME NEW t \in scope, BakeTile(t) PROVE DiskInv'
    BY <2>5 DEF BakeTile
  <2>6. CASE MainReturn
    <3>1. CASE SaveFinish
      BY <3>1 DEF SaveFinish, SaveTiles
    <3>2. CASE ImportSave
      BY <3>2 DEF ImportSave, SaveTiles
    <3>3. CASE ForceApply
      BY <3>3 DEF ForceApply, SaveTiles
    <3>4. CASE Release
      BY <3>4 DEF Release, MarkOnDisc, IInv, OperationInv
    <3> QED
      BY <2>6, <3>1, <3>2, <3>3, <3>4
         DEF MainReturn, WaitReturn, MinimapLoaded, MinimapEnd, BakeEnd
  <2> QED
    BY <2>1, <2>2, <2>3, <2>4, <2>5, <2>6 DEF Next
<1>3. DiskInv => OnDiscHasFile
  BY DEF DiskInv
<1> QED
  BY <1>1, <1>2, <1>3, Invariance, PTL DEF Spec

=============================================================================
