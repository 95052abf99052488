------------------------ MODULE ObjectInstancesProofs ------------------------
(***************************************************************************)
(* What ObjectInstances does for any map, any objects and any calls: its   *)
(* types, its fresh uids, and, of an object that has a uid of its own      *)
(* (Owned) or stands on one tile while nothing is edited (Undisturbed),    *)
(* its count, its one place in the storage and its rows.                   *)
(***************************************************************************)
EXTENDS ObjectInstances, FiniteSetTheorems, FunctionTheorems, TLAPS

\* The greatest of a set of uids is a uid, and none is greater.
LEMMA HighestIsHighest ==
    ASSUME NEW S \in SUBSET Uids, NEW u \in HighestOf(S)
    PROVE  u \in Uids /\ \A v \in S : v <= u
BY BoundsAssumption DEF HighestOf, Uids

\* The objects a fix finds can be numbered from 0 on.
LEMMA NumberingIsThere ==
    ASSUME TypeOK
    PROVE  /\ Found \in SUBSET (Objects \X Places)
           /\ Cardinality(Found) \in Nat
           /\ Numbering \in Injection(Found, 0..(Cardinality(Found) - 1))
<1>1. Found \in SUBSET (Objects \X Places)
  <2>1. Placed \in SUBSET (Objects \X Places)
    BY DEF Placed, TypeOK, Row
  <2> QED
    BY <2>1 DEF Found
<1>2. IsFiniteSet(Found)
  <2>1. IsFiniteSet(Objects \X Places)
    BY FiniteAssumption, FS_Product
  <2> QED
    BY <1>1, <2>1, FS_Subset
<1> DEFINE n == Cardinality(Found)
<1>3. n \in Nat /\ ExistsBijection(1..n, Found)
  BY <1>2, FS_CardinalityType
<1>4. PICK g \in Bijection(1..n, Found) : TRUE
  BY <1>3 DEF ExistsBijection
<1>5. g \in [1..n -> Found] /\ \A f \in Found : \E i \in 1..n : g[i] = f
  <2> HIDE DEF n
  <2> QED
    BY <1>4 DEF Bijection, Surjection, Injection
<1> DEFINE at(f) == CHOOSE i \in 1..n : g[i] = f
<1> DEFINE h == [f \in Found |-> at(f) - 1]
<1>6. \A f \in Found : at(f) \in 1..n /\ g[at(f)] = f
  BY <1>5
<1>7. h \in [Found -> 0..(n - 1)]
  <2> SUFFICES ASSUME NEW f \in Found PROVE at(f) - 1 \in 0..(n - 1)
    OBVIOUS
  <2>1. at(f) \in 1..n
    BY <1>6
  <2> HIDE DEF at, n
  <2> QED
    BY <2>1, <1>3
<1>8. \A a, b \in Found : h[a] = h[b] => a = b
  <2> SUFFICES ASSUME NEW a \in Found, NEW b \in Found, at(a) - 1 = at(b) - 1 PROVE a = b
    OBVIOUS
  <2>1. at(a) \in 1..n /\ g[at(a)] = a /\ at(b) \in 1..n /\ g[at(b)] = b
    BY <1>6
  <2> HIDE DEF at, n
  <2> QED
    BY <2>1, <1>3
<1>9. h \in Injection(Found, 0..(n - 1))
  <2> HIDE DEF h, n
  <2> QED
    BY <1>7, <1>8 DEF Injection, IsInjective
<1> QED
  BY <1>1, <1>3, <1>9 DEF Numbering

\* What the uid check and a uid fix start from.
LEMMA FixedIsTyped ==
    ASSUME TypeOK, Cardinality(Found) <= MaxUid, NEW t \in Tiles
    PROVE  /\ FixedRows(t) \in SUBSET Row
           /\ \A r \in FixedRows(t) : r.uid < Cardinality(Found)
<1>1. /\ Found \in SUBSET (Objects \X Places) /\ Cardinality(Found) \in Nat
      /\ Numbering \in [Found -> 0..(Cardinality(Found) - 1)]
  BY NumberingIsThere DEF Injection
<1> DEFINE n == Cardinality(Found)
<1>2. \A f \in Found : Numbering[f] \in Uids /\ Numbering[f] < n
  <2> HIDE DEF n
  <2> SUFFICES ASSUME NEW f \in Found PROVE Numbering[f] \in Uids /\ Numbering[f] < n
    OBVIOUS
  <2>1. Numbering[f] \in 0..(n - 1) /\ n \in Nat /\ n <= MaxUid
    BY <1>1 DEF n
  <2> QED
    BY BoundsAssumption, <2>1 DEF Uids
<1>3. \A f \in Found : f[1] \in Objects /\ f[2] \in Places
  BY <1>1
<1> QED
  BY <1>2, <1>3 DEF FixedRows, Row

-----------------------------------------------------------------------------
\* Types

LEMMA InitTypes == Init => TypeOK
<1> SUFFICES ASSUME Init PROVE TypeOK
  OBVIOUS
<1>1. {r.uid : r \in FirstRows} \in SUBSET Uids /\ 0 \in Uids
  BY ObjectsAssumption, BoundsAssumption DEF Row, Uids
<1>2. highest \in Uids
  BY <1>1, HighestIsHighest DEF Init
<1>3. queue \in Seq(Updates)
  BY DEF Init
<1>4. past \in [Objects -> Pasts] /\ rows \in [Tiles -> SUBSET Row] /\ edits \in Nat
  BY ObjectsAssumption DEF Init, Pasts
<1> QED
  BY <1>2, <1>3, <1>4 DEF Init, TypeOK, Ops

\* The updates that are queued are updates.
LEMMA UpdateTyped ==
    ASSUME NEW u \in Uids, NEW p \in Places, NEW type \in {"add", "remove"}, NEW edit \in BOOLEAN
    PROVE  Update(type, u, p, edit) \in Updates
BY PlacesAssumption DEF Update, Updates

LEMMA Queued ==
    ASSUME TypeOK, NEW x \in Updates
    PROVE  Append(queue, x) \in Seq(Updates) /\ <<x>> \in Seq(Updates)
BY DEF TypeOK

\* Emptying the memory keeps the types of what it empties.
LEMMA Emptied ==
    ASSUME EmptyMemory, rows' \in [Tiles -> SUBSET Row], highest' \in Uids, storedMax' \in Uids,
           edits' \in Nat, past' \in [Objects -> Pasts]
    PROVE  TypeOK'
BY DEF EmptyMemory, TypeOK, Ops

LEMMA UnsettledTyped == TypeOK => Unsettled \in [Objects -> Pasts]
BY DEF TypeOK, Unsettled, Pasts

LEMMA StoreRowTypes ==
    ASSUME TypeOK, NEW t \in Tiles, StoreRow(t)
    PROVE  TypeOK'
<1>1. PICK r \in todo[t], u \in Uids : StoreRow(t)!(r, u)
  BY DEF StoreRow
<1>2. r \in Row
  BY DEF TypeOK
<1>3. inst' \in [Uids -> Instance \cup {None}] /\ inst'[u] \in Instance
  BY <1>1, <1>2 DEF TypeOK, Instance, Row
<1>4. count' \in [Uids -> Nat] /\ \A v \in Uids : count'[v] = 0 <=> inst'[v] = None
  BY ObjectsAssumption, <1>1, <1>2, <1>3 DEF TypeOK
<1>5. queue' \in Seq(Updates)
  <2> DEFINE x == Update("add", u, inst'[u].place, FALSE)
  <2>1. x \in Updates
    BY <1>3, UpdateTyped DEF Instance
  <2>2. queue' = Append(queue, x) \/ queue' = queue
    BY <1>1
  <2>3. queue \in Seq(Updates)
    BY DEF TypeOK
  <2> HIDE DEF x
  <2> QED
    BY <2>1, <2>2, <2>3
<1>6. uids' \in [Tiles -> SUBSET Uids] /\ todo' \in [Tiles -> SUBSET Row]
  BY <1>1 DEF TypeOK
<1>7. \A s \in Tiles : /\ tile'[s] = "absent" => uids'[s] = {}
                       /\ tile'[s] \in {"absent", "loaded"} => todo'[s] = {}
  BY <1>1 DEF TypeOK
<1>8. op' # None => inst'[op'.uid] # None
  BY <1>1, <1>3 DEF TypeOK, Ops
<1> QED
  BY <1>1, <1>3, <1>4, <1>5, <1>6, <1>7, <1>8 DEF TypeOK, disk

LEMMA ApplyTypes ==
    ASSUME TypeOK, NEW t \in Tiles, ApplyUpdate(t)
    PROVE  TypeOK'
<1> DEFINE e == Head(queue)
<1>1. queue \in Seq(Updates) /\ queue # <<>>
  BY DEF TypeOK, ApplyUpdate
<1>2. e \in Updates
  BY <1>1
<1>3. uids' \in [Tiles -> SUBSET Uids]
  <2>1. e.uid \in Uids /\ uids \in [Tiles -> SUBSET Uids]
    BY <1>2 DEF TypeOK, Updates
  <2>2. \/ uids' = [uids EXCEPT ![t] = @ \cup {e.uid}]
        \/ uids' = [uids EXCEPT ![t] = @ \ {e.uid}]
        \/ uids' = uids
    BY DEF ApplyUpdate
  <2> QED
    BY <2>1, <2>2
<1>4. queue' \in Seq(Updates)
  <2>1. [e EXCEPT !.left = e.left \ {t}] \in Updates
    BY <1>2 DEF Updates
  <2>2. Tail(queue) \in Seq(Updates)
    BY <1>1
  <2>3. <<[e EXCEPT !.left = e.left \ {t}]>> \o Tail(queue) \in Seq(Updates)
    BY <2>1, <2>2
  <2> QED
    BY <2>2, <2>3 DEF ApplyUpdate
<1>5. changed' \subseteq {s \in Tiles : tile'[s] = "loaded"}
  BY DEF TypeOK, ApplyUpdate
<1>6. \A s \in Tiles : tile'[s] = "absent" => uids'[s] = {}
  BY DEF TypeOK, ApplyUpdate
<1> QED
  BY <1>3, <1>4, <1>5, <1>6 DEF TypeOK, ApplyUpdate, disk

\* Counting down keeps the counts and the instances together.
LEMMA ReleaseTypes ==
    ASSUME TypeOK, NEW S \in SUBSET Uids, Release(S)
    PROVE  /\ inst' \in [Uids -> Instance \cup {None}]
           /\ count' \in [Uids -> Nat]
           /\ \A u \in Uids : count'[u] = 0 <=> inst'[u] = None
<1>1. \A u \in Uids : /\ count[u] \in Nat
                      /\ count[u] = 0 <=> inst[u] = None
                      /\ inst[u] \in Instance \cup {None}
  BY DEF TypeOK
<1>2. count' \in [Uids -> Nat]
  BY <1>1 DEF Release
<1> QED
  BY <1>1, <1>2 DEF Release

LEMMA UnloadTypes ==
    ASSUME TypeOK, NEW t \in Tiles, Unload(t) \/ Reload(t)
    PROVE  TypeOK'
<1>1. /\ inst' \in [Uids -> Instance \cup {None}]
      /\ count' \in [Uids -> Nat]
      /\ \A u \in Uids : count'[u] = 0 <=> inst'[u] = None
  BY ReleaseTypes DEF Unload, Reload, TypeOK
<1>2. CASE Unload(t)
  BY <1>1, <1>2 DEF TypeOK, Unload, disk
<1>3. CASE Reload(t)
  <2>1. past' \in [Objects -> Pasts]
    BY <1>3, UnsettledTyped DEF Reload
  <2>2. edits' \in Nat
    BY <1>3 DEF Reload, TypeOK
  <2>3. todo' \in [Tiles -> SUBSET Row] /\ uids' \in [Tiles -> SUBSET Uids]
    BY <1>3 DEF Reload, TypeOK
  <2>4. tile' \in [Tiles -> {"absent", "loading", "reloading", "loaded"}]
    BY <1>3 DEF Reload, TypeOK
  <2>5. op = None /\ op' = None /\ queue' \in Seq(Updates) /\ changed' \subseteq changed \ {t}
    BY <1>3 DEF Reload, TypeOK, MayEdit
  <2>6. \A s \in Tiles : /\ tile'[s] = "absent" => uids'[s] = {}
                         /\ tile'[s] \in {"absent", "loaded"} => todo'[s] = {}
                         /\ s \in changed' => tile'[s] = "loaded"
    BY <1>3, <2>5 DEF Reload, TypeOK
  <2> QED
    BY <1>1, <1>3, <2>1, <2>2, <2>3, <2>4, <2>5, <2>6 DEF TypeOK, Reload, disk
<1> QED
  BY <1>2, <1>3

\* What an edit of the user does to the history of an object.
LEMMA MovesOnTyped == TypeOK => \A o \in Objects : MovesOn(o) \in [Objects -> Pasts]
BY DEF TypeOK, MovesOn, Pasts

LEMMA TransformedTyped ==
    ASSUME TypeOK, NEW u \in Uids, inst[u] # None
    PROVE  Transformed(u) \in Instance /\ Transformed(u) # None /\ inst[u] \in Instance
<1>1. inst[u] \in Instance
  BY DEF TypeOK
<1>2. Transformed(u) \in Instance
  BY <1>1 DEF Transformed, Instance
<1> QED
  BY ObjectsAssumption, <1>1, <1>2

LEMMA MoveTypes ==
    ASSUME TypeOK, NEW u \in Uids, NEW p \in Places, MoveBegin(u, p) \/ Snap(u, p)
    PROVE  TypeOK'
<1>1. inst[u] # None /\ op = None
  BY DEF MoveBegin, Snap, Visible, MayEdit
<1>2. Transformed(u) \in Instance /\ inst[u] \in Instance
  BY <1>1, TransformedTyped
<1>3. past' \in [Objects -> Pasts]
  <2>1. past' = MovesOn(inst[u].obj)
    BY DEF MoveBegin, Snap
  <2>2. inst[u].obj \in Objects
    BY <1>2 DEF Instance
  <2> QED
    BY <2>1, <2>2, MovesOnTyped
<1>4. edits' \in Nat
  <2>1. edits' = edits + 1 /\ edits \in Nat
    BY DEF MoveBegin, Snap, TypeOK
  <2> QED
    BY <2>1
<1>5. CASE MoveBegin(u, p)
  <2>1. Update("remove", u, inst[u].place, TRUE) \in Updates
    BY <1>2, UpdateTyped DEF Instance
  <2>2. queue' \in Seq(Updates)
    BY <1>5, <2>1, Queued DEF MoveBegin
  <2>3. inst' \in [Uids -> Instance \cup {None}] /\ inst'[u] # None
        /\ \A v \in Uids : inst'[v] = None <=> inst[v] = None
    BY ObjectsAssumption, <1>1, <1>2, <1>5 DEF MoveBegin, TypeOK
  <2>4. op' \in Ops /\ op'.uid = u
    BY <1>5 DEF MoveBegin, Ops
  <2> QED
    BY <1>3, <1>4, <1>5, <2>2, <2>3, <2>4 DEF MoveBegin, TypeOK, disk
<1>6. CASE Snap(u, p)
  <2>1. Update("add", u, p, TRUE) \in Updates
    BY UpdateTyped
  <2>2. queue' \in Seq(Updates)
    BY <1>6, <2>1, Queued DEF Snap
  <2>3. [Transformed(u) EXCEPT !.place = p] \in Instance
    BY <1>2 DEF Instance
  <2>4. inst' \in [Uids -> Instance \cup {None}]
        /\ \A v \in Uids : inst'[v] = None <=> inst[v] = None
    BY ObjectsAssumption, <1>1, <1>6, <2>3 DEF Snap, TypeOK
  <2> QED
    BY <1>1, <1>3, <1>4, <1>6, <2>2, <2>4 DEF Snap, TypeOK, disk
<1> QED
  BY <1>5, <1>6

LEMMA MoveEndTypes ==
    ASSUME TypeOK, MoveEnd
    PROVE  TypeOK'
<1>1. op.uid \in Uids /\ op.place \in Places /\ inst[op.uid] # None
  BY DEF MoveEnd, TypeOK, Ops
<1>2. inst[op.uid] \in Instance
  BY <1>1 DEF TypeOK
<1>3. [inst[op.uid] EXCEPT !.place = op.place] \in Instance
  BY <1>1, <1>2 DEF Instance
<1>4. inst' \in [Uids -> Instance \cup {None}]
      /\ \A v \in Uids : inst'[v] = None <=> inst[v] = None
  BY ObjectsAssumption, <1>1, <1>3 DEF MoveEnd, TypeOK
<1>5. queue' \in Seq(Updates)
  <2>1. Update("add", op.uid, op.place, TRUE) \in Updates
    BY <1>1, UpdateTyped
  <2> QED
    BY <2>1, Queued DEF MoveEnd
<1> QED
  BY <1>4, <1>5 DEF MoveEnd, TypeOK, Ops, disk

LEMMA PlaceTypes ==
    ASSUME TypeOK, NEW o \in Objects, NEW p \in Places, Place(o, p)
    PROVE  TypeOK'
<1>1. PICK u \in Uids : /\ u > highest /\ inst[u] = None
                        /\ inst' = [inst EXCEPT ![u] = [obj |-> o, place |-> p, home |-> None]]
                        /\ count' = [count EXCEPT ![u] = 1]
                        /\ highest' = u
                        /\ queue' = Append(queue, Update("add", u, p, FALSE))
  BY DEF Place
<1>2. [obj |-> o, place |-> p, home |-> None] \in Instance
  BY DEF Instance
<1>3. inst' \in [Uids -> Instance \cup {None}] /\ count' \in [Uids -> Nat]
      /\ \A v \in Uids : count'[v] = 0 <=> inst'[v] = None
  BY ObjectsAssumption, <1>1, <1>2 DEF TypeOK
<1>4. queue' \in Seq(Updates)
  <2>1. Update("add", u, p, FALSE) \in Updates
    BY UpdateTyped
  <2> QED
    BY <1>1, <2>1, Queued
<1>5. op = None /\ op' = None /\ edits' \in Nat /\ past' \in [Objects -> Pasts]
  BY DEF Place, MayEdit, TypeOK, Pasts
<1> QED
  BY <1>1, <1>3, <1>4, <1>5 DEF Place, TypeOK, disk

LEMMA DeleteTypes ==
    ASSUME TypeOK, (\E u \in Uids : DeleteBegin(u)) \/ DeleteEnd
    PROVE  TypeOK'
<1>1. ASSUME NEW u \in Uids, DeleteBegin(u)
      PROVE  TypeOK'
  <2>1. inst[u] \in Instance /\ inst[u] # None
    BY <1>1 DEF DeleteBegin, Visible, TypeOK
  <2>2. queue' \in Seq(Updates)
    <3>1. Update("remove", u, inst[u].place, TRUE) \in Updates
      BY <2>1, UpdateTyped DEF Instance
    <3> QED
      BY <1>1, <3>1, Queued DEF DeleteBegin
  <2>3. op' \in Ops /\ op'.uid = u
    <3>1. op' = [name |-> "delete", uid |-> u, place |-> inst[u].place] /\ inst[u].place \in Places
      BY <1>1, <2>1 DEF DeleteBegin, Instance
    <3> QED
      BY <3>1 DEF Ops
  <2>4. edits' \in Nat /\ past' \in [Objects -> Pasts]
    <3>1. edits' = edits + 1 /\ edits \in Nat
      BY <1>1 DEF DeleteBegin, TypeOK
    <3>2. past' = [past EXCEPT ![inst[u].obj] = "other"] /\ past \in [Objects -> Pasts]
      BY <1>1 DEF DeleteBegin, TypeOK
    <3>3. edits' \in Nat
      BY <3>1
    <3>4. past' \in [Objects -> Pasts]
      BY <3>2 DEF Pasts
    <3> QED
      BY <3>3, <3>4
  <2> QED
    BY <1>1, <2>1, <2>2, <2>3, <2>4 DEF DeleteBegin, TypeOK, disk
<1>2. ASSUME DeleteEnd
      PROVE  TypeOK'
  BY <1>2 DEF DeleteEnd, TypeOK, Ops, disk
<1> QED
  BY <1>1, <1>2

LEMMA WrittenTyped ==
    TypeOK => \A S \in SUBSET Tiles : Written(S) \in [Tiles -> SUBSET Row]
<1> SUFFICES ASSUME TypeOK, NEW S \in SUBSET Tiles, NEW t \in Tiles
             PROVE  SavedRows(t) \in SUBSET Row /\ rows[t] \in SUBSET Row
  BY DEF Written
<1> QED
  BY DEF TypeOK, SavedRows, Instance, Row

LEMMA SaveTypes ==
    ASSUME TypeOK,
           SaveAll \/ SaveChanged \/ \E t \in Tiles : SaveTile(t) \/ Import(t)
    PROVE  TypeOK'
<1>1. rows' \in [Tiles -> SUBSET Row]
  <2>1. \E S \in SUBSET Tiles : rows' = Written(S)
    BY DEF SaveAll, SaveChanged, SaveTile, Import, LoadedTiles
  <2> QED
    BY <2>1, WrittenTyped
<1>2. past' \in [Objects -> Pasts]
  <2>1. past' = past \/ past' = Unsettled
    BY DEF SaveAll, SaveChanged, SaveTile, Import
  <2> QED
    BY <2>1, UnsettledTyped DEF TypeOK
<1>3. changed' \subseteq changed /\ storedMax' \in Uids
  BY DEF SaveAll, SaveChanged, SaveTile, Import, TypeOK, memory
<1>4. UNCHANGED <<inst, count, tile, todo, uids, queue, op, highest, edits>>
  BY DEF SaveAll, SaveChanged, SaveTile, Import, memory
<1> QED
  BY <1>1, <1>2, <1>3, <1>4 DEF TypeOK, Ops

LEMMA RowUidsTyped ==
    \A r : r \in [Tiles -> SUBSET Row] => RowUids(r) \in SUBSET Uids
BY DEF RowUids, Row

LEMMA StartTypes ==
    ASSUME TypeOK, Start
    PROVE  TypeOK'
<1>1. highest' \in Uids
  BY RowUidsTyped, HighestIsHighest DEF Start, TypeOK
<1> QED
  BY <1>1, Emptied, UnsettledTyped DEF Start, TypeOK

LEMMA FixTypes ==
    ASSUME TypeOK, FixUIDs
    PROVE  TypeOK'
<1>1. PICK S \in SUBSET Tiles : FixUIDs!(S)
  BY DEF FixUIDs
<1>2. rows' \in [Tiles -> SUBSET Row]
  BY <1>1, FixedIsTyped DEF TypeOK
<1>3. highest' \in Uids
  <2>1. CASE S = Tiles
    BY <1>1, <2>1, NumberingIsThere DEF Uids
  <2>2. CASE S # Tiles
    BY <1>1, <1>2, <2>2, RowUidsTyped, HighestIsHighest
  <2> QED
    BY <2>1, <2>2
<1>4. past' \in [Objects -> Pasts]
  <2>1. \A o \in Objects : Unsettled[o] \in Pasts
    BY UnsettledTyped
  <2> QED
    BY <1>1, <2>1 DEF Pasts
<1> QED
  BY <1>1, <1>2, <1>3, <1>4, Emptied DEF TypeOK

LEMMA StepTypes == TypeOK /\ [Next]_vars => TypeOK'
<1> SUFFICES ASSUME TypeOK, [Next]_vars
             PROVE  TypeOK'
  OBVIOUS
<1>1. ASSUME NEW t \in Tiles, OnTile(t)
      PROVE  TypeOK'
  <2>1. CASE Load(t)
    BY <2>1 DEF Load, TypeOK, disk
  <2>2. CASE FinishTile(t)
    BY <2>2 DEF FinishTile, TypeOK, disk
  <2> QED
    BY <1>1, <2>1, <2>2, StoreRowTypes, ApplyTypes, UnloadTypes, SaveTypes DEF OnTile
<1>2. CASE OnObject
  BY <1>2, MoveTypes, MoveEndTypes, PlaceTypes, DeleteTypes DEF OnObject
<1>3. CASE SaveAll \/ SaveChanged
  BY <1>3, SaveTypes
<1>4. CASE Start \/ FixUIDs
  BY <1>4, StartTypes, FixTypes
<1>5. CASE UNCHANGED vars
  BY <1>5 DEF vars, memory, disk, TypeOK
<1> QED
  BY <1>1, <1>2, <1>3, <1>4, <1>5 DEF Next

\* Every variable keeps its type, for any map, uids, objects and calls; a uid
\* is counted exactly while the storage has it, and the object that a move or
\* a deletion waits for stays stored.
THEOREM TypeCorrect == Spec => []TypeOK
<1>1. Init => TypeOK
  BY InitTypes
<1>2. TypeOK /\ [Next]_vars => TypeOK'
  BY StepTypes
<1> QED
  BY <1>1, <1>2, PTL DEF Spec

-----------------------------------------------------------------------------
\* Fresh uids

LEMMA InitBelow == Init => UidsBelowHighest
<1> SUFFICES ASSUME Init PROVE UidsBelowHighest
  OBVIOUS
<1>1. {r.uid : r \in FirstRows} \in SUBSET Uids
  BY ObjectsAssumption DEF Row
<1>2. highest \in Uids /\ \A r \in FirstRows : r.uid <= highest
  BY <1>1, HighestIsHighest DEF Init
<1>3. \A t \in Tiles : rows[t] \subseteq FirstRows /\ todo[t] = {}
  BY DEF Init
<1>4. storedMax <= highest
  BY <1>2 DEF Init, Uids
<1>5. \A u \in Uids : inst[u] = None
  BY DEF Init
<1> QED
  BY <1>2, <1>3, <1>4, <1>5 DEF UidsBelowHighest

\* A step that stores nothing new and loads or writes nothing above the
\* highest uid.
LEMMA BelowKept ==
    ASSUME TypeOK, UidsBelowHighest, highest' = highest \/ (highest' \in Uids /\ highest' > highest),
           storedMax' = storedMax \/ storedMax' = highest,
           \A u \in Uids : inst'[u] # None => inst[u] # None \/ u <= highest',
           \A t \in Tiles : \A r \in rows'[t] \cup todo'[t] :
               r \in rows[t] \cup todo[t] \/ r.uid \in {u \in Uids : inst[u] # None}
    PROVE  UidsBelowHighest'
<1> SUFFICES ASSUME StartupCheck PROVE UidsBelowHighest'
  BY DEF UidsBelowHighest
<1>1. /\ highest \in Nat /\ highest' \in Nat /\ highest <= highest' /\ storedMax \in Nat
      /\ \A u \in Uids : u \in Nat
  BY DEF TypeOK, Uids
<1>2. \A u \in Uids : inst'[u] # None => u <= highest'
  BY <1>1 DEF UidsBelowHighest
<1>3. \A t \in Tiles : \A r \in rows'[t] \cup todo'[t] : r.uid <= highest'
  <2> SUFFICES ASSUME NEW t \in Tiles, NEW r \in rows'[t] \cup todo'[t] PROVE r.uid <= highest'
    OBVIOUS
  <2>1. r.uid <= highest
    BY DEF UidsBelowHighest
  <2>2. r.uid \in Uids
    <3>1. \A q \in rows[t] \cup todo[t] : q.uid \in Uids
      BY DEF TypeOK, Row
    <3> QED
      BY <3>1
  <2> QED
    BY <1>1, <2>1, <2>2
<1>4. storedMax' <= highest'
  BY <1>1 DEF UidsBelowHighest
<1> QED
  BY <1>2, <1>3, <1>4 DEF UidsBelowHighest

\* The rows a save writes have uids that are stored.
LEMMA WrittenAreStored ==
    \A S \in SUBSET Tiles, t \in Tiles : \A r \in Written(S)[t] :
        r \in rows[t] \/ r.uid \in {u \in uids[t] : inst[u] # None}
BY DEF Written, SavedRows

LEMMA StepBelow == TypeOK /\ TypeOK' /\ UidsBelowHighest /\ [Next]_vars => UidsBelowHighest'
<1> SUFFICES ASSUME TypeOK, TypeOK', UidsBelowHighest, [Next]_vars
             PROVE  UidsBelowHighest'
  OBVIOUS
<1>1. ASSUME NEW t \in Tiles, StoreRow(t)
      PROVE  UidsBelowHighest'
  <2>1. PICK r \in todo[t], u \in Uids : StoreRow(t)!(r, u)
    BY <1>1 DEF StoreRow
  <2>2. \A s \in Tiles : rows'[s] \cup todo'[s] \subseteq rows[s] \cup todo[s]
    BY <2>1 DEF TypeOK, disk
  <2>3. StartupCheck => u <= highest'
    <3>1. StartupCheck => r.uid <= highest
      BY DEF UidsBelowHighest
    <3> QED
      BY <2>1, <3>1 DEF TypeOK, Uids
  <2>4. highest' = highest \/ (highest' \in Uids /\ highest' > highest)
    BY <2>1 DEF StoresAs, FreshUids
  <2>5. \A v \in Uids : inst'[v] # None => inst[v] # None \/ v = u
    BY <2>1 DEF TypeOK
  <2>6. CASE StartupCheck
    BY <2>1, <2>2, <2>3, <2>4, <2>5, <2>6, BelowKept DEF disk
  <2> QED
    BY <2>6 DEF UidsBelowHighest
<1>2. ASSUME NEW o \in Objects, NEW p \in Places, Place(o, p)
      PROVE  UidsBelowHighest'
  <2>1. PICK u \in Uids : u > highest /\ highest' = u /\ \E i : inst' = [inst EXCEPT ![u] = i]
    BY <1>2 DEF Place
  <2>2. \A v \in Uids : inst'[v] # None => inst[v] # None \/ v <= highest'
    BY <2>1 DEF TypeOK, Uids
  <2>3. UNCHANGED <<rows, todo, storedMax>>
    BY <1>2 DEF Place, disk
  <2> QED
    BY <2>1, <2>2, <2>3, BelowKept
<1>3. ASSUME SaveAll \/ SaveChanged \/ \E t \in Tiles : SaveTile(t) \/ Import(t)
      PROVE  UidsBelowHighest'
  <2>1. \E S \in SUBSET Tiles : rows' = Written(S)
    BY <1>3 DEF SaveAll, SaveChanged, SaveTile, Import, LoadedTiles
  <2>2. UNCHANGED <<inst, todo, highest>> /\ (storedMax' = storedMax \/ storedMax' = highest)
    BY <1>3 DEF SaveAll, SaveChanged, SaveTile, Import, memory
  <2>3. \A s \in Tiles : \A r \in rows'[s] \cup todo'[s] :
            r \in rows[s] \cup todo[s] \/ r.uid \in {u \in Uids : inst[u] # None}
    BY <2>1, <2>2, WrittenAreStored DEF TypeOK
  <2> QED
    BY <2>2, <2>3, BelowKept
<1>4. ASSUME Start \/ FixUIDs
      PROVE  UidsBelowHighest'
  <2>1. /\ \A u \in Uids : inst'[u] = None
        /\ \A t \in Tiles : todo'[t] = {}
        /\ storedMax' = highest'
    BY <1>4 DEF Start, FixUIDs, EmptyMemory
  <2>2. ASSUME StartupCheck, NEW t \in Tiles, NEW r \in rows'[t]
        PROVE  r.uid <= highest'
    <3>1. r.uid \in RowUids(rows') /\ RowUids(rows') \in SUBSET Uids
      <4>1. rows' \in [Tiles -> SUBSET Row]
        BY DEF TypeOK
      <4>2. RowUids(rows') \in SUBSET Uids
        BY <4>1, RowUidsTyped
      <4>3. r.uid \in RowUids(rows')
        BY <2>2 DEF RowUids
      <4> QED
        BY <4>2, <4>3
    <3>2. CASE highest' \in HighestOf(RowUids(rows'))
      BY <3>1, <3>2, HighestIsHighest
    <3>3. CASE /\ rows'[t] = FixedRows(t) /\ highest' = Cardinality(Found)
               /\ Cardinality(Found) <= MaxUid
      <4>1. Cardinality(Found) \in Nat /\ r.uid < Cardinality(Found) /\ r \in Row
        BY <3>3, FixedIsTyped, NumberingIsThere
      <4> QED
        BY <3>3, <4>1 DEF Row, Uids
    <3>4. CASE Start
      BY <2>2, <3>2, <3>4 DEF Start
    <3>5. CASE FixUIDs
      BY <3>2, <3>3, <3>5 DEF FixUIDs
    <3> QED
      BY <1>4, <3>4, <3>5
  <2>3. storedMax' <= highest'
    BY <2>1 DEF TypeOK, Uids
  <2> QED
    BY <2>1, <2>2, <2>3 DEF UidsBelowHighest
<1>5. ASSUME NEW t \in Tiles, OnTile(t), ~ StoreRow(t), ~ SaveTile(t), ~ Import(t)
      PROVE  UidsBelowHighest'
  <2>1. UNCHANGED <<highest, storedMax, rows>>
    BY <1>5 DEF OnTile, Load, FinishTile, ApplyUpdate, Unload, Reload, disk
  <2>2. \A s \in Tiles : todo'[s] \subseteq rows[s] \cup todo[s]
    <3>1. todo' = todo \/ todo' = [todo EXCEPT ![t] = rows[t]]
      BY <1>5 DEF OnTile, Load, FinishTile, ApplyUpdate, Unload, Reload
    <3>2. todo \in [Tiles -> SUBSET Row]
      BY DEF TypeOK
    <3> QED
      BY <3>1, <3>2
  <2>3. \A u \in Uids : inst'[u] # None => inst[u] # None
    BY <1>5 DEF OnTile, Load, FinishTile, ApplyUpdate, Unload, Reload, Release
  <2> QED
    BY <2>1, <2>2, <2>3, BelowKept
<1>6. ASSUME OnObject, \A o \in Objects, p \in Places : ~ Place(o, p)
      PROVE  UidsBelowHighest'
  <2>1. UNCHANGED <<highest, storedMax, rows, todo>>
    BY <1>6 DEF OnObject, MoveBegin, MoveEnd, Snap, DeleteBegin, DeleteEnd, disk
  <2>2. \A u \in Uids : inst'[u] # None => inst[u] # None
    <3>1. CASE \E u \in Uids, p \in Places : MoveBegin(u, p) \/ Snap(u, p)
      <4>1. PICK u \in Uids : inst[u] # None /\ \E i : inst' = [inst EXCEPT ![u] = i]
        <5>1. ASSUME NEW u \in Uids, NEW p \in Places, MoveBegin(u, p)
              PROVE  inst[u] # None /\ \E i : inst' = [inst EXCEPT ![u] = i]
          BY <5>1 DEF MoveBegin, Visible
        <5>2. ASSUME NEW u \in Uids, NEW p \in Places, Snap(u, p)
              PROVE  inst[u] # None /\ \E i : inst' = [inst EXCEPT ![u] = i]
          BY <5>2 DEF Snap, Visible
        <5> QED
          BY <3>1, <5>1, <5>2
      <4> QED
        BY <4>1 DEF TypeOK
    <3>2. CASE MoveEnd
      BY <3>2 DEF MoveEnd, TypeOK
    <3>3. CASE (\E u \in Uids : DeleteBegin(u)) \/ DeleteEnd
      BY <3>3 DEF DeleteBegin, DeleteEnd, TypeOK
    <3> QED
      BY <1>6, <3>1, <3>2, <3>3 DEF OnObject
  <2> QED
    BY <2>1, <2>2, BelowKept
<1>7. CASE UNCHANGED vars
  BY <1>7 DEF vars, memory, disk, UidsBelowHighest
<1> QED
  BY <1>1, <1>2, <1>3, <1>4, <1>5, <1>6, <1>7 DEF Next

\* While the uids are searched at every start, newGUID gives out uids that
\* nothing in memory and nothing on disk has.
THEOREM UidsAreFresh == Spec => []UidsBelowHighest
<1>1. Init => UidsBelowHighest
  BY InitBelow
<1>2. TypeOK /\ TypeOK' /\ UidsBelowHighest /\ [Next]_vars => UidsBelowHighest'
  BY StepBelow
<1> QED
  BY <1>1, <1>2, TypeCorrect, PTL DEF Spec

-----------------------------------------------------------------------------
\* Objects that share their uid with none
\*
\* CountIsListed, StoredOnce and NothingIsLost are not inductive: whether a
\* row of an object is taken for the object depends on the rows of all its
\* tiles, on what the queue has yet to do and on the marks of unsaved edits.
\* Owned says what holds of an object that has a uid of its own, as long as it
\* was moved at most once; Undisturbed, below, what holds of any object of one
\* tile as long as nothing was edited.

\* The rows that wait to be handed over are the tile's, and only objects of the
\* map have a past.
WaitingRows == \A t \in Tiles : todo[t] \subseteq rows[t]
PastIsFirst == \A o \in Objects : past[o] # "other" => \E f \in FirstRows : f.obj = o

RowOf(f, w) == [uid |-> w, obj |-> f.obj, place |-> f.place]
Listing(u) == {t \in Tiles : u \in uids[t]}
Awaited(w, t) == \E e \in Range(queue) : e.uid = w /\ e.edit /\ t \in e.left

\* The uid w is the object's and no other's.
Owns(f, w) ==
    /\ \A t \in Tiles : \A r \in rows[t] : r.uid = w <=> r.obj = f.obj
    /\ \A u \in Uids : inst[u] # None => (inst[u].obj = f.obj <=> u = w)

\* Nobody moved the object: its rows are as the map has them, and a tile lists
\* it from when its row was handed over until the tile goes.
AsOnDisk(f, w) ==
    /\ \A t \in Tiles : RowOf(f, w) \in rows[t] <=> t \in Touch[f.place]
    /\ \A t \in Tiles : \A r \in rows[t] : r.obj = f.obj => r.place = f.place
    /\ inst[w] # None => inst[w] = [obj |-> f.obj, place |-> f.place, home |-> None]
    /\ \A t \in Tiles : w \in uids[t] <=>
           t \in Touch[f.place] /\ tile[t] # "absent" /\ RowOf(f, w) \notin todo[t]
    /\ Listing(w) # {} => inst[w] # None
    /\ count[w] = Cardinality(Listing(w))
    /\ \A e \in Range(queue) : e.uid = w => e.type = "add" /\ e.left \subseteq Touch[f.place]
    /\ op # None => op.uid # w

\* It was moved to p, and no tile was saved since: every tile it was on is
\* marked or will be.
Moving(f, w, p) ==
    /\ \A t \in Tiles : \A r \in rows[t] :
           r.obj = f.obj => r.place = f.place /\ t \in Touch[f.place]
    /\ inst[w] # None =>
           inst[w].place = f.place \/ (inst[w].place = p /\ inst[w].home = f.place)
    /\ op # None /\ op.uid = w => op.name = "move" /\ op.place = p /\ inst[w].home = f.place
    /\ \A t \in Touch[f.place] : t \in changed \/ Awaited(w, t)

\* The move was saved on some tiles: where it was not, the mark is left.
MoveSaved(f, w, p) ==
    /\ \A t \in Tiles : \A r \in rows[t] :
           r.obj = f.obj => r.place = p \/ (r.place = f.place /\ t \in changed)
    /\ inst[w] # None => inst[w].place = p
    /\ op # None => op.uid # w

\* The tiles went before the move was saved: the object is where it was.
MoveDropped(f, w) ==
    /\ \A t \in Tiles : \A r \in rows[t] : r.obj = f.obj => r.place = f.place
    /\ inst[w] # None => inst[w].place = f.place
    /\ op # None => op.uid # w

Moved(f, w) == \/ \E p \in Places : Moving(f, w, p) \/ MoveSaved(f, w, p)
               \/ MoveDropped(f, w)
OwnedAs(f, w) ==
    /\ w <= highest
    /\ Owns(f, w)
    /\ past[f.obj] = "asOnDisk" => AsOnDisk(f, w)
    /\ past[f.obj] = "moved" => Moved(f, w)
Owned ==
    StartupCheck =>
        \A f \in FirstRows : f.obj \notin Clashing /\ past[f.obj] # "other" =>
            \E w \in Uids : OwnedAs(f, w)

-----------------------------------------------------------------------------
\* Objects that share their uid, while nothing is edited

Paired(u, o) == \/ \E t \in Tiles : \E r \in rows[t] : r.uid = u /\ r.obj = o
                \/ inst[u] # None /\ inst[u].obj = o
Contested(u) == \E o, m \in Objects : o # m /\ Paired(u, o) /\ Paired(u, m)
AtHome(o, p) == \E f \in FirstRows : f.obj = o /\ f.place = p

\* What has been stored, listed and queued has been counted before.
NumbersBelow ==
    /\ \A t \in Tiles : \A u \in uids[t] : u <= highest
    /\ \A e \in Range(queue) : e.uid <= highest

\* Nothing waits but the addition of objects that were renumbered, each to
\* tiles of all the objects that have its uid; and a uid that several objects
\* have is none that was given out, so that it is counted right.
Unedited ==
    /\ op = None /\ changed = {}
    /\ \A t \in Tiles : tile[t] # "reloading"
    /\ \A o \in Objects : past[o] # "moved"
    /\ \A t \in Tiles : \A r \in rows[t] : AtHome(r.obj, r.place)
    /\ \A u \in Uids : inst[u] # None => AtHome(inst[u].obj, inst[u].place) /\ inst[u].home = None
    /\ \A e \in Range(queue) : e.type = "add" /\ ~ e.edit
    /\ \A t \in Tiles : \A r, q \in rows[t] :
           r.uid = q.uid /\ Model[r.obj] = Model[q.obj] /\ r.place = q.place => r = q
Renumbered ==
    \A e \in Range(queue) :
        /\ ~ Contested(e.uid)
        /\ \A f \in FirstRows : Paired(e.uid, f.obj) => e.left \subseteq Touch[f.place]
CountedRight ==
    \A u \in Uids : Contested(u) =>
        /\ count[u] = Cardinality(Listing(u))
        /\ \A t \in Tiles : \A r \in todo[t] :
               r.uid = u /\ u \in uids[t] => ~ IsDuplicateOf(inst[u], r)

\* An object of one tile has its one row there, and is stored once, counted
\* once and listed there alone from when the row was handed over until the tile goes.
OnOneTile(f, c) ==
    /\ \E r \in rows[c] : r.obj = f.obj
    /\ \A t \in Tiles : \A r \in rows[t] : r.obj = f.obj => t = c
    /\ \A r, q \in rows[c] : r.obj = f.obj /\ q.obj = f.obj => r = q
    /\ \A u \in Uids : inst[u] # None /\ inst[u].obj = f.obj =>
           /\ tile[c] # "absent" /\ \A r \in todo[c] : r.obj # f.obj
           /\ Listing(u) = {c} /\ count[u] = 1
           /\ \A v \in Uids : inst[v] # None /\ inst[v].obj = f.obj => v = u
    /\ tile[c] # "absent" /\ (\A r \in todo[c] : r.obj # f.obj) =>
           \E u \in Uids : inst[u] # None /\ inst[u].obj = f.obj
    /\ \A u \in Uids : Paired(u, f.obj) /\ ~ Contested(u) => Listing(u) \subseteq {c}
Undisturbed ==
    StartupCheck /\ edits = 0 =>
        /\ Unedited /\ NumbersBelow /\ Renumbered /\ CountedRight
        /\ \A f \in FirstRows : IsLone(f.obj) /\ past[f.obj] = "asOnDisk" =>
               OnOneTile(f, Centre[f.place])

IInv == TypeOK /\ UidsBelowHighest /\ WaitingRows /\ PastIsFirst /\ Owned /\ Undisturbed

-----------------------------------------------------------------------------
\* What the proofs of the three invariants keep needing

LEMMA FirstTyped ==
    ASSUME NEW f \in FirstRows
    PROVE  /\ f \in Row /\ f.uid \in Uids /\ f.obj \in Objects /\ f.place \in Places
           /\ Touch[f.place] \in SUBSET Tiles /\ Centre[f.place] \in Touch[f.place]
           /\ \A g \in FirstRows : g.obj = f.obj => g = f
BY ObjectsAssumption, PlacesAssumption DEF Row

LEMMA InstTyped ==
    ASSUME TypeOK, NEW u \in Uids, inst[u] # None
    PROVE  /\ inst[u] \in Instance /\ inst[u].obj \in Objects /\ inst[u].place \in Places
           /\ inst[u].home \in Places \cup {None}
           /\ inst[u] = [obj |-> inst[u].obj, place |-> inst[u].place, home |-> inst[u].home]
<1>1. inst[u] \in Instance
  BY DEF TypeOK
<1> QED
  BY <1>1 DEF Instance

LEMMA RowTyped ==
    ASSUME TypeOK, NEW t \in Tiles, NEW r \in rows[t] \cup todo[t]
    PROVE  /\ r \in Row /\ r.uid \in Uids /\ r.obj \in Objects /\ r.place \in Places
           /\ r = [uid |-> r.uid, obj |-> r.obj, place |-> r.place]
<1>1. r \in Row
  BY DEF TypeOK
<1> QED
  BY <1>1 DEF Row

\* The tiles that list a uid are finitely many.
LEMMA ListingFinite ==
    \A u : /\ Listing(u) \in SUBSET Tiles /\ IsFiniteSet(Listing(u))
           /\ Cardinality(Listing(u)) \in Nat
           /\ Cardinality(Listing(u)) = 0 <=> Listing(u) = {}
<1> SUFFICES ASSUME NEW u
             PROVE  /\ Listing(u) \in SUBSET Tiles /\ IsFiniteSet(Listing(u))
                    /\ Cardinality(Listing(u)) \in Nat
                    /\ Cardinality(Listing(u)) = 0 <=> Listing(u) = {}
  OBVIOUS
<1>1. Listing(u) \in SUBSET Tiles
  BY DEF Listing
<1>2. IsFiniteSet(Listing(u))
  BY <1>1, FiniteAssumption, FS_Subset
<1> QED
  BY <1>1, <1>2, FS_CardinalityType, FS_EmptySet

\* One tile more, or one less.
LEMMA OneTileMore ==
    ASSUME NEW S, IsFiniteSet(S), NEW t
    PROVE  Cardinality(S \cup {t}) = IF t \in S THEN Cardinality(S) ELSE Cardinality(S) + 1
BY FS_AddElement

LEMMA OneTileLess ==
    ASSUME NEW S, IsFiniteSet(S), NEW t
    PROVE  Cardinality(S \ {t}) = IF t \in S THEN Cardinality(S) - 1 ELSE Cardinality(S)
BY FS_RemoveElement

\* What waits in a queue.
LEMMA WaitingIn ==
    ASSUME NEW U, NEW q \in Seq(U), NEW x \in U
    PROVE  /\ Range(Append(q, x)) = Range(q) \cup {x}
           /\ Range(<<x>>) = {x}
           /\ Range(q) \subseteq U
           /\ q = <<>> => Range(q) = {}
<1>1. Range(Append(q, x)) = Range(q) \cup {x}
  <2> DEFINE n == Len(q)
             p == Append(q, x)
  <2>1. /\ DOMAIN p = 1..(n + 1) /\ DOMAIN q = 1..n /\ n \in Nat
        /\ \A i \in 1..n : p[i] = q[i]
        /\ p[n + 1] = x
    OBVIOUS
  <2> HIDE DEF n, p
  <2>2. /\ \A i \in 1..(n + 1) : i \in 1..n \/ i = n + 1
        /\ \A i \in 1..n : i \in 1..(n + 1)
        /\ n + 1 \in 1..(n + 1)
    BY <2>1
  <2>3. ASSUME NEW y \in Range(p) PROVE y \in Range(q) \cup {x}
    BY <2>1, <2>2, <2>3 DEF Range
  <2>4. ASSUME NEW y \in Range(q) \cup {x} PROVE y \in Range(p)
    BY <2>1, <2>2, <2>4 DEF Range
  <2>5. Range(p) = Range(q) \cup {x}
    BY <2>3, <2>4
  <2> QED
    BY <2>5 DEF p
<1>2. Range(<<x>>) = {x}
  BY DEF Range
<1>3. Range(q) \subseteq U
  BY DEF Range
<1>4. q = <<>> => Range(q) = {}
  BY DEF Range
<1> QED
  BY <1>1, <1>2, <1>3, <1>4

LEMMA QueueGrows ==
    ASSUME TypeOK, NEW x \in Updates, queue' = Append(queue, x)
    PROVE  Range(queue') = Range(queue) \cup {x}
<1> DEFINE n == Len(queue)
<1>1. /\ DOMAIN queue' = 1..(n + 1) /\ DOMAIN queue = 1..n /\ n \in Nat
      /\ \A i \in 1..n : queue'[i] = queue[i]
      /\ queue'[n + 1] = x
  BY DEF TypeOK
<1> HIDE DEF n
<1>2. /\ \A i \in 1..(n + 1) : i \in 1..n \/ i = n + 1
      /\ \A i \in 1..n : i \in 1..(n + 1)
      /\ n + 1 \in 1..(n + 1)
  BY <1>1
<1>3. ASSUME NEW y \in Range(queue') PROVE y \in Range(queue) \cup {x}
  BY ONLY <1>1, <1>2, <1>3 DEF Range
<1>4. ASSUME NEW y \in Range(queue) \cup {x} PROVE y \in Range(queue')
  BY ONLY <1>1, <1>2, <1>4 DEF Range
<1> QED
  BY <1>3, <1>4

\* What is left of the queue when an update was applied to a tile.
LEMMA QueueShrinks ==
    ASSUME TypeOK, NEW t \in Tiles, ApplyUpdate(t)
    PROVE  /\ Head(queue) \in Range(queue) /\ Head(queue) \in Updates /\ t \in Head(queue).left
           /\ \A e \in Range(queue') :
                 \E d \in Range(queue) : /\ e.uid = d.uid /\ e.type = d.type /\ e.edit = d.edit
                                         /\ e.left \subseteq d.left
           /\ \A w \in Uids, s \in Tiles : Awaited(w, s) => s \in changed' \/ Awaited(w, s)'
<1> DEFINE h == Head(queue)
           g == [h EXCEPT !.left = h.left \ {t}]
<1>1. queue \in Seq(Updates) /\ queue # <<>> /\ Len(queue) \in Nat /\ Len(queue) >= 1
      /\ DOMAIN queue = 1..Len(queue)
  BY DEF TypeOK, ApplyUpdate
<1>2. h = queue[1] /\ h \in Updates /\ 1 \in DOMAIN queue
  BY <1>1
<1>3. h \in Range(queue)
  BY <1>2 DEF Range
<1>4. /\ g.uid = h.uid /\ g.type = h.type /\ g.edit = h.edit /\ g.left = h.left \ {t}
      /\ g \in Updates
  BY <1>2 DEF Updates
<1>5. Range(Tail(queue)) \subseteq Range(queue)
  <2>1. \A i \in DOMAIN Tail(queue) : i + 1 \in DOMAIN queue /\ Tail(queue)[i] = queue[i + 1]
    BY <1>1
  <2> QED
    BY <2>1 DEF Range
<1>6. \A d \in Range(queue) : d = h \/ d \in Range(Tail(queue))
  <2> SUFFICES ASSUME NEW i \in DOMAIN queue PROVE queue[i] = h \/ queue[i] \in Range(Tail(queue))
    BY DEF Range
  <2>1. CASE i = 1
    BY <1>2, <2>1
  <2>2. CASE i # 1
    <3>1. i - 1 \in DOMAIN Tail(queue) /\ Tail(queue)[i - 1] = queue[i]
      BY <1>1, <2>2
    <3> QED
      BY <3>1 DEF Range
  <2> QED
    BY <2>1, <2>2
<1>7. queue' = IF h.left \ {t} = {} THEN Tail(queue) ELSE <<g>> \o Tail(queue)
  BY DEF ApplyUpdate
<1>8. Range(<<g>> \o Tail(queue)) = {g} \cup Range(Tail(queue))
  <2> DEFINE q == Tail(queue)
  <2>1. q \in Seq(Updates)
    BY <1>1
  <2> HIDE DEF g, q
  <2>2. /\ DOMAIN (<<g>> \o q) = 1..(Len(q) + 1) /\ DOMAIN q = 1..Len(q) /\ Len(q) \in Nat
        /\ (<<g>> \o q)[1] = g
        /\ \A i \in 1..Len(q) : (<<g>> \o q)[i + 1] = q[i]
    BY <1>4, <2>1
  <2>3. \A i \in 1..(Len(q) + 1) : i = 1 \/ (i - 1 \in 1..Len(q) /\ (i - 1) + 1 = i)
    BY <2>2
  <2>4. \A i \in 1..Len(q) : i + 1 \in 1..(Len(q) + 1)
    BY <2>2
  <2>5. 1 \in 1..(Len(q) + 1)
    BY <2>2
  <2>6. ASSUME NEW y \in Range(<<g>> \o q) PROVE y \in {g} \cup Range(q)
    <3>1. PICK i \in 1..(Len(q) + 1) : y = (<<g>> \o q)[i]
      BY <2>2 DEF Range
    <3>2. CASE i = 1
      BY <2>2, <3>1, <3>2
    <3>3. CASE i # 1
      <4>1. y = q[i - 1] /\ i - 1 \in DOMAIN q
        BY <2>2, <2>3, <3>1, <3>3
      <4> QED
        BY <4>1 DEF Range
    <3> QED
      BY <3>2, <3>3
  <2>7. ASSUME NEW y \in {g} \cup Range(q) PROVE y \in Range(<<g>> \o q)
    <3>1. CASE y = g
      BY <2>2, <2>5, <3>1 DEF Range
    <3>2. CASE y \in Range(q)
      <4>1. PICK i \in 1..Len(q) : y = q[i]
        BY <2>2, <3>2 DEF Range
      <4>2. i + 1 \in DOMAIN (<<g>> \o q) /\ (<<g>> \o q)[i + 1] = y
        BY <2>2, <2>4, <4>1
      <4> QED
        BY <4>2 DEF Range
    <3> QED
      BY <2>7, <3>1, <3>2
  <2> QED
    BY <2>6, <2>7 DEF q
<1>9. Range(queue') \subseteq {g} \cup Range(queue)
  BY <1>5, <1>7, <1>8
<1>10. \A e \in Range(queue') :
          \E d \in Range(queue) : /\ e.uid = d.uid /\ e.type = d.type /\ e.edit = d.edit
                                  /\ e.left \subseteq d.left
  <2> SUFFICES ASSUME NEW e \in Range(queue')
               PROVE  \E d \in Range(queue) : /\ e.uid = d.uid /\ e.type = d.type
                                              /\ e.edit = d.edit /\ e.left \subseteq d.left
    OBVIOUS
  <2>1. CASE e \in Range(queue)
    BY <2>1
  <2>2. CASE e = g
    <3>1. e.uid = h.uid /\ e.type = h.type /\ e.edit = h.edit /\ e.left \subseteq h.left
      BY <1>4, <2>2
    <3> HIDE DEF h, g
    <3> QED
      BY <1>3, <3>1
  <2> QED
    BY <1>9, <2>1, <2>2
<1>11. ASSUME NEW w \in Uids, NEW s \in Tiles, Awaited(w, s)
       PROVE  s \in changed' \/ Awaited(w, s)'
  <2>1. PICK d \in Range(queue) : d.uid = w /\ d.edit /\ s \in d.left
    BY <1>11 DEF Awaited
  <2>2. CASE d \in Range(Tail(queue))
    <3>1. d \in Range(queue')
      BY <1>7, <1>8, <2>2
    <3> QED
      BY <2>1, <3>1 DEF Awaited
  <2>3. CASE d = h /\ s = t
    BY <2>1, <2>3 DEF ApplyUpdate
  <2>4. CASE d = h /\ s # t
    <3>1. s \in h.left \ {t}
      BY <2>1, <2>4
    <3>2. g \in Range(queue')
      BY <1>7, <1>8, <3>1
    <3>3. g.uid = w /\ g.edit /\ s \in g.left
      BY <1>4, <2>1, <2>4, <3>1
    <3> HIDE DEF g
    <3> QED
      BY <3>2, <3>3 DEF Awaited
  <2> QED
    BY <1>6, <2>2, <2>3, <2>4
<1> QED
  BY <1>2, <1>3, <1>10, <1>11 DEF ApplyUpdate

-----------------------------------------------------------------------------
\* Rows that wait, and the pasts of objects

LEMMA PastKept ==
    ASSUME TypeOK, Next, NEW o \in Objects, past'[o] # "other"
    PROVE  past[o] # "other"
<1>1. CASE past' = past \/ past' = Unsettled
  BY <1>1 DEF Unsettled
<1>2. CASE \E m \in Objects : past' = MovesOn(m) \/ past' = [past EXCEPT ![m] = "other"]
  BY <1>2 DEF MovesOn, TypeOK
<1>3. CASE FixUIDs
  BY <1>3 DEF FixUIDs, Unsettled
<1>4. ASSUME NEW t \in Tiles, OnTile(t)
      PROVE  past' = past \/ past' = Unsettled
  BY <1>4 DEF OnTile, Load, StoreRow, FinishTile, ApplyUpdate, Unload, Reload, SaveTile, Import
<1>5. CASE SaveAll \/ SaveChanged \/ Start
  BY <1>1, <1>5 DEF SaveAll, SaveChanged, Start
<1>6. ASSUME OnObject
      PROVE  past' = past \/ \E m \in Objects : past' = MovesOn(m)
                                                \/ past' = [past EXCEPT ![m] = "other"]
  <2>1. ASSUME NEW u \in Uids, NEW p \in Places, MoveBegin(u, p) \/ Snap(u, p)
        PROVE  \E m \in Objects : past' = MovesOn(m)
    <3>1. inst[u].obj \in Objects /\ past' = MovesOn(inst[u].obj)
      BY <2>1, InstTyped DEF MoveBegin, Snap, Visible
    <3> QED
      BY <3>1
  <2>2. ASSUME NEW u \in Uids, DeleteBegin(u)
        PROVE  \E m \in Objects : past' = [past EXCEPT ![m] = "other"]
    <3>1. inst[u].obj \in Objects /\ past' = [past EXCEPT ![inst[u].obj] = "other"]
      BY <2>2, InstTyped DEF DeleteBegin, Visible
    <3> QED
      BY <3>1
  <2>3. ASSUME NEW m \in Objects, NEW p \in Places, Place(m, p)
        PROVE  past' = [past EXCEPT ![m] = "other"]
    BY <2>3 DEF Place
  <2>4. CASE MoveEnd \/ DeleteEnd
    BY <2>4 DEF MoveEnd, DeleteEnd
  <2> QED
    BY <1>6, <2>1, <2>2, <2>3, <2>4 DEF OnObject
<1> QED
  BY <1>1, <1>2, <1>3, <1>4, <1>5, <1>6 DEF Next

LEMMA StepPast == TypeOK /\ PastIsFirst /\ [Next]_vars => PastIsFirst'
BY PastKept DEF PastIsFirst, vars

\* A tile is written when it is loaded, and has no waiting rows then.
LEMMA WrittenWhenLoaded ==
    ASSUME TypeOK, SaveAll \/ SaveChanged \/ \E t \in Tiles : SaveTile(t) \/ Import(t)
    PROVE  \E S \in SUBSET Tiles :
              /\ rows' = Written(S) /\ \A t \in S : tile[t] = "loaded" /\ todo[t] = {}
              /\ op = None /\ changed \ S \subseteq changed' /\ changed' \subseteq changed
              /\ past' = Unsettled \/ (past' = past /\ queue = <<>>)
              /\ UNCHANGED <<inst, count, tile, todo, uids, queue, op, highest, edits>>
<1>1. ASSUME NEW S \in SUBSET Tiles, S \subseteq LoadedTiles
      PROVE  \A t \in S : tile[t] = "loaded" /\ todo[t] = {}
  BY <1>1 DEF LoadedTiles, TypeOK
<1>2. CASE SaveAll
  BY <1>1, <1>2 DEF SaveAll, LoadedTiles
<1>3. CASE SaveChanged
  BY <1>1, <1>3 DEF SaveChanged, LoadedTiles
<1>4. ASSUME NEW t \in Tiles, SaveTile(t) \/ Import(t)
      PROVE  /\ rows' = Written({t}) /\ tile[t] = "loaded" /\ todo[t] = {}
             /\ op = None /\ changed \ {t} \subseteq changed' /\ changed' \subseteq changed
             /\ past' = Unsettled \/ (past' = past /\ queue = <<>>)
             /\ UNCHANGED <<inst, count, tile, todo, uids, queue, op, highest, edits>>
  BY <1>4 DEF SaveTile, Import, memory, TypeOK
<1> QED
  BY <1>2, <1>3, <1>4

LEMMA StepWaiting ==
    ASSUME TypeOK, WaitingRows, [Next]_vars
    PROVE  WaitingRows'
<1>1. ASSUME NEW t \in Tiles, Load(t) \/ Reload(t)
      PROVE  WaitingRows'
  <2>1. rows' = rows /\ todo' = [todo EXCEPT ![t] = rows[t]] /\ todo \in [Tiles -> SUBSET Row]
    BY <1>1 DEF Load, Reload, disk, TypeOK
  <2> QED
    BY <2>1 DEF WaitingRows
<1>2. ASSUME NEW t \in Tiles, StoreRow(t)
      PROVE  WaitingRows'
  <2>1. PICK r : rows' = rows /\ todo' = [todo EXCEPT ![t] = @ \ {r}] /\ todo \in [Tiles -> SUBSET Row]
    BY <1>2 DEF StoreRow, disk, TypeOK
  <2> QED
    BY <2>1 DEF WaitingRows
<1>3. CASE SaveAll \/ SaveChanged \/ \E t \in Tiles : SaveTile(t) \/ Import(t)
  <2>1. PICK S \in SUBSET Tiles : /\ rows' = Written(S) /\ \A t \in S : todo[t] = {}
                                  /\ todo' = todo
    BY <1>3, WrittenWhenLoaded
  <2>2. \A t \in Tiles : todo'[t] = {} \/ rows'[t] = rows[t]
    BY <2>1 DEF Written
  <2> QED
    BY <2>1, <2>2 DEF WaitingRows
<1>4. CASE Start \/ FixUIDs
  BY <1>4 DEF Start, FixUIDs, EmptyMemory, WaitingRows
<1>5. ASSUME NEW t \in Tiles, FinishTile(t) \/ ApplyUpdate(t) \/ Unload(t)
      PROVE  WaitingRows'
  BY <1>5 DEF FinishTile, ApplyUpdate, Unload, disk, WaitingRows
<1>6. CASE OnObject
  BY <1>6 DEF OnObject, MoveBegin, MoveEnd, Snap, Place, DeleteBegin, DeleteEnd, disk, WaitingRows
<1>7. CASE UNCHANGED vars
  BY <1>7 DEF vars, memory, disk, WaitingRows
<1> QED
  BY <1>1, <1>2, <1>3, <1>4, <1>5, <1>6, <1>7 DEF Next, OnTile

-----------------------------------------------------------------------------
\* Every step keeps what is said of an object with a uid of its own

LEMMA LoadOwned ==
    ASSUME TypeOK, NEW t \in Tiles, Load(t), NEW f \in FirstRows, NEW w \in Uids, OwnedAs(f, w)
    PROVE  OwnedAs(f, w)'
<1>1. /\ tile[t] = "absent" /\ uids[t] = {}
      /\ tile' = [tile EXCEPT ![t] = "loading"] /\ todo' = [todo EXCEPT ![t] = rows[t]]
      /\ DOMAIN tile = Tiles /\ DOMAIN todo = Tiles
      /\ UNCHANGED <<inst, count, uids, changed, queue, op, rows, highest, past>>
  BY DEF Load, TypeOK, disk
<1>2. AsOnDisk(f, w) => AsOnDisk(f, w)'
  BY <1>1 DEF AsOnDisk, Listing
<1>3. Owns(f, w)' /\ (Moved(f, w) => Moved(f, w)')
  BY <1>1 DEF OwnedAs, Owns, Moved, Moving, MoveSaved, MoveDropped, Awaited
<1> QED
  BY <1>1, <1>2, <1>3 DEF OwnedAs

LEMMA FinishOwned ==
    ASSUME TypeOK, NEW t \in Tiles, FinishTile(t),
           NEW f \in FirstRows, NEW w \in Uids, OwnedAs(f, w)
    PROVE  OwnedAs(f, w)'
<1>1. /\ tile[t] # "absent" /\ tile' = [tile EXCEPT ![t] = "loaded"] /\ DOMAIN tile = Tiles
      /\ UNCHANGED <<inst, count, todo, uids, changed, queue, op, rows, highest, past>>
  BY DEF FinishTile, TypeOK, disk
<1>2. AsOnDisk(f, w) => AsOnDisk(f, w)'
  BY <1>1 DEF AsOnDisk, Listing
<1>3. Owns(f, w)' /\ (Moved(f, w) => Moved(f, w)')
  BY <1>1 DEF OwnedAs, Owns, Moved, Moving, MoveSaved, MoveDropped, Awaited
<1> QED
  BY <1>1, <1>2, <1>3 DEF OwnedAs

\* The rows of the object are accepted under its uid, and no other row is.
LEMMA StoresOwn ==
    ASSUME TypeOK, WaitingRows, NEW t \in Tiles, NEW r \in todo[t], NEW u \in Uids,
           StoresAs(r, u), NEW f \in FirstRows, NEW w \in Uids, OwnedAs(f, w),
           past[f.obj] # "other"
    PROVE  /\ r.obj = f.obj <=> u = w
           /\ r.obj = f.obj <=> r.uid = w
           /\ r.obj # f.obj \/ Accepts(w, r)
<1>1. r \in rows[t] /\ (r.uid = w <=> r.obj = f.obj) /\ r.uid \in Uids
  BY RowTyped DEF WaitingRows, OwnedAs, Owns
<1>2. CASE r.obj # f.obj
  <2>1. u = r.uid \/ u > highest
    BY DEF StoresAs, FreshUids
  <2>2. u # w
    BY <1>1, <1>2, <2>1 DEF OwnedAs, TypeOK, Uids
  <2> QED
    BY <1>1, <1>2, <2>2
<1>3. CASE r.obj = f.obj
  <2>1. inst[w] = None => Accepts(w, r)
    BY DEF Accepts
  <2>2. ASSUME inst[w] # None
        PROVE  Accepts(w, r)
    <3>1. inst[w].obj = f.obj
      BY <2>2 DEF OwnedAs, Owns
    <3>2. r.place = inst[w].place \/ (inst[w].home # None /\ r.place = inst[w].home)
      <4>1. CASE AsOnDisk(f, w)
        BY <1>1, <1>3, <2>2, <4>1 DEF AsOnDisk
      <4>2. ASSUME NEW p \in Places, Moving(f, w, p)
            PROVE  r.place = inst[w].place \/ (inst[w].home # None /\ r.place = inst[w].home)
        <5>1. f.place # None
          BY FirstTyped, ObjectsAssumption
        <5> QED
          BY <1>1, <1>3, <2>2, <4>2, <5>1 DEF Moving
      <4>3. ASSUME NEW p \in Places, MoveSaved(f, w, p)
            PROVE  r.place = inst[w].place
        <5>1. t \notin changed
          BY DEF TypeOK
        <5> QED
          BY <1>1, <1>3, <2>2, <4>3, <5>1 DEF MoveSaved
      <4>4. CASE MoveDropped(f, w)
        BY <1>1, <1>3, <2>2, <4>4 DEF MoveDropped
      <4>5. past[f.obj] \in {"asOnDisk", "moved"}
        BY FirstTyped DEF TypeOK, Pasts
      <4> QED
        BY <4>1, <4>2, <4>3, <4>4, <4>5 DEF OwnedAs, Moved
    <3> QED
      BY <1>3, <3>1, <3>2 DEF Accepts, IsDuplicateOf, IsLeftoverOf
  <2>3. Accepts(w, r)
    BY <2>1, <2>2
  <2>4. u = w
    BY <1>1, <1>3, <2>3 DEF StoresAs
  <2> QED
    BY <1>1, <1>3, <2>3, <2>4
<1> QED
  BY <1>2, <1>3

LEMMA StoreRowOwned ==
    ASSUME TypeOK, WaitingRows, NEW t \in Tiles, StoreRow(t),
           NEW f \in FirstRows, NEW w \in Uids, OwnedAs(f, w), past[f.obj] # "other"
    PROVE  OwnedAs(f, w)'
<1>1. PICK r \in todo[t], u \in Uids : StoreRow(t)!(r, u)
  BY DEF StoreRow
<1>2. /\ r.obj = f.obj <=> u = w
      /\ r.obj = f.obj <=> r.uid = w
      /\ r.obj # f.obj \/ Accepts(w, r)
  BY <1>1, StoresOwn
<1> DEFINE new == [obj |-> r.obj, place |-> r.place, home |-> None]
           x == Update("add", u, inst'[u].place, FALSE)
<1>3. /\ inst' = IF inst[u] = None THEN [inst EXCEPT ![u] = new] ELSE inst
      /\ count' = [count EXCEPT ![u] = @ + 1]
      /\ uids' = [uids EXCEPT ![t] = @ \cup {u}]
      /\ todo' = [todo EXCEPT ![t] = @ \ {r}]
      /\ tile[t] \in {"loading", "reloading"}
      /\ UNCHANGED <<tile, changed, op, rows, past>>
      /\ r \in rows[t]
  BY <1>1 DEF disk, WaitingRows
<1>4. highest' >= highest /\ highest \in Nat /\ highest' \in Nat
  BY <1>1 DEF StoresAs, FreshUids, TypeOK, Uids
<1>5. new \in Instance /\ new # None
  <2>1. r.obj \in Objects /\ r.place \in Places
    BY RowTyped
  <2>2. new \in Instance
    BY <2>1 DEF Instance
  <2> QED
    BY <2>2, ObjectsAssumption
<1>6. /\ inst'[u] # None
      /\ inst'[u] = IF inst[u] = None THEN new ELSE inst[u]
      /\ \A v \in Uids : v # u => inst'[v] = inst[v] /\ count'[v] = count[v]
      /\ count'[u] = count[u] + 1
  <2> HIDE DEF new
  <2> QED
    BY <1>3, <1>5 DEF TypeOK
<1>7. inst'[u].place \in Places /\ x \in Updates
  <2>1. inst'[u] \in Instance
    BY <1>5, <1>6 DEF TypeOK
  <2>2. inst'[u].place \in Places
    BY <2>1 DEF Instance
  <2> QED
    BY <2>2, UpdateTyped
<1>8. Range(queue') \subseteq Range(queue) \cup {x} /\ Range(queue) \subseteq Range(queue')
  <2>1. queue' = queue \/ queue' = Append(queue, x)
    BY <1>1
  <2> HIDE DEF x
  <2> QED
    BY <1>7, <2>1, QueueGrows
<1>9. /\ x.uid = u /\ x.type = "add" /\ x.left = Touch[inst'[u].place]
  BY DEF Update
<1>10. w <= highest'
  BY <1>4 DEF OwnedAs, Uids
<1>11. Owns(f, w)'
  <2>1. \A v \in Uids : inst'[v] # None => (inst'[v].obj = f.obj <=> v = w)
    <3> SUFFICES ASSUME NEW v \in Uids, inst'[v] # None PROVE inst'[v].obj = f.obj <=> v = w
      OBVIOUS
    <3>1. CASE v # u \/ inst[u] # None
      BY <1>6, <3>1 DEF OwnedAs, Owns
    <3>2. CASE v = u /\ inst[u] = None
      BY <1>2, <1>6, <3>2
    <3> QED
      BY <3>1, <3>2
  <2> QED
    BY <1>3, <2>1 DEF OwnedAs, Owns
<1>12. ASSUME AsOnDisk(f, w)
       PROVE  AsOnDisk(f, w)'
  <2>1. r.obj = f.obj => r = RowOf(f, w) /\ t \in Touch[f.place]
    <3>1. r.obj = f.obj => r.uid = w /\ r.place = f.place
      BY <1>2, <1>3, <1>12 DEF AsOnDisk
    <3>2. r = [uid |-> r.uid, obj |-> r.obj, place |-> r.place]
      BY RowTyped
    <3>3. r.obj = f.obj => r = RowOf(f, w)
      BY <3>1, <3>2 DEF RowOf
    <3> QED
      BY <1>3, <1>12, <3>3 DEF AsOnDisk
  <2>2. inst'[w] # None => inst'[w] = [obj |-> f.obj, place |-> f.place, home |-> None]
    <3>1. CASE u # w
      BY <1>6, <1>12, <3>1 DEF AsOnDisk
    <3>2. CASE u = w
      BY <1>2, <1>6, <1>12, <2>1, <3>2 DEF AsOnDisk, RowOf
    <3> QED
      BY <3>1, <3>2
  <2>3. \A s \in Tiles : w \in uids'[s] <=>
           s \in Touch[f.place] /\ tile'[s] # "absent" /\ RowOf(f, w) \notin todo'[s]
    <3> SUFFICES ASSUME NEW s \in Tiles
                 PROVE  w \in uids'[s] <=>
                          s \in Touch[f.place] /\ tile[s] # "absent" /\ RowOf(f, w) \notin todo'[s]
      BY <1>3
    <3>1. CASE s # t
      BY <1>3, <1>12, <3>1 DEF AsOnDisk, TypeOK
    <3>2. CASE s = t /\ u = w
      BY <1>2, <1>3, <2>1, <3>2 DEF TypeOK
    <3>3. CASE s = t /\ u # w
      <4>1. r # RowOf(f, w)
        BY <1>2, <3>3 DEF RowOf
      <4>2. w \in uids'[s] <=> w \in uids[s]
        BY <1>3, <3>3 DEF TypeOK
      <4>3. RowOf(f, w) \in todo'[s] <=> RowOf(f, w) \in todo[s]
        BY <1>3, <3>3, <4>1 DEF TypeOK
      <4> QED
        BY <1>12, <4>2, <4>3 DEF AsOnDisk
    <3> QED
      BY <3>1, <3>2, <3>3
  <2>4. Listing(w)' # {} => inst'[w] # None
    <3>1. CASE u = w
      BY <1>6, <3>1
    <3>2. CASE u # w
      <4>1. Listing(w)' = Listing(w)
        BY <1>3, <3>2 DEF Listing, TypeOK
      <4> QED
        BY <1>6, <1>12, <3>2, <4>1 DEF AsOnDisk
    <3> QED
      BY <3>1, <3>2
  <2>5. count'[w] = Cardinality(Listing(w))'
    <3>1. CASE u = w
      <4>1. Listing(w)' = Listing(w) \cup {t}
        BY <1>3, <3>1 DEF Listing, TypeOK
      <4>2. t \notin Listing(w)
        BY <1>2, <1>12, <2>1, <3>1 DEF AsOnDisk, Listing
      <4>3. Cardinality(Listing(w) \cup {t}) = Cardinality(Listing(w)) + 1
        BY <4>2, ListingFinite, OneTileMore
      <4> QED
        BY <1>6, <1>12, <3>1, <4>1, <4>3 DEF AsOnDisk
    <3>2. CASE u # w
      <4>1. Listing(w)' = Listing(w)
        BY <1>3, <3>2 DEF Listing, TypeOK
      <4> QED
        BY <1>6, <1>12, <3>2, <4>1 DEF AsOnDisk
    <3> QED
      BY <3>1, <3>2
  <2>6. \A e \in Range(queue') : e.uid = w => e.type = "add" /\ e.left \subseteq Touch[f.place]
    <3> SUFFICES ASSUME NEW e \in Range(queue'), e.uid = w
                 PROVE  e.type = "add" /\ e.left \subseteq Touch[f.place]
      OBVIOUS
    <3>1. CASE e \in Range(queue)
      BY <1>12, <3>1 DEF AsOnDisk
    <3>2. CASE e = x
      <4>1. u = w
        BY <1>9, <3>2
      <4>2. inst'[u].place = f.place
        BY <1>6, <2>2, <4>1
      <4> QED
        BY <1>9, <3>2, <4>2
    <3> QED
      BY <1>8, <3>1, <3>2
  <2> QED
    BY <1>3, <1>12, <2>2, <2>3, <2>4, <2>5, <2>6 DEF AsOnDisk
<1>13. ASSUME Moved(f, w)
       PROVE  Moved(f, w)'
  <2>1. \A s \in Tiles : Awaited(w, s) => Awaited(w, s)'
    BY <1>8 DEF Awaited
  <2>2. op # None => inst'[op.uid] = inst[op.uid]
    <3>1. op # None => op.uid \in Uids /\ inst[op.uid] # None
      BY DEF TypeOK, Ops
    <3> QED
      BY <1>6, <3>1
  <2>3. inst[w] = None /\ inst'[w] # None => r.obj = f.obj /\ inst'[w].place = r.place
    BY <1>2, <1>6
  <2>4. inst[w] # None => inst'[w] = inst[w]
    BY <1>6
  <2>5. t \notin changed
    BY <1>3 DEF TypeOK
  <2>6. ASSUME NEW p \in Places, Moving(f, w, p)
        PROVE  Moving(f, w, p)'
    <3>1. inst'[w] # None => \/ inst'[w].place = f.place
                             \/ inst'[w].place = p /\ inst'[w].home = f.place
      BY <1>3, <2>3, <2>4, <2>6 DEF Moving
    <3>2. \A s \in Touch[f.place] : s \in changed' \/ Awaited(w, s)'
      BY <1>3, <2>1, <2>6, FirstTyped DEF Moving
    <3> QED
      BY <1>3, <2>2, <2>6, <3>1, <3>2 DEF Moving
  <2>7. ASSUME NEW p \in Places, MoveSaved(f, w, p)
        PROVE  MoveSaved(f, w, p)'
    BY <1>3, <2>3, <2>4, <2>5, <2>7 DEF MoveSaved
  <2>8. ASSUME MoveDropped(f, w)
        PROVE  MoveDropped(f, w)'
    BY <1>3, <2>3, <2>4, <2>8 DEF MoveDropped
  <2> QED
    BY <1>13, <2>6, <2>7, <2>8 DEF Moved
<1> QED
  BY <1>3, <1>10, <1>11, <1>12, <1>13 DEF OwnedAs

LEMMA ApplyOwned ==
    ASSUME TypeOK, NEW t \in Tiles, ApplyUpdate(t),
           NEW f \in FirstRows, NEW w \in Uids, OwnedAs(f, w)
    PROVE  OwnedAs(f, w)'
<1> DEFINE h == Head(queue)
<1>1. /\ tile[t] = "loaded" /\ todo[t] = {}
      /\ UNCHANGED <<inst, count, tile, todo, op, rows, highest, past>>
      /\ changed \subseteq changed'
      /\ uids \in [Tiles -> SUBSET Uids]
  BY DEF ApplyUpdate, disk, TypeOK
<1>2. /\ h \in Range(queue) /\ t \in h.left
      /\ \A e \in Range(queue') :
            \E d \in Range(queue) : /\ e.uid = d.uid /\ e.type = d.type /\ e.edit = d.edit
                                    /\ e.left \subseteq d.left
      /\ \A s \in Tiles : Awaited(w, s) => s \in changed' \/ Awaited(w, s)'
  BY QueueShrinks
<1>3. \/ h.type = "add" /\ uids' = [uids EXCEPT ![t] = @ \cup {h.uid}]
      \/ h.type = "remove" /\ uids' = [uids EXCEPT ![t] = @ \ {h.uid}]
      \/ uids' = uids
  BY DEF ApplyUpdate
<1>4. ASSUME AsOnDisk(f, w)
      PROVE  AsOnDisk(f, w)'
  <2>1. h.uid = w => h.type = "add" /\ w \in uids[t]
    BY <1>1, <1>2, <1>4 DEF AsOnDisk
  <2>2. \A s \in Tiles : w \in uids'[s] <=> w \in uids[s]
    BY <1>1, <1>3, <2>1
  <2>3. Listing(w)' = Listing(w)
    BY <2>2 DEF Listing
  <2>4. \A e \in Range(queue') : e.uid = w => e.type = "add" /\ e.left \subseteq Touch[f.place]
    BY <1>2, <1>4 DEF AsOnDisk
  <2> QED
    BY <1>1, <1>4, <2>2, <2>3, <2>4 DEF AsOnDisk
<1>5. ASSUME Moved(f, w)
      PROVE  Moved(f, w)'
  <2>1. ASSUME NEW p \in Places, Moving(f, w, p)
        PROVE  Moving(f, w, p)'
    <3>1. \A s \in Touch[f.place] : s \in changed' \/ Awaited(w, s)'
      BY <1>1, <1>2, <2>1, FirstTyped DEF Moving
    <3> QED
      BY <1>1, <2>1, <3>1 DEF Moving
  <2>2. \A p \in Places : MoveSaved(f, w, p) => MoveSaved(f, w, p)'
    BY <1>1 DEF MoveSaved
  <2>3. MoveDropped(f, w) => MoveDropped(f, w)'
    BY <1>1 DEF MoveDropped
  <2> QED
    BY <1>5, <2>1, <2>2, <2>3 DEF Moved
<1> QED
  BY <1>1, <1>4, <1>5 DEF OwnedAs, Owns

\* What releasing a tile does to one uid.
LEMMA Released ==
    ASSUME TypeOK, NEW t \in Tiles, Unload(t) \/ Reload(t), NEW u \in Uids
    PROVE  /\ Listing(u)' = Listing(u) \ {t}
           /\ inst'[u] # None => inst'[u] = inst[u] /\ inst[u] # None
           /\ u \notin uids[t] => inst'[u] = inst[u] /\ count'[u] = count[u]
           /\ u \in uids[t] /\ inst[u] # None =>
                 /\ count'[u] = count[u] - 1
                 /\ inst'[u] = IF count[u] = 1 THEN None ELSE inst[u]
           /\ u \in uids[t] /\ inst[u] = None => inst'[u] = None /\ count'[u] = count[u]
<1>1. count[u] \in Nat /\ (count[u] = 0 <=> inst[u] = None)
  BY DEF TypeOK
<1>2. /\ count' = [v \in Uids |-> IF v \in uids[t] /\ inst[v] # None THEN count[v] - 1 ELSE count[v]]
      /\ inst' = [v \in Uids |-> IF v \in uids[t] /\ count'[v] = 0 THEN None ELSE inst[v]]
      /\ uids' = [uids EXCEPT ![t] = {}] /\ uids \in [Tiles -> SUBSET Uids]
  BY DEF Unload, Reload, Release, TypeOK
<1>3. Listing(u)' = Listing(u) \ {t}
  BY <1>2 DEF Listing
<1> QED
  BY <1>1, <1>2, <1>3

LEMMA ReleaseOwned ==
    ASSUME TypeOK, NEW t \in Tiles, Unload(t) \/ Reload(t),
           NEW f \in FirstRows, NEW w \in Uids, OwnedAs(f, w), past'[f.obj] # "other"
    PROVE  OwnedAs(f, w)'
<1>1. /\ tile[t] = "loaded" /\ todo[t] = {} /\ op = None
      /\ UNCHANGED <<queue, op, rows, highest>>
      /\ uids' = [uids EXCEPT ![t] = {}] /\ uids \in [Tiles -> SUBSET Uids]
      /\ \A s \in Tiles : s # t => tile'[s] = tile[s] /\ todo'[s] = todo[s]
      /\ tile'[t] = "absent" \/ todo'[t] = rows[t]
  BY DEF Unload, Reload, MayEdit, disk, TypeOK
<1>2. past'[f.obj] = past[f.obj] /\ (past[f.obj] = "moved" => changed' = changed)
  <2>1. CASE Unload(t)
    BY <2>1 DEF Unload
  <2>2. CASE Reload(t)
    BY <2>2, FirstTyped DEF Reload, Unsettled
  <2> QED
    BY <2>1, <2>2
<1>3. \A u \in Uids : inst'[u] # None => inst'[u] = inst[u] /\ inst[u] # None
  BY Released
<1>4. Owns(f, w)'
  BY <1>1, <1>3 DEF OwnedAs, Owns
<1>5. ASSUME AsOnDisk(f, w)
      PROVE  AsOnDisk(f, w)'
  <2>1. \A s \in Tiles : w \in uids'[s] <=>
           s \in Touch[f.place] /\ tile'[s] # "absent" /\ RowOf(f, w) \notin todo'[s]
    <3>1. RowOf(f, w) \in rows[t] <=> t \in Touch[f.place]
      BY <1>5 DEF AsOnDisk
    <3> QED
      BY <1>1, <1>5, <3>1 DEF AsOnDisk
  <2>2. Listing(w)' = Listing(w) \ {t} /\ (t \in Listing(w) <=> w \in uids[t])
    BY Released DEF Listing
  <2>3. count'[w] = Cardinality(Listing(w))'
    <3>1. Cardinality(Listing(w) \ {t})
             = IF t \in Listing(w) THEN Cardinality(Listing(w)) - 1 ELSE Cardinality(Listing(w))
      BY ListingFinite, OneTileLess
    <3>2. w \in uids[t] => inst[w] # None
      BY <1>5, <2>2 DEF AsOnDisk
    <3> QED
      BY <1>5, <2>2, <3>1, <3>2, Released DEF AsOnDisk
  <2>4. Listing(w)' # {} => inst'[w] # None
    <3>1. Listing(w)' \in SUBSET Tiles /\ IsFiniteSet(Listing(w)')
      BY <2>2, ListingFinite, FS_Subset
    <3>2. Listing(w)' # {} => Cardinality(Listing(w))' # 0
      BY <3>1, FS_EmptySet
    <3>3. count'[w] # 0 => inst'[w] # None
      <4>1. TypeOK'
        BY UnloadTypes
      <4> QED
        BY <4>1 DEF TypeOK
    <3> QED
      BY <2>3, <3>2, <3>3
  <2> QED
    BY <1>1, <1>3, <1>5, <2>1, <2>3, <2>4 DEF AsOnDisk
<1>6. ASSUME Moved(f, w), changed' = changed
      PROVE  Moved(f, w)'
  <2>1. ASSUME NEW p \in Places, Moving(f, w, p)
        PROVE  Moving(f, w, p)'
    BY <1>1, <1>3, <1>6, <2>1 DEF Moving, Awaited
  <2>2. \A p \in Places : MoveSaved(f, w, p) => MoveSaved(f, w, p)'
    BY <1>1, <1>3, <1>6 DEF MoveSaved
  <2>3. MoveDropped(f, w) => MoveDropped(f, w)'
    BY <1>1, <1>3 DEF MoveDropped
  <2> QED
    BY <1>6, <2>1, <2>2, <2>3 DEF Moved
<1> QED
  BY <1>1, <1>2, <1>4, <1>5, <1>6 DEF OwnedAs

LEMMA MoveOwned ==
    ASSUME TypeOK, NEW u \in Uids, NEW p \in Places, MoveBegin(u, p) \/ Snap(u, p),
           NEW f \in FirstRows, NEW w \in Uids, OwnedAs(f, w), past'[f.obj] # "other"
    PROVE  OwnedAs(f, w)'
<1>1. /\ inst[u] # None /\ op = None
      /\ past' = MovesOn(inst[u].obj)
      /\ UNCHANGED <<count, tile, todo, uids, changed, rows, highest>>
      /\ inst \in [Uids -> Instance \cup {None}]
  BY DEF MoveBegin, Snap, MayEdit, Visible, disk, TypeOK
<1>2. inst[u].obj \in Objects /\ Transformed(u) \in Instance /\ inst[u] \in Instance
  BY <1>1, TransformedTyped, InstTyped
<1>3. /\ Transformed(u).obj = inst[u].obj /\ Transformed(u).place = inst[u].place
      /\ Transformed(u).home = IF inst[u].home = None THEN inst[u].place ELSE inst[u].home
  BY <1>2 DEF Transformed, Instance
<1> DEFINE there == IF MoveBegin(u, p) THEN Transformed(u) ELSE [Transformed(u) EXCEPT !.place = p]
           x == IF MoveBegin(u, p) THEN Update("remove", u, inst[u].place, TRUE)
                                   ELSE Update("add", u, p, TRUE)
<1>4. /\ there \in Instance /\ there # None /\ there.obj = inst[u].obj
      /\ there.home = Transformed(u).home
      /\ there.place = IF MoveBegin(u, p) THEN inst[u].place ELSE p
  BY <1>2, <1>3, ObjectsAssumption DEF Instance
<1>5. inst' = [inst EXCEPT ![u] = there] /\ queue' = Append(queue, x)
  BY DEF MoveBegin, Snap
<1>6. x \in Updates /\ x.uid = u /\ x.edit /\ x.left = Touch[inst[u].place]
  <2>1. x \in Updates
    BY <1>2, UpdateTyped DEF Instance
  <2> QED
    BY <2>1 DEF Update, Snap, Touching
<1>7. /\ inst'[u] = there /\ \A v \in Uids : v # u => inst'[v] = inst[v]
  <2> HIDE DEF there
  <2> QED
    BY <1>1, <1>5
<1>8. Range(queue') = Range(queue) \cup {x}
  <2> HIDE DEF x
  <2> QED
    BY <1>5, <1>6, QueueGrows
<1>9. op' = None \/ (MoveBegin(u, p) /\ op' = [name |-> "move", uid |-> u, place |-> p])
  BY <1>1 DEF MoveBegin, Snap
<1>10. Owns(f, w)'
  <2>1. \A v \in Uids : inst'[v] # None => (inst'[v].obj = f.obj <=> v = w)
    <3> HIDE DEF there
    <3> QED
      BY <1>1, <1>4, <1>7 DEF OwnedAs, Owns
  <2> QED
    BY <1>1, <2>1 DEF OwnedAs, Owns
<1>11. CASE u # w
  <2>1. inst[u].obj # f.obj
    BY <1>1, <1>11 DEF OwnedAs, Owns
  <2>2. past'[f.obj] = past[f.obj]
    BY <1>1, <2>1, FirstTyped DEF MovesOn, TypeOK
  <2>3. inst'[w] = inst[w] /\ (op' # None => op'.uid # w)
    BY <1>7, <1>9, <1>11
  <2>4. AsOnDisk(f, w) => AsOnDisk(f, w)'
    <3>1. \A e \in Range(queue') : e.uid = w => e \in Range(queue)
      BY <1>6, <1>8, <1>11
    <3> QED
      BY <1>1, <2>3, <3>1 DEF AsOnDisk, Listing
  <2>5. ASSUME Moved(f, w)
        PROVE  Moved(f, w)'
    <3>1. ASSUME NEW q \in Places, Moving(f, w, q)
          PROVE  Moving(f, w, q)'
      <4>1. \A t \in Tiles : Awaited(w, t) => Awaited(w, t)'
        BY <1>8 DEF Awaited
      <4>2. \A t \in Touch[f.place] : t \in changed' \/ Awaited(w, t)'
        BY <1>1, <3>1, <4>1, FirstTyped DEF Moving
      <4> QED
        BY <1>1, <2>3, <3>1, <4>2 DEF Moving
    <3>2. \A q \in Places : MoveSaved(f, w, q) => MoveSaved(f, w, q)'
      BY <1>1, <2>3 DEF MoveSaved
    <3>3. MoveDropped(f, w) => MoveDropped(f, w)'
      BY <1>1, <2>3 DEF MoveDropped
    <3> QED
      BY <2>5, <3>1, <3>2, <3>3 DEF Moved
  <2> QED
    BY <1>1, <1>10, <2>2, <2>4, <2>5 DEF OwnedAs
<1>12. CASE u = w
  <2>1. inst[u].obj = f.obj
    BY <1>1, <1>12 DEF OwnedAs, Owns
  <2>2. past[f.obj] = "asOnDisk" /\ past'[f.obj] = "moved"
    BY <1>1, <2>1, FirstTyped DEF MovesOn, TypeOK
  <2>3. AsOnDisk(f, w)
    BY <2>2 DEF OwnedAs
  <2>4. inst[w].place = f.place /\ there.home = f.place
    BY <1>1, <1>3, <1>4, <1>12, <2>3 DEF AsOnDisk
  <2>5. \A t \in Tiles : \A r \in rows[t] : r.obj = f.obj => r.place = f.place /\ t \in Touch[f.place]
    <3> SUFFICES ASSUME NEW t \in Tiles, NEW r \in rows[t], r.obj = f.obj
                 PROVE  r.place = f.place /\ t \in Touch[f.place]
      OBVIOUS
    <3>1. r.uid = w /\ r.place = f.place
      BY <2>3 DEF OwnedAs, Owns, AsOnDisk
    <3>2. r = RowOf(f, w)
      BY <3>1, RowTyped DEF RowOf
    <3> QED
      BY <2>3, <3>1, <3>2 DEF AsOnDisk
  <2>6. \A t \in Touch[f.place] : Awaited(w, t)'
    BY <1>6, <1>8, <1>12, <2>4 DEF Awaited
  <2>7. Moving(f, w, p)'
    <3>1. inst'[w].place = f.place \/ (inst'[w].place = p /\ inst'[w].home = f.place)
      <4> HIDE DEF there
      <4> QED
        BY <1>4, <1>7, <1>12, <2>4
    <3>2. op' # None /\ op'.uid = w =>
             op'.name = "move" /\ op'.place = p /\ inst'[w].home = f.place
      <4> HIDE DEF there
      <4> QED
        BY <1>7, <1>9, <1>12, <2>4
    <3> QED
      BY <1>1, <2>5, <2>6, <3>1, <3>2 DEF Moving
  <2> QED
    BY <1>1, <1>10, <2>2, <2>7 DEF OwnedAs, Moved
<1> QED
  BY <1>11, <1>12

LEMMA MoveEndOwned ==
    ASSUME TypeOK, MoveEnd, NEW f \in FirstRows, NEW w \in Uids, OwnedAs(f, w),
           past[f.obj] # "other"
    PROVE  OwnedAs(f, w)'
<1> DEFINE u == op.uid
           x == Update("add", u, op.place, TRUE)
<1>1. /\ u \in Uids /\ op.place \in Places /\ op # None /\ op.name = "move" /\ queue = <<>>
      /\ inst \in [Uids -> Instance \cup {None}] /\ inst[u] # None /\ inst[u] \in Instance
  BY DEF MoveEnd, TypeOK, Ops
<1>2. /\ inst' = [inst EXCEPT ![u].place = op.place] /\ queue' = <<x>> /\ op' = None
      /\ UNCHANGED <<count, tile, todo, uids, changed, rows, highest, past>>
  BY DEF MoveEnd, disk
<1>3. x \in Updates /\ x.uid = u
  <2>1. x \in Updates
    BY <1>1, UpdateTyped
  <2> QED
    BY <2>1 DEF Update
<1>4. Range(queue') = {x}
  <2>1. queue \in Seq(Updates)
    BY DEF TypeOK
  <2> HIDE DEF x
  <2> QED
    BY <1>2, <1>3, <2>1, WaitingIn
<1>5. /\ inst'[u] = [inst[u] EXCEPT !.place = op.place]
      /\ \A v \in Uids : v # u => inst'[v] = inst[v]
  BY <1>1, <1>2
<1>6. inst'[u] # None /\ inst'[u].obj = inst[u].obj /\ inst'[u].home = inst[u].home
      /\ inst'[u].place = op.place
  <2>1. inst'[u] \in Instance
    BY <1>1, <1>5 DEF Instance
  <2> QED
    BY <1>1, <1>5, <2>1, ObjectsAssumption DEF Instance
<1>7. Owns(f, w)'
  BY <1>1, <1>2, <1>5, <1>6 DEF OwnedAs, Owns
<1>8. AsOnDisk(f, w) => AsOnDisk(f, w)'
  <2> SUFFICES ASSUME AsOnDisk(f, w) PROVE AsOnDisk(f, w)'
    OBVIOUS
  <2>1. u # w
    BY <1>1 DEF AsOnDisk
  <2>2. inst'[w] = inst[w] /\ \A e \in Range(queue') : e.uid # w
    BY <1>3, <1>4, <1>5, <2>1
  <2> QED
    BY <1>2, <2>2 DEF AsOnDisk, Listing
<1>9. ASSUME Moved(f, w)
      PROVE  Moved(f, w)'
  <2>1. ASSUME NEW p \in Places, Moving(f, w, p)
        PROVE  Moving(f, w, p)'
    <3>1. Range(queue) = {}
      BY <1>1 DEF Range
    <3>2. \A t \in Touch[f.place] : t \in changed
      BY <2>1, <3>1 DEF Moving, Awaited
    <3>3. inst'[w] # None => inst'[w].place = f.place \/ (inst'[w].place = p /\ inst'[w].home = f.place)
      <4>1. CASE u = w
        BY <1>1, <1>6, <2>1, <4>1 DEF Moving
      <4>2. CASE u # w
        BY <1>5, <2>1, <4>2 DEF Moving
      <4> QED
        BY <4>1, <4>2
    <3> QED
      BY <1>2, <2>1, <3>2, <3>3 DEF Moving
  <2>2. ASSUME NEW p \in Places, MoveSaved(f, w, p)
        PROVE  MoveSaved(f, w, p)'
    BY <1>1, <1>2, <1>5, <2>2 DEF MoveSaved
  <2>3. MoveDropped(f, w) => MoveDropped(f, w)'
    BY <1>1, <1>2, <1>5 DEF MoveDropped
  <2> QED
    BY <1>9, <2>1, <2>2, <2>3 DEF Moved
<1> QED
  BY <1>2, <1>7, <1>8, <1>9 DEF OwnedAs

\* A step that leaves the object alone, and the queue but for an update of
\* another one.
LEMMA OthersOwned ==
    ASSUME TypeOK, NEW f \in FirstRows, NEW w \in Uids, OwnedAs(f, w),
           NEW u \in Uids, u # w,
           UNCHANGED <<tile, todo, uids, changed, rows>>,
           highest' = highest \/ (highest' \in Uids /\ highest' > highest),
           past'[f.obj] = past[f.obj],
           \A v \in Uids : v # u => inst'[v] = inst[v] /\ count'[v] = count[v],
           inst'[u] # None => inst'[u].obj # f.obj,
           Range(queue) \subseteq Range(queue'),
           \A e \in Range(queue') : e \in Range(queue) \/ e.uid # w,
           op' # None => op'.uid # w
    PROVE  OwnedAs(f, w)'
<1>1. inst'[w] = inst[w] /\ count'[w] = count[w] /\ w <= highest'
  BY DEF OwnedAs, TypeOK, Uids
<1>2. Owns(f, w)'
  BY DEF OwnedAs, Owns
<1>3. AsOnDisk(f, w) => AsOnDisk(f, w)'
  BY <1>1 DEF AsOnDisk, Listing
<1>4. ASSUME Moved(f, w)
      PROVE  Moved(f, w)'
  <2>1. ASSUME NEW p \in Places, Moving(f, w, p)
        PROVE  Moving(f, w, p)'
    BY <1>1, <2>1 DEF Moving, Awaited
  <2>2. \A p \in Places : MoveSaved(f, w, p) => MoveSaved(f, w, p)'
    BY <1>1 DEF MoveSaved
  <2>3. MoveDropped(f, w) => MoveDropped(f, w)'
    BY <1>1 DEF MoveDropped
  <2> QED
    BY <1>4, <2>1, <2>2, <2>3 DEF Moved
<1> QED
  BY <1>1, <1>2, <1>3, <1>4 DEF OwnedAs

LEMMA PlaceOwned ==
    ASSUME TypeOK, NEW o \in Objects, NEW p \in Places, Place(o, p),
           NEW f \in FirstRows, NEW w \in Uids, OwnedAs(f, w), past'[f.obj] # "other"
    PROVE  OwnedAs(f, w)'
<1>1. PICK u \in Uids : /\ u > highest /\ inst[u] = None
                        /\ inst' = [inst EXCEPT ![u] = [obj |-> o, place |-> p, home |-> None]]
                        /\ count' = [count EXCEPT ![u] = 1]
                        /\ highest' = u
                        /\ queue' = Append(queue, Update("add", u, p, FALSE))
  BY DEF Place
<1>2. /\ UNCHANGED <<tile, todo, uids, changed, op, rows>> /\ op = None
      /\ past' = [past EXCEPT ![o] = "other"] /\ past \in [Objects -> Pasts]
      /\ inst \in [Uids -> Instance \cup {None}] /\ count \in [Uids -> Nat]
  BY DEF Place, MayEdit, disk, TypeOK
<1>3. o # f.obj /\ past'[f.obj] = past[f.obj]
  BY <1>2, FirstTyped
<1>4. u # w
  BY <1>1 DEF OwnedAs, TypeOK, Uids
<1> DEFINE x == Update("add", u, p, FALSE)
<1>5. x \in Updates /\ x.uid = u
  BY UpdateTyped DEF Update
<1>6. Range(queue') = Range(queue) \cup {x}
  BY <1>1, <1>5, QueueGrows
<1>7. /\ \A v \in Uids : v # u => inst'[v] = inst[v] /\ count'[v] = count[v]
      /\ inst'[u].obj # f.obj
  BY <1>1, <1>2, <1>3
<1> HIDE DEF x
<1>8. /\ Range(queue) \subseteq Range(queue')
      /\ \A e \in Range(queue') : e \in Range(queue) \/ e.uid # w
      /\ highest' \in Uids /\ highest' > highest /\ op' = None
  BY <1>1, <1>2, <1>4, <1>5, <1>6
<1> QED
  BY <1>2, <1>3, <1>4, <1>7, <1>8, OthersOwned

LEMMA DeleteOwned ==
    ASSUME TypeOK, (\E u \in Uids : DeleteBegin(u)) \/ DeleteEnd,
           NEW f \in FirstRows, NEW w \in Uids, OwnedAs(f, w), past'[f.obj] # "other",
           past[f.obj] # "other"
    PROVE  OwnedAs(f, w)'
<1>1. ASSUME NEW u \in Uids, DeleteBegin(u)
      PROVE  OwnedAs(f, w)'
  <2> DEFINE x == Update("remove", u, inst[u].place, TRUE)
  <2>1. /\ UNCHANGED <<inst, count, tile, todo, uids, changed, rows, highest>>
        /\ inst[u] # None /\ queue' = Append(queue, x)
        /\ op' = [name |-> "delete", uid |-> u, place |-> inst[u].place]
        /\ past' = [past EXCEPT ![inst[u].obj] = "other"] /\ past \in [Objects -> Pasts]
    BY <1>1 DEF DeleteBegin, Visible, disk, TypeOK
  <2>2. inst[u].obj # f.obj /\ past'[f.obj] = past[f.obj]
    BY <2>1, FirstTyped
  <2>3. u # w
    BY <2>1, <2>2 DEF OwnedAs, Owns
  <2>4. x \in Updates /\ x.uid = u
    BY <2>1, InstTyped, UpdateTyped DEF Update
  <2>5. Range(queue') = Range(queue) \cup {x} /\ op'.uid = u
    BY <2>1, <2>4, QueueGrows
  <2> HIDE DEF x
  <2>6. /\ Range(queue) \subseteq Range(queue') /\ op'.uid # w
        /\ \A e \in Range(queue') : e \in Range(queue) \/ e.uid # w
    BY <2>3, <2>4, <2>5
  <2>7. inst'[u] # None => inst'[u].obj # f.obj
    BY <2>1, <2>2
  <2> QED
    BY <2>1, <2>2, <2>3, <2>6, <2>7, OthersOwned
<1>2. ASSUME DeleteEnd
      PROVE  OwnedAs(f, w)'
  <2>1. /\ UNCHANGED <<tile, todo, uids, changed, queue, rows, highest, past>> /\ op' = None
        /\ op # None /\ op.name = "delete" /\ op.uid \in Uids
        /\ inst' = [inst EXCEPT ![op.uid] = None] /\ count' = [count EXCEPT ![op.uid] = 0]
        /\ inst \in [Uids -> Instance \cup {None}] /\ count \in [Uids -> Nat]
    BY <1>2 DEF DeleteEnd, disk, TypeOK, Ops
  <2>2. op.uid # w
    <3>1. past[f.obj] \in {"asOnDisk", "moved"}
      BY FirstTyped DEF TypeOK, Pasts
    <3> QED
      BY <2>1, <3>1 DEF OwnedAs, AsOnDisk, Moved, Moving, MoveSaved, MoveDropped
  <2>3. \A v \in Uids : v # op.uid => inst'[v] = inst[v] /\ count'[v] = count[v]
    BY <2>1
  <2>4. inst'[op.uid] = None
    BY <2>1
  <2> QED
    BY <2>1, <2>2, <2>3, <2>4, OthersOwned
<1> QED
  BY <1>1, <1>2

LEMMA SaveOwned ==
    ASSUME TypeOK, SaveAll \/ SaveChanged \/ \E t \in Tiles : SaveTile(t) \/ Import(t),
           NEW f \in FirstRows, NEW w \in Uids, OwnedAs(f, w), past'[f.obj] # "other"
    PROVE  OwnedAs(f, w)'
<1>1. PICK S \in SUBSET Tiles :
              /\ rows' = Written(S) /\ \A t \in S : tile[t] = "loaded" /\ todo[t] = {}
              /\ op = None /\ changed \ S \subseteq changed'
              /\ past' = Unsettled \/ (past' = past /\ queue = <<>>)
              /\ UNCHANGED <<inst, count, tile, todo, uids, queue, op, highest>>
  BY WrittenWhenLoaded
<1>2. \A t \in Tiles : rows'[t] = IF t \in S THEN SavedRows(t) ELSE rows[t]
  BY <1>1 DEF Written
<1>3. past'[f.obj] = past[f.obj] /\ (past[f.obj] = "moved" => queue = <<>>)
  BY <1>1, FirstTyped DEF Unsettled
<1>4. \A t \in Tiles : \A r \in SavedRows(t) :
         /\ r.uid \in uids[t] /\ r.uid \in Uids /\ inst[r.uid] # None
         /\ r = [uid |-> r.uid, obj |-> inst[r.uid].obj, place |-> inst[r.uid].place]
  BY DEF SavedRows, TypeOK
<1>5. \A t \in Tiles : \A r \in SavedRows(t) : r.uid = w <=> r.obj = f.obj
  BY <1>4 DEF OwnedAs, Owns
<1>6. Owns(f, w)'
  BY <1>1, <1>2, <1>5 DEF OwnedAs, Owns
<1>7. \A t \in Tiles : \A r \in SavedRows(t) :
         r.obj = f.obj => inst[w] # None /\ w \in uids[t] /\ r.place = inst[w].place
  BY <1>4, <1>5
<1>8. ASSUME AsOnDisk(f, w)
      PROVE  AsOnDisk(f, w)'
  <2>1. \A t \in Tiles : \A r \in rows'[t] : r.obj = f.obj => r.place = f.place
    BY <1>2, <1>7, <1>8 DEF AsOnDisk
  <2>2. \A t \in Tiles : RowOf(f, w) \in rows'[t] <=> t \in Touch[f.place]
    <3> SUFFICES ASSUME NEW t \in S PROVE RowOf(f, w) \in SavedRows(t) <=> t \in Touch[f.place]
      BY <1>2, <1>8 DEF AsOnDisk
    <3>1. t \in Tiles /\ tile[t] # "absent" /\ todo[t] = {}
      BY <1>1
    <3>2. w \in uids[t] <=> t \in Touch[f.place]
      BY <1>8, <3>1 DEF AsOnDisk
    <3>3. w \in uids[t] => inst[w] = [obj |-> f.obj, place |-> f.place, home |-> None] /\ inst[w] # None
      BY <1>8, <3>1 DEF AsOnDisk, Listing
    <3>4. w \in uids[t] => RowOf(f, w) \in SavedRows(t)
      BY <3>3 DEF SavedRows, RowOf
    <3>5. RowOf(f, w) \in SavedRows(t) => w \in uids[t]
      BY <1>4, <3>1 DEF RowOf
    <3> QED
      BY <3>2, <3>4, <3>5
  <2> QED
    BY <1>1, <1>8, <2>1, <2>2 DEF AsOnDisk, Listing
<1>9. ASSUME Moved(f, w), queue = <<>>
      PROVE  Moved(f, w)'
  <2>1. ASSUME NEW p \in Places, Moving(f, w, p), inst[w] # None, inst[w].place = p
        PROVE  MoveSaved(f, w, p)'
    <3>1. Touch[f.place] \subseteq changed
      <4>1. Range(queue) = {}
        BY <1>9 DEF Range
      <4> QED
        BY <2>1, <4>1 DEF Moving, Awaited
    <3>2. \A t \in Tiles : \A r \in rows'[t] :
             r.obj = f.obj => r.place = p \/ (r.place = f.place /\ t \in changed')
      BY <1>1, <1>2, <1>7, <2>1, <3>1 DEF Moving
    <3> QED
      BY <1>1, <2>1, <3>2 DEF MoveSaved
  <2>2. ASSUME NEW p \in Places, Moving(f, w, p), inst[w] = None \/ inst[w].place # p
        PROVE  MoveDropped(f, w)'
    BY <1>1, <1>2, <1>7, <2>2 DEF Moving, MoveDropped
  <2>3. ASSUME NEW p \in Places, MoveSaved(f, w, p)
        PROVE  MoveSaved(f, w, p)'
    BY <1>1, <1>2, <1>7, <2>3 DEF MoveSaved
  <2>4. MoveDropped(f, w) => MoveDropped(f, w)'
    BY <1>1, <1>2, <1>7 DEF MoveDropped
  <2> QED
    BY <1>9, <2>1, <2>2, <2>3, <2>4 DEF Moved
<1> QED
  BY <1>1, <1>3, <1>6, <1>8, <1>9 DEF OwnedAs

\* After a start or a fix nothing is in memory.
LEMMA EmptyOwned ==
    ASSUME TypeOK', UidsBelowHighest', StartupCheck, EmptyMemory,
           NEW f \in FirstRows, NEW w \in Uids, past'[f.obj] = "asOnDisk",
           \A t \in Tiles : \A r \in rows'[t] : r.uid = w <=> r.obj = f.obj,
           \A t \in Tiles : RowOf(f, w) \in rows'[t] <=> t \in Touch[f.place],
           \A t \in Tiles : \A r \in rows'[t] : r.obj = f.obj => r.place = f.place
    PROVE  OwnedAs(f, w)'
<1>1. \A u \in Uids : inst'[u] = None /\ count'[u] = 0
  BY DEF EmptyMemory
<1>2. \A t \in Tiles : tile'[t] = "absent" /\ uids'[t] = {} /\ todo'[t] = {}
  BY DEF EmptyMemory
<1>3. queue' = <<>> /\ op' = None
  BY DEF EmptyMemory
<1>4. w <= highest'
  <2>1. Centre[f.place] \in Touch[f.place] /\ Centre[f.place] \in Tiles
    BY FirstTyped
  <2>2. RowOf(f, w) \in rows'[Centre[f.place]]
    BY <2>1
  <2> QED
    BY <2>1, <2>2 DEF UidsBelowHighest, RowOf
<1>5. Listing(w)' = {}
  BY <1>2 DEF Listing
<1>6. AsOnDisk(f, w)'
  <2>1. Cardinality(Listing(w))' = 0
    BY <1>5, FS_EmptySet
  <2>2. Range(queue') = {}
    BY <1>3 DEF Range
  <2> QED
    BY <1>1, <1>2, <1>3, <1>5, <2>1, <2>2 DEF AsOnDisk
<1> QED
  BY <1>1, <1>4, <1>6 DEF OwnedAs, Owns

LEMMA StartOwned ==
    ASSUME TypeOK, TypeOK', UidsBelowHighest', StartupCheck, Start,
           NEW f \in FirstRows, NEW w \in Uids, OwnedAs(f, w), past'[f.obj] # "other"
    PROVE  OwnedAs(f, w)'
<1>1. past[f.obj] = "asOnDisk" /\ past'[f.obj] = "asOnDisk"
  BY FirstTyped DEF Start, Unsettled, TypeOK, Pasts
<1>2. rows' = rows /\ EmptyMemory
  BY DEF Start
<1> QED
  BY <1>1, <1>2, EmptyOwned DEF OwnedAs, Owns, AsOnDisk

LEMMA FixOwned ==
    ASSUME TypeOK, TypeOK', UidsBelowHighest', StartupCheck, FixUIDs,
           NEW f \in FirstRows, NEW w \in Uids, OwnedAs(f, w), past'[f.obj] # "other"
    PROVE  \E v \in Uids : OwnedAs(f, v)'
<1> DEFINE c == Centre[f.place]
           g == <<f.obj, f.place>>
<1>1. PICK S \in SUBSET Tiles : FixUIDs!(S)
  BY DEF FixUIDs
<1>2. /\ past[f.obj] = "asOnDisk" /\ past'[f.obj] = "asOnDisk"
      /\ ~ BadlyFixed(f.obj, S) /\ ~ SharesUid(UNION Range(rows'), f.obj)
  BY <1>1, FirstTyped DEF Unsettled, TypeOK, Pasts
<1>3. c \in Touch[f.place] /\ c \in Tiles /\ f.obj \in Objects /\ f.place \in Places
  BY FirstTyped
<1>4. AsOnDisk(f, w) /\ Owns(f, w)
  BY <1>2 DEF OwnedAs
<1>5. \A t \in Tiles : \A r \in rows[t] : r.obj = f.obj =>
         r.uid = w /\ r.place = f.place /\ t \in Touch[f.place]
  <2> SUFFICES ASSUME NEW t \in Tiles, NEW r \in rows[t], r.obj = f.obj
               PROVE  r.uid = w /\ r.place = f.place /\ t \in Touch[f.place]
    OBVIOUS
  <2>1. r.uid = w /\ r.place = f.place
    BY <1>4 DEF Owns, AsOnDisk
  <2>2. r = RowOf(f, w)
    BY <2>1, RowTyped DEF RowOf
  <2> QED
    BY <1>4, <2>1, <2>2 DEF AsOnDisk
<1>6. g \in Placed
  <2>1. RowOf(f, w) \in rows[c]
    BY <1>3, <1>4 DEF AsOnDisk
  <2> QED
    BY <1>3, <2>1 DEF Placed, RowOf
<1>7. \A h \in Placed : h[1] = f.obj => h = g
  BY <1>5 DEF Placed
<1>8. g \in Found /\ (S \cap Touch[f.place] = {} \/ Touch[f.place] \subseteq S)
  BY <1>2, <1>6 DEF BadlyFixed
<1>9. \A t \in Tiles : \A r \in FixedRows(t) : r.obj = f.obj =>
         r = RowOf(f, Numbering[g]) /\ t \in Touch[f.place]
  <2> SUFFICES ASSUME NEW t \in Tiles, NEW r \in FixedRows(t), r.obj = f.obj
               PROVE  r = RowOf(f, Numbering[g]) /\ t \in Touch[f.place]
    OBVIOUS
  <2>1. PICK h \in Found : r = [uid |-> Numbering[h], obj |-> h[1], place |-> h[2]] /\ t \in Touch[h[2]]
    BY DEF FixedRows
  <2>2. h = g
    BY <1>7, <2>1 DEF Found
  <2> QED
    BY <2>1, <2>2 DEF RowOf
<1>10. \A t \in Touch[f.place] : t \in Tiles /\ RowOf(f, Numbering[g]) \in FixedRows(t)
  BY <1>8, FirstTyped DEF FixedRows, RowOf
<1>11. \A t \in Tiles : rows'[t] = (IF t \in S THEN FixedRows(t) ELSE rows[t])
                         /\ rows'[t] \subseteq UNION Range(rows')
  BY <1>1 DEF Range
<1>12. ASSUME NEW v \in Uids, RowOf(f, v) \in rows'[c],
              \A t \in Tiles : \A r \in rows'[t] : r.obj = f.obj => r.uid = v /\ r.place = f.place,
              \A t \in Tiles : RowOf(f, v) \in rows'[t] <=> t \in Touch[f.place]
       PROVE  OwnedAs(f, v)'
  <2>1. \A t \in Tiles : \A r \in rows'[t] : r.uid = v => r.obj = f.obj
    BY <1>2, <1>3, <1>11, <1>12 DEF SharesUid, RowOf
  <2>2. EmptyMemory
    BY <1>1
  <2> QED
    BY <1>2, <1>12, <2>1, <2>2, EmptyOwned
<1>13. CASE Touch[f.place] \subseteq S
  <2>1. \A t \in Tiles : \A r \in rows'[t] :
           r.obj = f.obj => r = RowOf(f, Numbering[g]) /\ t \in Touch[f.place]
    <3> SUFFICES ASSUME NEW t \in Tiles, NEW r \in rows'[t], r.obj = f.obj
                 PROVE  r = RowOf(f, Numbering[g]) /\ t \in Touch[f.place]
      OBVIOUS
    <3>1. t \in S
      BY <1>5, <1>11, <1>13
    <3> QED
      BY <1>9, <1>11, <3>1
  <2>2. \A t \in Touch[f.place] : RowOf(f, Numbering[g]) \in rows'[t]
    BY <1>10, <1>11, <1>13
  <2>3. Numbering[g] \in Uids
    <3>1. rows'[c] \subseteq Row
      BY <1>3 DEF TypeOK
    <3> QED
      BY <1>3, <2>2, <3>1 DEF Row, RowOf
  <2> QED
    BY <1>3, <1>12, <2>1, <2>2, <2>3 DEF RowOf
<1>14. CASE S \cap Touch[f.place] = {}
  <2>1. \A t \in Tiles : \A r \in rows'[t] : r.obj = f.obj => r \in rows[t]
    BY <1>9, <1>11, <1>14
  <2>2. \A t \in Touch[f.place] : RowOf(f, w) \in rows'[t]
    <3>1. \A t \in Touch[f.place] : t \in Tiles
      BY FirstTyped
    <3> QED
      BY <1>4, <1>11, <1>14, <3>1 DEF AsOnDisk
  <2>3. \A t \in Tiles : RowOf(f, w) \in rows'[t] => t \in Touch[f.place]
    BY <1>5, <2>1 DEF RowOf
  <2> QED
    BY <1>3, <1>5, <1>12, <2>1, <2>2, <2>3
<1> QED
  BY <1>8, <1>13, <1>14

LEMMA InitOwned == Init /\ UidsBelowHighest => Owned
<1> SUFFICES ASSUME Init, UidsBelowHighest, StartupCheck,
                    NEW f \in FirstRows, f.obj \notin Clashing
             PROVE  \E w \in Uids : OwnedAs(f, w)
  BY DEF Owned
<1> DEFINE w == f.uid
<1>1. f \in Row /\ w \in Uids /\ f.obj \in Objects /\ f.place \in Places
      /\ \A q \in FirstRows : q.obj = f.obj => q = f
  BY FirstTyped
<1>2. f = RowOf(f, w)
  BY <1>1 DEF Row, RowOf
<1>3. \A q \in FirstRows : q.uid = w => q.obj = f.obj
  BY <1>1 DEF Clashing, SharesUid
<1>4. rows = [t \in Tiles |-> {q \in FirstRows : t \in Touch[q.place]}]
  BY DEF Init
<1>5. /\ \A u \in Uids : inst[u] = None /\ count[u] = 0
      /\ \A t \in Tiles : tile[t] = "absent" /\ uids[t] = {}
      /\ queue = <<>> /\ op = None /\ past[f.obj] = "asOnDisk"
  BY <1>1 DEF Init
<1>6. Owns(f, w)
  BY <1>1, <1>3, <1>4, <1>5 DEF Owns
<1>7. AsOnDisk(f, w)
  <2>1. \A t \in Tiles : RowOf(f, w) \in rows[t] <=> t \in Touch[f.place]
    BY <1>2, <1>4
  <2>2. \A t \in Tiles : \A r \in rows[t] : r.obj = f.obj => r.place = f.place
    BY <1>1, <1>4
  <2>3. Listing(w) = {} /\ Range(queue) = {}
    BY <1>5 DEF Listing, Range
  <2>4. count[w] = Cardinality(Listing(w))
    BY <1>1, <1>5, <2>3, FS_EmptySet
  <2> QED
    BY <1>1, <1>5, <2>1, <2>2, <2>3, <2>4 DEF AsOnDisk
<1>8. w <= highest
  <2>1. Centre[f.place] \in Touch[f.place] /\ Centre[f.place] \in Tiles
    BY FirstTyped
  <2>2. f \in rows[Centre[f.place]]
    BY <1>4, <2>1
  <2> QED
    BY <2>1, <2>2 DEF UidsBelowHighest
<1> QED
  BY <1>1, <1>5, <1>6, <1>7, <1>8 DEF OwnedAs

LEMMA StepOwned ==
    ASSUME TypeOK, TypeOK', UidsBelowHighest, UidsBelowHighest', WaitingRows, Owned, [Next]_vars
    PROVE  Owned'
<1> SUFFICES ASSUME StartupCheck, NEW f \in FirstRows, f.obj \notin Clashing, past'[f.obj] # "other"
             PROVE  \E w \in Uids : OwnedAs(f, w)'
  BY DEF Owned
<1>1. f.obj \in Objects /\ past[f.obj] # "other"
  BY FirstTyped, PastKept DEF vars
<1>2. PICK w \in Uids : OwnedAs(f, w)
  BY <1>1 DEF Owned
<1>3. ASSUME NEW t \in Tiles, OnTile(t)
      PROVE  \E v \in Uids : OwnedAs(f, v)'
  <2>1. CASE Load(t)
    BY <1>2, <2>1, LoadOwned
  <2>2. CASE StoreRow(t)
    BY <1>1, <1>2, <2>2, StoreRowOwned
  <2>3. CASE FinishTile(t)
    BY <1>2, <2>3, FinishOwned
  <2>4. CASE ApplyUpdate(t)
    BY <1>2, <2>4, ApplyOwned
  <2>5. CASE Unload(t) \/ Reload(t)
    BY <1>2, <2>5, ReleaseOwned
  <2>6. CASE SaveTile(t) \/ Import(t)
    BY <1>2, <2>6, SaveOwned
  <2> QED
    BY <1>3, <2>1, <2>2, <2>3, <2>4, <2>5, <2>6 DEF OnTile
<1>4. ASSUME OnObject
      PROVE  \E v \in Uids : OwnedAs(f, v)'
  <2>1. CASE \E u \in Uids, p \in Places : MoveBegin(u, p) \/ Snap(u, p)
    BY <1>2, <2>1, MoveOwned
  <2>2. CASE \E o \in Objects, p \in Places : Place(o, p)
    BY <1>2, <2>2, PlaceOwned
  <2>3. CASE (\E u \in Uids : DeleteBegin(u)) \/ DeleteEnd
    BY <1>1, <1>2, <2>3, DeleteOwned
  <2>4. CASE MoveEnd
    BY <1>1, <1>2, <2>4, MoveEndOwned
  <2> QED
    BY <1>4, <2>1, <2>2, <2>3, <2>4 DEF OnObject
<1>5. CASE SaveAll \/ SaveChanged
  BY <1>2, <1>5, SaveOwned
<1>6. CASE Start
  BY <1>2, <1>6, StartOwned
<1>7. CASE FixUIDs
  BY <1>2, <1>7, FixOwned
<1>8. CASE UNCHANGED vars
  <2>1. UNCHANGED <<inst, count, tile, todo, uids, changed, queue, op, rows, highest, past>>
    BY <1>8 DEF vars, memory, disk
  <2>2. OwnedAs(f, w)'
    BY <1>2, <2>1 DEF OwnedAs, Owns, AsOnDisk, Listing, Moved, Moving, MoveSaved, MoveDropped, Awaited
  <2> QED
    BY <2>2
<1> QED
  BY <1>3, <1>4, <1>5, <1>6, <1>7, <1>8 DEF Next

-----------------------------------------------------------------------------
\* Every step keeps what is said of the objects while nothing is edited

LEMMA LoneTyped ==
    ASSUME NEW f \in FirstRows, IsLone(f.obj)
    PROVE  /\ Touch[f.place] = {Centre[f.place]} /\ Centre[f.place] \in Tiles
           /\ \A q \in FirstRows : Model[q.obj] = Model[f.obj] /\ q.place = f.place => q = f
BY FirstTyped DEF IsLone

\* No object is paired with a uid that was not given out.
LEMMA PairedBelow ==
    ASSUME TypeOK, UidsBelowHighest, StartupCheck, NEW u \in Uids, NEW o, Paired(u, o)
    PROVE  u <= highest /\ o \in Objects
<1>1. CASE inst[u] # None /\ inst[u].obj = o
  BY <1>1, InstTyped DEF UidsBelowHighest
<1>2. ASSUME NEW t \in Tiles, NEW r \in rows[t], r.uid = u, r.obj = o
      PROVE  u <= highest /\ o \in Objects
  BY <1>2, RowTyped DEF UidsBelowHighest
<1> QED
  BY <1>1, <1>2 DEF Paired

\* Of an object that is alone at its place only its own rows are duplicates.
LEMMA LoneIsTold ==
    ASSUME TypeOK, Unedited, NEW f \in FirstRows, IsLone(f.obj),
           NEW u \in Uids, inst[u] # None, NEW t \in Tiles, NEW r \in rows[t], Accepts(u, r)
    PROVE  inst[u].obj = f.obj <=> r.obj = f.obj
<1>1. Model[inst[u].obj] = Model[r.obj] /\ inst[u].place = r.place
  BY DEF Unedited, Accepts, IsDuplicateOf, IsLeftoverOf
<1>2. PICK g \in FirstRows : g.obj = inst[u].obj /\ g.place = inst[u].place
  BY DEF Unedited, AtHome
<1>3. PICK h \in FirstRows : h.obj = r.obj /\ h.place = r.place
  BY DEF Unedited, AtHome
<1>4. g.obj = f.obj => g = f
  BY FirstTyped
<1>5. h.obj = f.obj => h = f
  BY FirstTyped
<1>6. g = f => h = f
  BY <1>1, <1>2, <1>3, LoneTyped
<1>7. h = f => g = f
  BY <1>1, <1>2, <1>3, LoneTyped
<1> QED
  BY <1>2, <1>3, <1>4, <1>5, <1>6, <1>7

\* What storing a row does to uids, objects and lists when nothing is edited.
StoredAs(t, r, u) ==
    /\ r \in rows[t] /\ StoresAs(r, u) /\ Accepts(u, r)
    /\ u = r.uid \/ (u > highest /\ inst[u] = None)
    /\ inst'[u] # None
    /\ inst[u] = None => /\ inst'[u].obj = r.obj /\ inst'[u].place = r.place
                         /\ inst'[u].home = None
    /\ inst[u] # None => inst'[u] = inst[u]
    /\ \A v \in Uids : v # u => inst'[v] = inst[v] /\ count'[v] = count[v]
    /\ count'[u] = count[u] + 1
    /\ highest' = IF u = r.uid THEN highest ELSE u
    /\ uids' = [uids EXCEPT ![t] = @ \cup {u}]
    /\ todo' = [todo EXCEPT ![t] = @ \ {r}]
    /\ Listing(u)' = Listing(u) \cup {t}
    /\ \A v \in Uids : v # u => Listing(v)' = Listing(v)
    /\ \A e \in Range(queue') :
          e \in Range(queue) \/ (u # r.uid /\ e = Update("add", u, r.place, FALSE))
    /\ \A v \in Uids, o \in Objects : Paired(v, o) => Paired(v, o)'
    /\ \A v \in Uids, o \in Objects : Paired(v, o)' =>
          Paired(v, o) \/ (v = u /\ u # r.uid /\ o = r.obj)

LEMMA StoredWhere ==
    ASSUME TypeOK, UidsBelowHighest, StartupCheck, WaitingRows, Unedited,
           NEW t \in Tiles, StoreRow(t)
    PROVE  \E r \in todo[t], u \in Uids : StoredAs(t, r, u)
<1>1. PICK r \in todo[t], u \in Uids : StoreRow(t)!(r, u)
  BY DEF StoreRow
<1>2. r \in rows[t] /\ r \in Row /\ r.uid \in Uids /\ r.obj \in Objects /\ r.place \in Places
  BY RowTyped DEF WaitingRows
<1>3. \A v \in Uids : inst[v] # None => v <= highest /\ ~ (v > highest)
  BY DEF UidsBelowHighest, TypeOK, Uids
<1>4. Accepts(u, r) /\ (u = r.uid \/ (u > highest /\ inst[u] = None))
  BY <1>1, <1>3 DEF StoresAs, FreshUids
<1> DEFINE new == [obj |-> r.obj, place |-> r.place, home |-> None]
<1>5. new \in Instance /\ new # None
  <2>1. new \in Instance
    BY <1>2 DEF Instance
  <2> QED
    BY <2>1, ObjectsAssumption
<1>6. /\ inst'[u] = IF inst[u] = None THEN new ELSE inst[u]
      /\ \A v \in Uids : v # u => inst'[v] = inst[v] /\ count'[v] = count[v]
      /\ count'[u] = count[u] + 1
  <2> HIDE DEF new
  <2>1. inst' = IF inst[u] = None THEN [inst EXCEPT ![u] = new] ELSE inst
    BY <1>1 DEF new
  <2> QED
    BY <1>1, <2>1 DEF TypeOK
<1>7. /\ Listing(u)' = Listing(u) \cup {t}
      /\ \A v \in Uids : v # u => Listing(v)' = Listing(v)
  BY <1>1 DEF Listing, TypeOK
<1>8. \A e \in Range(queue') :
         e \in Range(queue) \/ (u # r.uid /\ e = Update("add", u, r.place, FALSE))
  <2> DEFINE x == Update("add", u, inst'[u].place, FALSE)
  <2>1. tile[t] # "reloading"
    BY DEF Unedited
  <2>2. CASE u = r.uid
    <3>1. queue' = queue
      BY <1>1, <2>1, <2>2
    <3> QED
      BY <3>1
  <2>3. CASE u # r.uid
    <3>1. inst'[u].place = r.place
      BY <1>4, <1>6, <2>3
    <3>2. queue' = Append(queue, x) /\ x \in Updates
      BY <1>1, <1>2, <2>3, <3>1, UpdateTyped
    <3>3. Range(queue') = Range(queue) \cup {x}
      <4> HIDE DEF x
      <4> QED
        BY <3>2, QueueGrows
    <3> QED
      BY <2>3, <3>1, <3>3
  <2> QED
    BY <2>2, <2>3
<1>9. rows' = rows
  BY <1>1 DEF disk
<1>10. \A v \in Uids, o \in Objects : Paired(v, o) => Paired(v, o)'
  <2> HIDE DEF new
  <2> QED
    BY <1>6, <1>9 DEF Paired
<1>11. ASSUME NEW v \in Uids, NEW o \in Objects, Paired(v, o)'
       PROVE  Paired(v, o) \/ (v = u /\ u # r.uid /\ o = r.obj)
  <2>1. CASE v # u \/ inst[u] # None
    <3> HIDE DEF new
    <3> QED
      BY <1>6, <1>9, <1>11, <2>1 DEF Paired
  <2>2. CASE v = u /\ inst[u] = None
    <3>1. inst'[u].obj = r.obj
      BY <1>6, <2>2
    <3>2. Paired(v, o) \/ o = r.obj
      BY <1>9, <1>11, <2>2, <3>1 DEF Paired
    <3>3. u = r.uid => Paired(u, r.obj)
      BY <1>2 DEF Paired
    <3> QED
      BY <2>2, <3>2, <3>3
  <2> QED
    BY <2>1, <2>2
<1>12. /\ inst[u] = None => inst'[u].obj = r.obj /\ inst'[u].place = r.place /\ inst'[u].home = None
       /\ inst[u] # None => inst'[u] = inst[u]
       /\ inst'[u] # None
  BY <1>5, <1>6
<1>13. /\ StoresAs(r, u) /\ highest' = IF u = r.uid THEN highest ELSE u
       /\ uids' = [uids EXCEPT ![t] = @ \cup {u}] /\ todo' = [todo EXCEPT ![t] = @ \ {r}]
  BY <1>1
<1> HIDE DEF new
<1>14. /\ r \in rows[t] /\ StoresAs(r, u) /\ Accepts(u, r)
       /\ u = r.uid \/ (u > highest /\ inst[u] = None)
  BY <1>2, <1>4, <1>13
<1> QED
  BY <1>6, <1>7, <1>8, <1>10, <1>11, <1>12, <1>13, <1>14 DEF StoredAs

\* Without an edit, the steps are those of tiles, saves, starts and fixes.
LEMMA OnlyTiles ==
    ASSUME TypeOK, Unedited, edits = 0, edits' = 0, Next
    PROVE  \/ \E t \in Tiles : Load(t) \/ StoreRow(t) \/ FinishTile(t) \/ ApplyUpdate(t) \/ Unload(t)
           \/ SaveAll \/ SaveChanged \/ \E t \in Tiles : SaveTile(t) \/ Import(t)
           \/ Start \/ FixUIDs
<1>1. \A t \in Tiles : ~ Reload(t)
  BY DEF Reload
<1>2. ~ OnObject
  BY DEF OnObject, MoveBegin, Snap, Place, DeleteBegin, MoveEnd, DeleteEnd, Unedited
<1> QED
  BY <1>1, <1>2 DEF Next, OnTile

\* The parts of the invariant that a step needs.
Quiet == TypeOK /\ UidsBelowHighest /\ WaitingRows /\ StartupCheck /\ edits = 0
         /\ Unedited /\ NumbersBelow /\ Renumbered /\ CountedRight

LEMMA SavedAre ==
    ASSUME TypeOK, NEW t \in Tiles, NEW r \in SavedRows(t)
    PROVE  /\ r.uid \in uids[t] /\ r.uid \in Uids /\ inst[r.uid] # None
           /\ r.obj = inst[r.uid].obj /\ r.place = inst[r.uid].place
           /\ \A q \in SavedRows(t) : q.uid = r.uid => q = r
BY DEF SavedRows, TypeOK

LEMMA FixedAre ==
    ASSUME TypeOK, Cardinality(Found) <= MaxUid, NEW t \in Tiles, NEW r \in FixedRows(t)
    PROVE  /\ \E s \in Tiles : \E q \in rows[s] :
                 q.obj = r.obj /\ q.place = r.place /\ <<q.obj, q.place>> \in Found
           /\ t \in Touch[r.place]
           /\ \A q \in FixedRows(t) : q.uid = r.uid => q = r
<1>1. PICK h \in Found : r = [uid |-> Numbering[h], obj |-> h[1], place |-> h[2]] /\ t \in Touch[h[2]]
  BY DEF FixedRows
<1>2. PICK s \in Tiles : \E q \in rows[s] : h = <<q.obj, q.place>>
  BY DEF Found, Placed
<1>3. \E q \in rows[s] : q.obj = r.obj /\ q.place = r.place /\ <<q.obj, q.place>> \in Found
  <2>1. PICK q \in rows[s] : h = <<q.obj, q.place>> /\ h[1] = q.obj /\ h[2] = q.place
    BY <1>2
  <2>2. r.obj = h[1] /\ r.place = h[2]
    BY <1>1
  <2> QED
    BY <1>1, <2>1, <2>2
<1>4. t \in Touch[r.place]
  BY <1>1
<1>5. ASSUME NEW k \in FixedRows(t), k.uid = r.uid
      PROVE  k = r
  <2>1. PICK g \in Found : k = [uid |-> Numbering[g], obj |-> g[1], place |-> g[2]]
    BY DEF FixedRows
  <2>2. Numbering[g] = Numbering[h]
    BY <1>1, <1>5, <2>1
  <2>3. g = h
    BY <2>2, NumberingIsThere DEF Injection, IsInjective
  <2> QED
    BY <1>1, <2>1, <2>3
<1> QED
  BY <1>3, <1>4, <1>5

LEMMA StepUnedited ==
    ASSUME Quiet, edits' = 0, Next
    PROVE  Unedited'
<1> USE DEF Quiet
<1>1. ASSUME NEW t \in Tiles, Load(t) \/ FinishTile(t)
      PROVE  Unedited'
  <2>1. /\ UNCHANGED <<inst, changed, queue, op, rows, past>>
        /\ \A s \in Tiles : tile'[s] = tile[s] \/ tile'[s] \in {"loading", "loaded"}
    BY <1>1 DEF Load, FinishTile, disk, TypeOK
  <2> QED
    BY <2>1 DEF Unedited
<1>2. ASSUME NEW t \in Tiles, StoreRow(t)
      PROVE  Unedited'
  <2>1. PICK r \in todo[t], u \in Uids : StoredAs(t, r, u)
    BY <1>2, StoredWhere
  <2>2. UNCHANGED <<tile, changed, op, rows, past>>
    BY <1>2 DEF StoreRow, disk
  <2>3. \A v \in Uids : inst'[v] # None => AtHome(inst'[v].obj, inst'[v].place) /\ inst'[v].home = None
    BY <2>1 DEF Unedited, StoredAs
  <2>4. \A e \in Range(queue') : e.type = "add" /\ ~ e.edit
    BY <2>1 DEF Unedited, Update, StoredAs
  <2> QED
    BY <2>2, <2>3, <2>4 DEF Unedited
<1>3. ASSUME NEW t \in Tiles, ApplyUpdate(t)
      PROVE  Unedited'
  <2>1. /\ ~ Head(queue).edit
        /\ \A e \in Range(queue') : e.type = "add" /\ ~ e.edit
    BY <1>3, QueueShrinks DEF Unedited
  <2>2. UNCHANGED <<inst, tile, op, rows, past, changed>>
    BY <1>3, <2>1 DEF ApplyUpdate, disk
  <2> QED
    BY <2>1, <2>2 DEF Unedited
<1>4. ASSUME NEW t \in Tiles, Unload(t)
      PROVE  Unedited'
  <2>1. /\ UNCHANGED <<changed, queue, op, rows, past>>
        /\ \A s \in Tiles : tile'[s] = tile[s] \/ tile'[s] = "absent"
    BY <1>4 DEF Unload, disk, TypeOK
  <2>2. \A u \in Uids : inst'[u] # None => inst'[u] = inst[u] /\ inst[u] # None
    BY <1>4, Released
  <2> QED
    BY <2>1, <2>2 DEF Unedited
<1>5. CASE SaveAll \/ SaveChanged \/ \E t \in Tiles : SaveTile(t) \/ Import(t)
  <2>1. PICK S \in SUBSET Tiles :
              /\ rows' = Written(S) /\ changed' \subseteq changed
              /\ past' = Unsettled \/ past' = past
              /\ UNCHANGED <<inst, tile, queue, op>>
    BY <1>5, WrittenWhenLoaded
  <2>2. \A o \in Objects : past'[o] # "moved"
    BY <2>1 DEF Unedited, Unsettled
  <2>3. \A t \in Tiles : rows'[t] = rows[t] \/ rows'[t] = SavedRows(t)
    BY <2>1 DEF Written
  <2>4. \A t \in Tiles : \A r \in rows'[t] : AtHome(r.obj, r.place)
    BY <2>3, SavedAre DEF Unedited
  <2>5. \A t \in Tiles : \A r, q \in rows'[t] :
           r.uid = q.uid /\ Model[r.obj] = Model[q.obj] /\ r.place = q.place => r = q
    BY <2>3, SavedAre DEF Unedited
  <2> QED
    BY <2>1, <2>2, <2>4, <2>5 DEF Unedited
<1>6. CASE Start \/ FixUIDs
  <2>1. /\ op' = None /\ changed' = {} /\ queue' = <<>>
        /\ \A t \in Tiles : tile'[t] = "absent"
        /\ \A u \in Uids : inst'[u] = None
    BY <1>6 DEF Start, FixUIDs, EmptyMemory
  <2>2. \A o \in Objects : past'[o] # "moved"
    BY <1>6 DEF Start, FixUIDs, Unsettled, Unedited
  <2>3. Range(queue') = {}
    BY <2>1 DEF Range
  <2>4. \A t \in Tiles : \/ rows'[t] = rows[t]
                         \/ rows'[t] = FixedRows(t) /\ Cardinality(Found) <= MaxUid
    BY <1>6 DEF Start, FixUIDs
  <2>5. \A t \in Tiles : \A r \in rows'[t] : AtHome(r.obj, r.place)
    <3> SUFFICES ASSUME NEW t \in Tiles, NEW r \in FixedRows(t), Cardinality(Found) <= MaxUid
                 PROVE  AtHome(r.obj, r.place)
      BY <2>4 DEF Unedited
    <3>1. PICK s \in Tiles : \E q \in rows[s] : q.obj = r.obj /\ q.place = r.place
      BY FixedAre
    <3> QED
      BY <3>1 DEF Unedited
  <2>6. \A t \in Tiles : \A r, q \in rows'[t] :
           r.uid = q.uid /\ Model[r.obj] = Model[q.obj] /\ r.place = q.place => r = q
    BY <2>4, FixedAre DEF Unedited
  <2> QED
    BY <2>1, <2>2, <2>3, <2>5, <2>6 DEF Unedited
<1> QED
  BY <1>1, <1>2, <1>3, <1>4, <1>5, <1>6, OnlyTiles

\* But for the rows that are stored under a fresh uid, no object gets a uid.
LEMMA NoNewPairs ==
    ASSUME TypeOK, NEW u \in Uids, NEW o \in Objects, Paired(u, o)',
           \/ \E t \in Tiles : Load(t) \/ FinishTile(t) \/ ApplyUpdate(t) \/ Unload(t)
           \/ SaveAll \/ SaveChanged \/ \E t \in Tiles : SaveTile(t) \/ Import(t)
    PROVE  Paired(u, o)
<1>1. ASSUME NEW t \in Tiles, Load(t) \/ FinishTile(t) \/ ApplyUpdate(t)
      PROVE  Paired(u, o)
  <2>1. rows' = rows /\ inst' = inst
    BY <1>1 DEF Load, FinishTile, ApplyUpdate, disk
  <2> QED
    BY <2>1 DEF Paired
<1>2. ASSUME NEW t \in Tiles, Unload(t)
      PROVE  Paired(u, o)
  <2>1. rows' = rows /\ (inst'[u] # None => inst'[u] = inst[u])
    BY <1>2, Released DEF Unload, disk
  <2> QED
    BY <2>1 DEF Paired
<1>3. CASE SaveAll \/ SaveChanged \/ \E t \in Tiles : SaveTile(t) \/ Import(t)
  <2>1. PICK S \in SUBSET Tiles : rows' = Written(S) /\ inst' = inst
    BY <1>3, WrittenWhenLoaded
  <2>2. \A t \in Tiles : rows'[t] = rows[t] \/ rows'[t] = SavedRows(t)
    BY <2>1 DEF Written
  <2>3. ASSUME NEW t \in Tiles, NEW r \in SavedRows(t), r.uid = u, r.obj = o
        PROVE  Paired(u, o)
    BY <2>3, SavedAre DEF Paired
  <2> QED
    BY <2>1, <2>2, <2>3 DEF Paired
<1> QED
  BY <1>1, <1>2, <1>3

LEMMA EmptyQuiet ==
    ASSUME TypeOK, Start \/ FixUIDs
    PROVE  /\ NumbersBelow' /\ Renumbered' /\ CountedRight'
           /\ \A u \in Uids : inst'[u] = None /\ Listing(u)' = {}
           /\ \A t \in Tiles : tile'[t] = "absent"
<1>1. /\ \A u \in Uids : inst'[u] = None /\ count'[u] = 0
      /\ \A t \in Tiles : tile'[t] = "absent" /\ uids'[t] = {} /\ todo'[t] = {}
      /\ queue' = <<>>
  BY DEF Start, FixUIDs, EmptyMemory
<1>2. Range(queue') = {}
  BY <1>1 DEF Range
<1>3. \A u : Listing(u)' = {}
  BY <1>1 DEF Listing
<1>4. \A u : Cardinality(Listing(u))' = 0
  BY <1>3, FS_EmptySet
<1> QED
  BY <1>1, <1>2, <1>3, <1>4 DEF NumbersBelow, Renumbered, CountedRight

\* A uid that is stored freshly belongs to the stored object alone.
LEMMA FreshIsLone ==
    ASSUME Quiet, NEW t \in Tiles, NEW r \in todo[t], NEW u \in Uids, StoredAs(t, r, u)
    PROVE  /\ r \in Row /\ r.obj \in Objects
           /\ u # r.uid => /\ \A o : ~ Paired(u, o)
                           /\ \A o \in Objects : Paired(u, o)' => o = r.obj
                           /\ Listing(u) = {} /\ \A e \in Range(queue) : e.uid # u
           /\ \A v \in Uids : Contested(v)' => Contested(v)
           /\ \A v \in Uids : Contested(v) => Contested(v)' /\ (u # r.uid => v # u)
<1>1. r \in Row /\ r.obj \in Objects
  BY RowTyped DEF Quiet
<1>2. ASSUME u # r.uid
      PROVE  /\ \A o : ~ Paired(u, o)
             /\ \A o \in Objects : Paired(u, o)' => o = r.obj
             /\ Listing(u) = {} /\ \A e \in Range(queue) : e.uid # u
  <2>1. u > highest /\ highest \in Nat /\ \A v \in Uids : v <= highest => v # u
    BY <1>2 DEF StoredAs, Quiet, TypeOK, Uids
  <2>2. \A o : ~ Paired(u, o)
    BY <2>1, PairedBelow DEF Quiet
  <2>3. \A e \in Range(queue) : e.uid # u
    <3>1. \A e \in Range(queue) : e.uid <= highest
      BY DEF Quiet, NumbersBelow
    <3>2. ~ (u <= highest)
      BY <2>1 DEF Uids
    <3> QED
      BY <3>1, <3>2
  <2>4. Listing(u) = {}
    BY <2>1 DEF Listing, Quiet, NumbersBelow
  <2>5. \A o \in Objects : Paired(u, o)' => o = r.obj
    BY <2>2 DEF StoredAs
  <2> QED
    BY <2>2, <2>3, <2>4, <2>5
<1>3. ASSUME NEW v \in Uids, Contested(v)'
      PROVE  Contested(v)
  <2>1. PICK o \in Objects, m \in Objects : o # m /\ Paired(v, o)' /\ Paired(v, m)'
    BY <1>3 DEF Contested
  <2>2. v # u \/ u = r.uid
    BY <1>2, <2>1
  <2>3. Paired(v, o) /\ Paired(v, m)
    BY <2>1, <2>2 DEF StoredAs
  <2> QED
    BY <2>1, <2>3 DEF Contested
<1>4. ASSUME NEW v \in Uids, Contested(v)
      PROVE  Contested(v)' /\ (u # r.uid => v # u)
  <2>1. PICK o \in Objects, m \in Objects : o # m /\ Paired(v, o) /\ Paired(v, m)
    BY <1>4 DEF Contested
  <2>2. Paired(v, o)' /\ Paired(v, m)'
    BY <2>1 DEF StoredAs
  <2> QED
    BY <1>2, <2>1, <2>2 DEF Contested
<1> QED
  BY <1>1, <1>2, <1>3, <1>4

LEMMA StepNumbers ==
    ASSUME Quiet, edits' = 0, Next
    PROVE  NumbersBelow'
<1> USE DEF Quiet
<1>1. ASSUME NEW t \in Tiles, Load(t) \/ FinishTile(t)
      PROVE  NumbersBelow'
  BY <1>1 DEF Load, FinishTile, NumbersBelow
<1>2. ASSUME NEW t \in Tiles, StoreRow(t)
      PROVE  NumbersBelow'
  <2>1. PICK r \in todo[t], u \in Uids : StoredAs(t, r, u)
    BY <1>2, StoredWhere
  <2>2. r.uid <= highest /\ highest \in Nat /\ \A v \in Uids : v \in Nat
    BY <2>1 DEF UidsBelowHighest, TypeOK, Uids
  <2>3. highest' \in Nat /\ highest <= highest' /\ u <= highest'
    BY <2>1, <2>2 DEF StoredAs
  <2>4. \A s \in Tiles : \A v \in uids'[s] : v <= highest'
    <3> SUFFICES ASSUME NEW s \in Tiles, NEW v \in uids[s] PROVE v <= highest'
      BY <2>1, <2>3 DEF StoredAs, TypeOK
    <3>1. v \in Uids /\ v <= highest
      BY DEF TypeOK, NumbersBelow
    <3> QED
      BY <2>2, <2>3, <3>1
  <2>5. \A e \in Range(queue') : e.uid <= highest'
    <3> SUFFICES ASSUME NEW e \in Range(queue') PROVE e.uid <= highest'
      OBVIOUS
    <3>1. CASE e \in Range(queue)
      <4>1. e.uid <= highest
        BY <3>1 DEF NumbersBelow
      <4>2. Range(queue) \subseteq Updates
        BY DEF Range, TypeOK
      <4>3. e.uid \in Uids
        BY <3>1, <4>2 DEF Updates
      <4> QED
        BY <2>2, <2>3, <4>1, <4>3
    <3>2. CASE e = Update("add", u, r.place, FALSE)
      BY <2>3, <3>2 DEF Update
    <3> QED
      BY <2>1, <3>1, <3>2 DEF StoredAs
  <2> QED
    BY <2>4, <2>5 DEF NumbersBelow
<1>3. ASSUME NEW t \in Tiles, ApplyUpdate(t)
      PROVE  NumbersBelow'
  <2>1. /\ Head(queue) \in Range(queue)
        /\ \A e \in Range(queue') : \E d \in Range(queue) : e.uid = d.uid
        /\ highest' = highest
    BY <1>3, QueueShrinks DEF ApplyUpdate
  <2>2. \A s \in Tiles : uids'[s] \subseteq uids[s] \cup {Head(queue).uid}
    <3>1. \/ uids' = [uids EXCEPT ![t] = @ \cup {Head(queue).uid}]
          \/ uids' = [uids EXCEPT ![t] = @ \ {Head(queue).uid}]
          \/ uids' = uids
      BY <1>3 DEF ApplyUpdate
    <3>2. DOMAIN uids = Tiles
      BY DEF TypeOK
    <3> QED
      BY <3>1, <3>2
  <2> QED
    BY <2>1, <2>2 DEF NumbersBelow
<1>4. ASSUME NEW t \in Tiles, Unload(t)
      PROVE  NumbersBelow'
  <2>1. uids' = [uids EXCEPT ![t] = {}] /\ UNCHANGED <<queue, highest>>
    BY <1>4 DEF Unload
  <2> QED
    BY <2>1 DEF NumbersBelow, TypeOK
<1>5. CASE SaveAll \/ SaveChanged \/ \E t \in Tiles : SaveTile(t) \/ Import(t)
  BY <1>5, WrittenWhenLoaded DEF NumbersBelow
<1>6. CASE Start \/ FixUIDs
  BY <1>6, EmptyQuiet
<1> QED
  BY <1>1, <1>2, <1>3, <1>4, <1>5, <1>6, OnlyTiles

LEMMA StepRenumbered ==
    ASSUME Quiet, edits' = 0, Next
    PROVE  Renumbered'
<1> USE DEF Quiet
<1>1. ASSUME \A e \in Range(queue') : \E d \in Range(queue) : e.uid = d.uid /\ e.left \subseteq d.left,
             \/ \E t \in Tiles : Load(t) \/ FinishTile(t) \/ ApplyUpdate(t) \/ Unload(t)
             \/ SaveAll \/ SaveChanged \/ \E t \in Tiles : SaveTile(t) \/ Import(t)
      PROVE  Renumbered'
  <2> SUFFICES ASSUME NEW e \in Range(queue')
               PROVE  /\ ~ Contested(e.uid)'
                      /\ \A f \in FirstRows : Paired(e.uid, f.obj)' => e.left \subseteq Touch[f.place]
    BY DEF Renumbered
  <2>1. PICK d \in Range(queue) : e.uid = d.uid /\ e.left \subseteq d.left
    BY <1>1
  <2>2. e.uid \in Uids
    <3>1. Range(queue) \subseteq Updates
      BY DEF Range, TypeOK
    <3> QED
      BY <2>1, <3>1 DEF Updates
  <2>3. \A o \in Objects : Paired(e.uid, o)' => Paired(e.uid, o)
    BY <1>1, <2>2, NoNewPairs
  <2>4. ~ Contested(e.uid)'
    BY <2>1, <2>3 DEF Contested, Renumbered
  <2> QED
    BY <2>1, <2>3, <2>4, FirstTyped DEF Renumbered
<1>2. ASSUME NEW t \in Tiles, Load(t) \/ FinishTile(t) \/ Unload(t)
      PROVE  Renumbered'
  <2>1. queue' = queue
    BY <1>2 DEF Load, FinishTile, Unload
  <2> QED
    BY <1>1, <1>2, <2>1
<1>3. ASSUME NEW t \in Tiles, ApplyUpdate(t)
      PROVE  Renumbered'
  BY <1>1, <1>3, QueueShrinks
<1>4. CASE SaveAll \/ SaveChanged \/ \E t \in Tiles : SaveTile(t) \/ Import(t)
  <2>1. queue' = queue
    BY <1>4, WrittenWhenLoaded
  <2> QED
    BY <1>1, <1>4, <2>1
<1>5. ASSUME NEW t \in Tiles, StoreRow(t)
      PROVE  Renumbered'
  <2>1. PICK r \in todo[t], u \in Uids : StoredAs(t, r, u)
    BY <1>5, StoredWhere
  <2> SUFFICES ASSUME NEW e \in Range(queue')
               PROVE  /\ ~ Contested(e.uid)'
                      /\ \A f \in FirstRows : Paired(e.uid, f.obj)' => e.left \subseteq Touch[f.place]
    BY DEF Renumbered
  <2>2. CASE e \in Range(queue)
    <3>1. e.uid \in Uids
      <4>1. Range(queue) \subseteq Updates
        BY DEF Range, TypeOK
      <4> QED
        BY <2>2, <4>1 DEF Updates
    <3>2. ~ Contested(e.uid)'
      BY <2>1, <2>2, <3>1, FreshIsLone DEF Renumbered
    <3>3. e.uid # u \/ u = r.uid
      BY <2>1, <2>2, FreshIsLone
    <3>4. \A o \in Objects : Paired(e.uid, o)' => Paired(e.uid, o)
      BY <2>1, <3>1, <3>3 DEF StoredAs
    <3> QED
      BY <2>2, <3>2, <3>4, FirstTyped DEF Renumbered
  <2>3. CASE u # r.uid /\ e = Update("add", u, r.place, FALSE)
    <3>1. e.uid = u /\ e.left = Touch[r.place]
      BY <2>3 DEF Update
    <3>2. \A o \in Objects : Paired(u, o)' => o = r.obj
      BY <2>1, <2>3, FreshIsLone
    <3>3. ~ Contested(u)'
      BY <3>2 DEF Contested
    <3>4. PICK g \in FirstRows : g.obj = r.obj /\ g.place = r.place
      BY <2>1 DEF StoredAs, Unedited, AtHome
    <3>5. \A f \in FirstRows : f.obj = r.obj => f.place = r.place
      BY <3>4, FirstTyped
    <3> QED
      BY <3>1, <3>2, <3>3, <3>5, FirstTyped
  <2> QED
    BY <2>1, <2>2, <2>3 DEF StoredAs
<1>6. CASE Start \/ FixUIDs
  BY <1>6, EmptyQuiet
<1> QED
  BY <1>2, <1>3, <1>4, <1>5, <1>6, OnlyTiles

\* A uid that is counted right is so after a tile was released.
LEMMA ReleasedRight ==
    ASSUME TypeOK, TypeOK', NEW t \in Tiles, Unload(t), NEW u \in Uids,
           count[u] = Cardinality(Listing(u))
    PROVE  /\ count'[u] = Cardinality(Listing(u))'
           /\ inst'[u] = None => Listing(u)' = {}
<1>1. Listing(u)' = Listing(u) \ {t} /\ (t \in Listing(u) <=> u \in uids[t])
  BY Released DEF Listing
<1>2. /\ IsFiniteSet(Listing(u)) /\ Listing(u) \in SUBSET Tiles
      /\ Cardinality(Listing(u)) = 0 <=> Listing(u) = {}
  BY ListingFinite
<1>3. Cardinality(Listing(u) \ {t})
         = IF t \in Listing(u) THEN Cardinality(Listing(u)) - 1 ELSE Cardinality(Listing(u))
  BY <1>2, OneTileLess
<1>4. inst[u] = None => Listing(u) = {}
  BY <1>2 DEF TypeOK
<1>5. count'[u] = Cardinality(Listing(u))'
  BY <1>1, <1>3, <1>4, Released
<1>6. inst'[u] = None => count'[u] = 0
  BY DEF TypeOK
<1>7. IsFiniteSet(Listing(u) \ {t})
  BY <1>2, FS_Subset
<1> QED
  BY <1>1, <1>5, <1>6, <1>7, FS_EmptySet

LEMMA StepCounted ==
    ASSUME Quiet, TypeOK', edits' = 0, Next
    PROVE  CountedRight'
<1> USE DEF Quiet
<1> DEFINE Right(u) == /\ count[u] = Cardinality(Listing(u))
                       /\ \A t \in Tiles : \A r \in todo[t] :
                             r.uid = u /\ u \in uids[t] => ~ IsDuplicateOf(inst[u], r)
<1>1. ASSUME NEW t \in Tiles, Load(t) \/ FinishTile(t) \/ ApplyUpdate(t)
      PROVE  CountedRight'
  <2> SUFFICES ASSUME NEW u \in Uids, Contested(u)'
               PROVE  Right(u)'
    BY DEF CountedRight
  <2>1. Contested(u)
    BY <1>1, NoNewPairs DEF Contested
  <2>2. Right(u)
    BY <2>1 DEF CountedRight
  <2>3. UNCHANGED <<count, inst>>
    BY <1>1 DEF Load, FinishTile, ApplyUpdate
  <2>4. \A s \in Tiles : u \in uids'[s] <=> u \in uids[s]
    <3>1. CASE Load(t) \/ FinishTile(t)
      BY <3>1 DEF Load, FinishTile
    <3>2. CASE ApplyUpdate(t)
      <4>1. Head(queue).uid # u
        BY <2>1, <3>2, QueueShrinks DEF Renumbered
      <4>2. \/ uids' = [uids EXCEPT ![t] = @ \cup {Head(queue).uid}]
            \/ uids' = [uids EXCEPT ![t] = @ \ {Head(queue).uid}]
            \/ uids' = uids
        BY <3>2 DEF ApplyUpdate
      <4>3. DOMAIN uids = Tiles
        BY DEF TypeOK
      <4> QED
        BY <4>1, <4>2, <4>3
    <3> QED
      BY <1>1, <3>1, <3>2
  <2>5. \A s \in Tiles : u \in uids[s] => todo'[s] \subseteq todo[s]
    <3>1. CASE Load(t)
      <4>1. todo' = [todo EXCEPT ![t] = rows[t]] /\ tile[t] = "absent"
        BY <3>1 DEF Load
      <4>2. DOMAIN todo = Tiles /\ uids[t] = {}
        BY <4>1 DEF TypeOK
      <4> QED
        BY <4>1, <4>2
    <3>2. CASE FinishTile(t)
      BY <3>2 DEF FinishTile
    <3>3. CASE ApplyUpdate(t)
      BY <3>3 DEF ApplyUpdate
    <3> QED
      BY <1>1, <3>1, <3>2, <3>3
  <2>6. Listing(u)' = Listing(u)
    BY <2>4 DEF Listing
  <2>7. \A s \in Tiles : \A r \in todo'[s] :
           r.uid = u /\ u \in uids'[s] => ~ IsDuplicateOf(inst'[u], r)
    BY <2>2, <2>3, <2>4, <2>5
  <2>8. count'[u] = Cardinality(Listing(u))'
    BY <2>2, <2>3, <2>6
  <2> QED
    BY <2>7, <2>8 DEF IsDuplicateOf
<1>2. ASSUME NEW t \in Tiles, Unload(t)
      PROVE  CountedRight'
  <2> SUFFICES ASSUME NEW u \in Uids, Contested(u)'
               PROVE  Right(u)'
    BY DEF CountedRight
  <2>1. Contested(u)
    BY <1>2, NoNewPairs DEF Contested
  <2>2. Right(u)
    BY <2>1 DEF CountedRight
  <2>3. count'[u] = Cardinality(Listing(u))' /\ (inst'[u] = None => Listing(u)' = {})
    BY <1>2, <2>2, ReleasedRight
  <2>4. todo' = todo /\ uids' = [uids EXCEPT ![t] = {}] /\ DOMAIN uids = Tiles
    BY <1>2 DEF Unload, TypeOK
  <2>5. ASSUME NEW s \in Tiles, NEW r \in todo'[s], r.uid = u, u \in uids'[s]
        PROVE  ~ IsDuplicateOf(inst'[u], r)
    <3>1. inst'[u] # None
      BY <2>3, <2>5 DEF Listing
    <3>2. inst'[u] = inst[u] /\ u \in uids[s] /\ r \in todo[s]
      BY <1>2, <2>4, <2>5, <3>1, Released
    <3> QED
      BY <2>2, <2>5, <3>2
  <2> QED
    BY <2>3, <2>5 DEF IsDuplicateOf
<1>3. ASSUME NEW t \in Tiles, StoreRow(t)
      PROVE  CountedRight'
  <2>1. PICK r \in todo[t], u \in Uids : StoredAs(t, r, u)
    BY <1>3, StoredWhere
  <2> SUFFICES ASSUME NEW v \in Uids, Contested(v)'
               PROVE  Right(v)'
    BY DEF CountedRight
  <2>2. Contested(v) /\ Right(v) /\ (u # r.uid => v # u)
    BY <2>1, FreshIsLone DEF CountedRight
  <2>3. todo' = [todo EXCEPT ![t] = @ \ {r}] /\ todo \in [Tiles -> SUBSET Row]
        /\ uids' = [uids EXCEPT ![t] = @ \cup {u}] /\ DOMAIN uids = Tiles
    BY <2>1 DEF StoredAs, TypeOK
  <2>4. CASE v # u
    <3>1. count'[v] = count[v] /\ inst'[v] = inst[v] /\ Listing(v)' = Listing(v)
      BY <2>1, <2>4 DEF StoredAs
    <3>2. \A s \in Tiles : todo'[s] \subseteq todo[s] /\ (v \in uids'[s] => v \in uids[s])
      BY <2>3, <2>4
    <3>3. \A s \in Tiles : \A q \in todo'[s] :
             q.uid = v /\ v \in uids'[s] => ~ IsDuplicateOf(inst'[v], q)
      BY <2>2, <3>1, <3>2
    <3> QED
      BY <2>2, <3>1, <3>3 DEF IsDuplicateOf
  <2>5. CASE v = u
    <3>1. u = r.uid /\ Accepts(u, r) /\ r \in rows[t]
      BY <2>1, <2>2, <2>5 DEF StoredAs
    <3>2. inst[u] = None => Listing(u) = {}
      BY <2>2, <2>5, ListingFinite DEF TypeOK
    <3>3. inst[u] # None => IsDuplicateOf(inst[u], r)
      BY <3>1 DEF Accepts, IsLeftoverOf, Unedited
    <3>4. t \notin Listing(u)
      BY <2>2, <2>5, <3>1, <3>2, <3>3 DEF Listing
    <3>5. Cardinality(Listing(u) \cup {t}) = Cardinality(Listing(u)) + 1
      BY <3>4, ListingFinite, OneTileMore
    <3>6. count'[u] = Cardinality(Listing(u))'
      BY <2>1, <2>2, <2>5, <3>5 DEF StoredAs
    <3>7. ASSUME NEW s \in Tiles, NEW q \in todo'[s], q.uid = u, u \in uids'[s],
                 IsDuplicateOf(inst'[u], q)
          PROVE  FALSE
      <4>1. CASE s # t
        <5>1. q \in todo[s] /\ u \in uids[s]
          BY <2>3, <3>7, <4>1
        <5>2. inst[u] # None
          BY <3>2, <5>1 DEF Listing
        <5>3. inst'[u] = inst[u]
          BY <2>1, <5>2 DEF StoredAs
        <5> QED
          BY <2>2, <2>5, <3>7, <5>1, <5>3
      <4>2. CASE s = t
        <5>1. q \in rows[t] /\ q # r
          BY <2>3, <3>7, <4>2 DEF WaitingRows
        <5>2. Model[inst'[u].obj] = Model[r.obj] /\ inst'[u].place = r.place
          <6>1. CASE inst[u] = None
            BY <2>1, <6>1 DEF StoredAs
          <6>2. CASE inst[u] # None
            BY <2>1, <3>3, <6>2 DEF StoredAs, IsDuplicateOf
          <6> QED
            BY <6>1, <6>2
        <5>3. Model[q.obj] = Model[r.obj] /\ q.place = r.place
          BY <3>7, <5>2 DEF IsDuplicateOf
        <5> QED
          BY <3>1, <3>7, <5>1, <5>3 DEF Unedited
      <4> QED
        BY <4>1, <4>2
    <3> QED
      BY <2>5, <3>6, <3>7 DEF IsDuplicateOf
  <2> QED
    BY <2>4, <2>5
<1>4. CASE SaveAll \/ SaveChanged \/ \E t \in Tiles : SaveTile(t) \/ Import(t)
  <2> SUFFICES ASSUME NEW u \in Uids, Contested(u)'
               PROVE  Right(u)'
    BY DEF CountedRight
  <2>1. Contested(u)
    BY <1>4, NoNewPairs DEF Contested
  <2>2. UNCHANGED <<inst, count, uids, todo>>
    BY <1>4, WrittenWhenLoaded
  <2> QED
    BY <2>1, <2>2 DEF CountedRight, Listing, IsDuplicateOf
<1>5. CASE Start \/ FixUIDs
  BY <1>5, EmptyQuiet
<1> QED
  BY <1>1, <1>2, <1>3, <1>4, <1>5, OnlyTiles

LEMMA ContestedKept ==
    ASSUME NEW u \in Uids, Contested(u), \A o \in Objects : Paired(u, o) => Paired(u, o)'
    PROVE  Contested(u)'
BY DEF Contested

LEMMA LoadOnOne ==
    ASSUME Quiet, NEW t \in Tiles, Load(t) \/ FinishTile(t), NEW f \in FirstRows, NEW c \in Tiles,
           OnOneTile(f, c)
    PROVE  OnOneTile(f, c)'
<1>1. UNCHANGED <<inst, count, uids, rows>>
  BY DEF Load, FinishTile, disk
<1>2. \A u \in Uids : Listing(u)' = Listing(u) /\ (\A o : Paired(u, o)' <=> Paired(u, o))
  BY <1>1 DEF Listing, Paired
<1>3. \A u \in Uids : Contested(u)' <=> Contested(u)
  BY <1>2 DEF Contested
<1>4. CASE Load(t)
  <2>1. /\ tile[t] = "absent" /\ tile' = [tile EXCEPT ![t] = "loading"]
        /\ todo' = [todo EXCEPT ![t] = rows[t]] /\ DOMAIN tile = Tiles /\ DOMAIN todo = Tiles
    BY <1>4 DEF Load, Quiet, TypeOK
  <2>2. CASE t = c
    BY <1>1, <1>2, <1>3, <2>1, <2>2 DEF OnOneTile
  <2>3. CASE t # c
    BY <1>1, <1>2, <1>3, <2>1, <2>3 DEF OnOneTile
  <2> QED
    BY <2>2, <2>3
<1>5. CASE FinishTile(t)
  <2>1. /\ tile[t] # "absent" /\ tile' = [tile EXCEPT ![t] = "loaded"] /\ todo' = todo
        /\ DOMAIN tile = Tiles
    BY <1>5 DEF FinishTile, Quiet, TypeOK
  <2> QED
    BY <1>1, <1>2, <1>3, <2>1 DEF OnOneTile
<1> QED
  BY <1>4, <1>5

LEMMA ApplyOnOne ==
    ASSUME Quiet, NEW t \in Tiles, ApplyUpdate(t), NEW f \in FirstRows, IsLone(f.obj),
           OnOneTile(f, Centre[f.place])
    PROVE  OnOneTile(f, Centre[f.place])'
<1> DEFINE c == Centre[f.place]
           h == Head(queue)
<1>1. UNCHANGED <<inst, count, rows, tile, todo>>
  BY DEF ApplyUpdate, disk
<1>2. \A u \in Uids : \A o : Paired(u, o)' <=> Paired(u, o)
  BY <1>1 DEF Paired
<1>3. \A u \in Uids : Contested(u)' <=> Contested(u)
  BY <1>2 DEF Contested
<1>4. h \in Range(queue) /\ t \in h.left
  BY QueueShrinks DEF Quiet
<1>5. uids' = [uids EXCEPT ![t] = @ \cup {h.uid}] \/ uids' = uids
  BY <1>4 DEF ApplyUpdate, Quiet, Unedited
<1>6. \A u \in Uids : Paired(u, f.obj) => Listing(u)' = Listing(u) \/ Listing(u)' = Listing(u) \cup {c}
  <2> SUFFICES ASSUME NEW u \in Uids, Paired(u, f.obj)
               PROVE  Listing(u)' = Listing(u) \/ Listing(u)' = Listing(u) \cup {c}
    OBVIOUS
  <2>1. DOMAIN uids = Tiles
    BY DEF Quiet, TypeOK
  <2>2. CASE h.uid = u
    <3>1. h.left \subseteq Touch[f.place]
      BY <1>4, <2>2 DEF Quiet, Renumbered
    <3>2. t = c
      BY <1>4, <3>1, LoneTyped
    <3> QED
      BY <1>5, <2>1, <2>2, <3>2 DEF Listing
  <2>3. CASE h.uid # u
    BY <1>5, <2>1, <2>3 DEF Listing
  <2> QED
    BY <2>2, <2>3
<1>7. \A u \in Uids : inst[u] # None /\ inst[u].obj = f.obj => Paired(u, f.obj)
  BY DEF Paired
<1>8. \A u \in Uids : inst[u] # None /\ inst[u].obj = f.obj => Listing(u)' = {c}
  BY <1>6, <1>7 DEF OnOneTile
<1>9. \A u \in Uids : Paired(u, f.obj)' /\ ~ Contested(u)' => Listing(u)' \subseteq {c}
  BY <1>2, <1>3, <1>6 DEF OnOneTile
<1> HIDE DEF c
<1>10. OnOneTile(f, c)'
  <2>1. OnOneTile(f, c)
    BY DEF c
  <2> QED
    BY <1>1, <1>8, <1>9, <2>1 DEF OnOneTile
<1> QED
  BY <1>10 DEF c

LEMMA UnloadOnOne ==
    ASSUME Quiet, TypeOK', NEW t \in Tiles, Unload(t), NEW f \in FirstRows, NEW c \in Tiles,
           OnOneTile(f, c)
    PROVE  OnOneTile(f, c)'
<1>1. /\ UNCHANGED <<rows, todo>> /\ tile' = [tile EXCEPT ![t] = "absent"] /\ DOMAIN tile = Tiles
      /\ tile[t] = "loaded"
  BY DEF Unload, disk, Quiet, TypeOK
<1>2. \A u \in Uids :
         /\ Listing(u)' = Listing(u) \ {t} /\ (t \in Listing(u) <=> u \in uids[t])
         /\ inst'[u] # None => inst'[u] = inst[u] /\ inst[u] # None
         /\ t \notin Listing(u) => inst'[u] = inst[u] /\ count'[u] = count[u]
         /\ t \in Listing(u) /\ inst[u] # None /\ count[u] = 1 => inst'[u] = None
  BY Released DEF Quiet, Listing
<1>3. ASSUME NEW u \in Uids, inst'[u] # None, inst'[u].obj = f.obj
      PROVE  /\ inst[u] # None /\ inst[u].obj = f.obj /\ t # c
             /\ Listing(u)' = Listing(u) /\ count'[u] = count[u]
  <2>1. inst[u] # None /\ inst[u].obj = f.obj
    BY <1>2, <1>3
  <2>2. Listing(u) = {c} /\ count[u] = 1
    BY <2>1 DEF OnOneTile
  <2>3. t # c
    BY <1>2, <1>3, <2>1, <2>2
  <2> QED
    BY <1>2, <2>1, <2>2, <2>3
<1>4. ASSUME tile'[c] # "absent", \A r \in todo'[c] : r.obj # f.obj
      PROVE  \E u \in Uids : inst'[u] # None /\ inst'[u].obj = f.obj
  <2>1. t # c /\ tile[c] # "absent" /\ \A r \in todo[c] : r.obj # f.obj
    BY <1>1, <1>4
  <2>2. PICK u \in Uids : inst[u] # None /\ inst[u].obj = f.obj
    BY <2>1 DEF OnOneTile
  <2>3. Listing(u) = {c}
    BY <2>2 DEF OnOneTile
  <2> QED
    BY <1>2, <2>1, <2>2, <2>3
<1>5. ASSUME NEW u \in Uids, Paired(u, f.obj)', ~ Contested(u)'
      PROVE  Listing(u)' \subseteq {c}
  <2>1. Paired(u, f.obj)
    BY <1>5, NoNewPairs, FirstTyped DEF Quiet
  <2>2. CASE ~ Contested(u)
    BY <1>2, <2>1, <2>2 DEF OnOneTile
  <2>3. CASE Contested(u)
    <3>1. inst'[u] # None => \A o \in Objects : Paired(u, o) => Paired(u, o)'
      BY <1>1, <1>2 DEF Paired
    <3>2. inst'[u] = None
      BY <1>5, <2>3, <3>1, ContestedKept
    <3>3. Listing(u)' = {}
      BY <2>3, <3>2, ReleasedRight DEF Quiet, CountedRight
    <3> QED
      BY <3>3
  <2> QED
    BY <2>2, <2>3
<1>6. \A u \in Uids : inst'[u] # None /\ inst'[u].obj = f.obj =>
           /\ tile'[c] # "absent" /\ \A r \in todo'[c] : r.obj # f.obj
           /\ Listing(u)' = {c} /\ count'[u] = 1
           /\ \A v \in Uids : inst'[v] # None /\ inst'[v].obj = f.obj => v = u
  BY <1>1, <1>3 DEF OnOneTile
<1> QED
  BY <1>1, <1>4, <1>5, <1>6 DEF OnOneTile

LEMMA StoreRowOnOne ==
    ASSUME Quiet, NEW t \in Tiles, StoreRow(t), NEW f \in FirstRows, IsLone(f.obj),
           NEW c \in Tiles, OnOneTile(f, c)
    PROVE  OnOneTile(f, c)'
<1>1. PICK r \in todo[t], u \in Uids : StoredAs(t, r, u)
  BY StoredWhere DEF Quiet
<1>2. /\ UNCHANGED <<rows, tile>> /\ tile[t] # "absent" /\ r \in rows[t]
      /\ todo' = [todo EXCEPT ![t] = @ \ {r}] /\ DOMAIN todo = Tiles
      /\ todo[c] \subseteq rows[c] /\ Accepts(u, r)
  BY <1>1 DEF StoreRow, disk, StoredAs, Quiet, TypeOK, WaitingRows
<1>3. \A v \in Uids, o \in Objects : Paired(v, o) => Paired(v, o)'
  BY <1>1 DEF StoredAs
<1>4. \A v \in Uids : ~ Contested(v)' => ~ Contested(v)
  BY <1>1, FreshIsLone
<1>5. inst[u] # None => (inst[u].obj = f.obj <=> r.obj = f.obj)
  BY <1>2, LoneIsTold DEF Quiet
<1>6. f.obj \in Objects
  BY FirstTyped
<1>7. CASE r.obj = f.obj
  <2>1. t = c /\ r \in todo[c]
    BY <1>2, <1>7 DEF OnOneTile
  <2>2. \A v \in Uids : ~ (inst[v] # None /\ inst[v].obj = f.obj)
    BY <1>7, <2>1 DEF OnOneTile
  <2>3. inst[u] = None
    BY <1>5, <1>7, <2>2
  <2>4. Listing(u) \subseteq {c}
    <3>1. CASE u # r.uid
      BY <1>1, <3>1, FreshIsLone
    <3>2. CASE u = r.uid
      <4>1. Paired(u, f.obj)
        BY <1>2, <1>7, <3>2 DEF Paired
      <4>2. Contested(u) => Listing(u) = {}
        BY <2>3, ListingFinite DEF Quiet, CountedRight, TypeOK
      <4> QED
        BY <4>1, <4>2 DEF OnOneTile
    <3> QED
      BY <3>1, <3>2
  <2>5. count[u] = 0
    BY <2>3 DEF Quiet, TypeOK
  <2>6. Listing(u)' = {c} /\ count'[u] = 1 /\ inst'[u] # None /\ inst'[u].obj = f.obj
    BY <1>1, <1>7, <2>1, <2>3, <2>4, <2>5 DEF StoredAs
  <2>7. \A v \in Uids : inst'[v] # None /\ inst'[v].obj = f.obj => v = u
    BY <1>1, <2>2 DEF StoredAs
  <2>8. \A q \in todo'[c] : q.obj # f.obj
    <3> SUFFICES ASSUME NEW q \in todo'[c], q.obj = f.obj PROVE FALSE
      OBVIOUS
    <3>1. q \in rows[c] /\ q # r /\ r \in rows[c]
      BY <1>2, <2>1
    <3> QED
      BY <1>7, <3>1 DEF OnOneTile
  <2>9. \A v \in Uids : Paired(v, f.obj)' /\ ~ Contested(v)' => Listing(v)' \subseteq {c}
    <3> SUFFICES ASSUME NEW v \in Uids, v # u, Paired(v, f.obj)', ~ Contested(v)'
                 PROVE  Listing(v)' \subseteq {c}
      BY <2>6
    <3>1. Paired(v, f.obj) /\ ~ Contested(v) /\ Listing(v)' = Listing(v)
      BY <1>1, <1>4, <1>6 DEF StoredAs
    <3> QED
      BY <3>1 DEF OnOneTile
  <2> QED
    BY <1>2, <2>1, <2>6, <2>7, <2>8, <2>9 DEF OnOneTile
<1>8. CASE r.obj # f.obj
  <2>1. ~ (inst[u] # None /\ inst[u].obj = f.obj) /\ ~ (inst'[u] # None /\ inst'[u].obj = f.obj)
    BY <1>1, <1>5, <1>8 DEF StoredAs
  <2>2. \A v \in Uids : (inst'[v] # None /\ inst'[v].obj = f.obj) <=> (inst[v] # None /\ inst[v].obj = f.obj)
    BY <1>1, <2>1 DEF StoredAs
  <2>3. \A v \in Uids : inst[v] # None /\ inst[v].obj = f.obj =>
           Listing(v)' = Listing(v) /\ count'[v] = count[v]
    BY <1>1, <2>1 DEF StoredAs
  <2>4. (\A q \in todo'[c] : q.obj # f.obj) <=> (\A q \in todo[c] : q.obj # f.obj)
    BY <1>2, <1>8
  <2>5. ASSUME NEW v \in Uids, Paired(v, f.obj)', ~ Contested(v)'
        PROVE  Listing(v)' \subseteq {c}
    <3>1. Paired(v, f.obj)
      BY <1>1, <1>6, <1>8, <2>5 DEF StoredAs
    <3>2. v # u
      <4> SUFFICES ASSUME v = u PROVE FALSE
        OBVIOUS
      <4>1. u = r.uid
        BY <1>1, <3>1, FreshIsLone
      <4>2. r.obj \in Objects /\ Paired(u, r.obj)'
        BY <1>1, <1>2, <4>1, FreshIsLone DEF Paired
      <4> QED
        BY <1>6, <1>8, <2>5, <4>2 DEF Contested
    <3>3. Listing(v)' = Listing(v) /\ ~ Contested(v)
      BY <1>1, <1>4, <2>5, <3>2 DEF StoredAs
    <3> QED
      BY <3>1, <3>3 DEF OnOneTile
  <2>6. \A v \in Uids : inst'[v] # None /\ inst'[v].obj = f.obj =>
           /\ tile'[c] # "absent" /\ \A q \in todo'[c] : q.obj # f.obj
           /\ Listing(v)' = {c} /\ count'[v] = 1
           /\ \A w \in Uids : inst'[w] # None /\ inst'[w].obj = f.obj => w = v
    BY <1>2, <2>2, <2>3, <2>4 DEF OnOneTile
  <2>7. tile'[c] # "absent" /\ (\A q \in todo'[c] : q.obj # f.obj) =>
           \E v \in Uids : inst'[v] # None /\ inst'[v].obj = f.obj
    BY <1>2, <2>2, <2>4 DEF OnOneTile
  <2> QED
    BY <1>2, <2>5, <2>6, <2>7 DEF OnOneTile
<1> QED
  BY <1>7, <1>8

LEMMA SaveOnOne ==
    ASSUME Quiet, SaveAll \/ SaveChanged \/ \E t \in Tiles : SaveTile(t) \/ Import(t),
           NEW f \in FirstRows, NEW c \in Tiles, OnOneTile(f, c)
    PROVE  OnOneTile(f, c)'
<1>1. PICK S \in SUBSET Tiles :
              /\ rows' = Written(S) /\ \A t \in S : tile[t] = "loaded" /\ todo[t] = {}
              /\ UNCHANGED <<inst, count, tile, todo, uids>>
  BY WrittenWhenLoaded DEF Quiet
<1>2. \A t \in Tiles : rows'[t] = IF t \in S THEN SavedRows(t) ELSE rows[t]
  BY <1>1 DEF Written
<1>3. \A t \in Tiles : \A r \in SavedRows(t) : r.obj = f.obj =>
         /\ inst[r.uid] # None /\ inst[r.uid].obj = f.obj /\ r.uid \in Uids /\ t \in Listing(r.uid)
         /\ \A q \in SavedRows(t) : q.uid = r.uid => q = r
  BY SavedAre DEF Quiet, Listing
<1>4. \A t \in Tiles : \A r \in rows'[t] : r.obj = f.obj => t = c
  BY <1>2, <1>3 DEF OnOneTile
<1>5. \A r, q \in rows'[c] : r.obj = f.obj /\ q.obj = f.obj => r = q
  BY <1>2, <1>3 DEF OnOneTile
<1>6. \E r \in rows'[c] : r.obj = f.obj
  <2>1. CASE c \notin S
    BY <1>2, <2>1 DEF OnOneTile
  <2>2. CASE c \in S
    <3>1. PICK u \in Uids : inst[u] # None /\ inst[u].obj = f.obj
      BY <1>1, <2>2 DEF OnOneTile
    <3>2. u \in uids[c]
      BY <3>1 DEF OnOneTile, Listing
    <3>3. [uid |-> u, obj |-> inst[u].obj, place |-> inst[u].place] \in SavedRows(c)
      BY <3>1, <3>2 DEF SavedRows
    <3> QED
      BY <1>2, <2>2, <3>1, <3>3
  <2> QED
    BY <2>1, <2>2
<1>7. \A u : Listing(u)' = Listing(u)
  BY <1>1 DEF Listing
<1>8. ASSUME NEW u \in Uids, Paired(u, f.obj)', ~ Contested(u)'
      PROVE  Listing(u)' \subseteq {c}
  <2>1. Paired(u, f.obj) /\ f.obj \in Objects
    BY <1>8, NoNewPairs, FirstTyped DEF Quiet
  <2>2. CASE ~ Contested(u)
    BY <1>7, <2>1, <2>2 DEF OnOneTile
  <2>3. CASE Contested(u) /\ inst[u] = None
    BY <1>7, <2>3, ListingFinite DEF Quiet, CountedRight, TypeOK
  <2>4. CASE inst[u] # None
    <3>1. PICK m \in Objects : m = inst[u].obj /\ Paired(u, m)'
      BY <1>1, <2>4, InstTyped DEF Paired, Quiet
    <3>2. inst[u].obj = f.obj
      BY <1>8, <2>1, <3>1 DEF Contested
    <3> QED
      BY <1>7, <2>4, <3>2 DEF OnOneTile
  <2> QED
    BY <2>2, <2>3, <2>4
<1> QED
  BY <1>1, <1>4, <1>5, <1>6, <1>7, <1>8 DEF OnOneTile

LEMMA EmptyOnOne ==
    ASSUME Quiet, Start \/ FixUIDs, NEW f \in FirstRows, IsLone(f.obj),
           past'[f.obj] = "asOnDisk", OnOneTile(f, Centre[f.place])
    PROVE  OnOneTile(f, Centre[f.place])'
<1> DEFINE c == Centre[f.place]
           g == <<f.obj, f.place>>
<1>1. /\ \A u \in Uids : inst'[u] = None /\ Listing(u)' = {}
      /\ \A t \in Tiles : tile'[t] = "absent"
  BY EmptyQuiet DEF Quiet
<1>2. c \in Tiles /\ Touch[f.place] = {c}
  BY LoneTyped
<1>3. ASSUME \E r \in rows'[c] : r.obj = f.obj,
             \A t \in Tiles : \A r \in rows'[t] : r.obj = f.obj => t = c,
             \A r, q \in rows'[c] : r.obj = f.obj /\ q.obj = f.obj => r = q
      PROVE  OnOneTile(f, c)'
  <2> HIDE DEF c
  <2> QED
    BY <1>1, <1>2, <1>3 DEF OnOneTile
<1>4. CASE Start
  <2>1. rows' = rows
    BY <1>4 DEF Start
  <2> QED
    BY <1>3, <2>1 DEF OnOneTile
<1>5. CASE FixUIDs
  <2>1. PICK S \in SUBSET Tiles : FixUIDs!(S)
    BY <1>5 DEF FixUIDs
  <2>2. ~ BadlyFixed(f.obj, S) /\ Cardinality(Found) <= MaxUid
    BY <2>1, FirstTyped
  <2>3. \A t \in Tiles : \A r \in rows[t] : r.obj = f.obj => r.place = f.place
    <3> SUFFICES ASSUME NEW t \in Tiles, NEW r \in rows[t], r.obj = f.obj PROVE r.place = f.place
      OBVIOUS
    <3>1. PICK q \in FirstRows : q.obj = r.obj /\ q.place = r.place
      BY DEF Quiet, Unedited, AtHome
    <3> QED
      BY <3>1, FirstTyped
  <2>4. g \in Placed
    <3>1. PICK r \in rows[c] : r.obj = f.obj
      BY DEF OnOneTile
    <3>2. r.place = f.place
      BY <1>2, <2>3, <3>1
    <3> QED
      BY <1>2, <3>1, <3>2 DEF Placed
  <2>5. g \in Found
    BY <2>2, <2>4 DEF BadlyFixed
  <2>6. \A t \in Tiles : rows'[t] = IF t \in S THEN FixedRows(t) ELSE rows[t]
    BY <2>1
  <2>7. \A t \in Tiles : \A r \in FixedRows(t) : r.obj = f.obj =>
           r = RowOf(f, Numbering[g]) /\ t = c
    <3> SUFFICES ASSUME NEW t \in Tiles, NEW r \in FixedRows(t), r.obj = f.obj
                 PROVE  r = RowOf(f, Numbering[g]) /\ t = c
      OBVIOUS
    <3>1. PICK h \in Found : r = [uid |-> Numbering[h], obj |-> h[1], place |-> h[2]] /\ t \in Touch[h[2]]
      BY DEF FixedRows
    <3>2. h[1] = f.obj
      BY <3>1
    <3>3. PICK s \in Tiles : \E q \in rows[s] : h = <<q.obj, q.place>>
      BY DEF Found, Placed
    <3>4. PICK q \in rows[s] : h = <<q.obj, q.place>> /\ h[1] = q.obj
      BY <3>3
    <3>5. h = g
      BY <2>3, <3>2, <3>4
    <3> QED
      BY <1>2, <3>1, <3>5 DEF RowOf
  <2>8. RowOf(f, Numbering[g]) \in FixedRows(c)
    <3>1. g[1] = f.obj /\ g[2] = f.place /\ c \in Touch[g[2]]
      BY <1>2
    <3> HIDE DEF g
    <3> QED
      BY <2>5, <3>1 DEF FixedRows, RowOf
  <2>9. \E r \in rows'[c] : r.obj = f.obj
    BY <1>2, <2>6, <2>8 DEF OnOneTile, RowOf
  <2>10. \A t \in Tiles : \A r \in rows'[t] : r.obj = f.obj => t = c
    BY <2>6, <2>7 DEF OnOneTile
  <2>11. \A r, q \in rows'[c] : r.obj = f.obj /\ q.obj = f.obj => r = q
    BY <1>2, <2>6, <2>7 DEF OnOneTile
  <2> QED
    BY <1>3, <2>9, <2>10, <2>11
<1> QED
  BY <1>4, <1>5

LEMMA StepUndisturbed ==
    ASSUME TypeOK, TypeOK', UidsBelowHighest, WaitingRows, Undisturbed, [Next]_vars
    PROVE  Undisturbed'
<1> SUFFICES ASSUME StartupCheck, edits' = 0
             PROVE  /\ Unedited' /\ NumbersBelow' /\ Renumbered' /\ CountedRight'
                    /\ \A f \in FirstRows : IsLone(f.obj) /\ past'[f.obj] = "asOnDisk" =>
                           OnOneTile(f, Centre[f.place])'
  BY DEF Undisturbed
<1>1. CASE UNCHANGED vars
  <2>1. UNCHANGED <<inst, count, tile, todo, uids, changed, queue, op, highest, rows, edits, past>>
    BY <1>1 DEF vars, memory, disk
  <2>2. \A u, o : (Paired(u, o)' <=> Paired(u, o)) /\ Listing(u)' = Listing(u)
    BY <2>1 DEF Paired, Listing
  <2>3. \A u : Contested(u)' <=> Contested(u)
    BY <2>2 DEF Contested
  <2>4. /\ Unedited /\ NumbersBelow /\ Renumbered /\ CountedRight
        /\ \A f \in FirstRows : IsLone(f.obj) /\ past[f.obj] = "asOnDisk" =>
               OnOneTile(f, Centre[f.place])
    BY <2>1 DEF Undisturbed
  <2>5. Unedited' /\ NumbersBelow'
    BY <2>1, <2>4 DEF Unedited, NumbersBelow
  <2>6. Renumbered' /\ CountedRight'
    BY <2>1, <2>2, <2>3, <2>4 DEF Renumbered, CountedRight, IsDuplicateOf
  <2>7. \A f \in FirstRows : OnOneTile(f, Centre[f.place]) => OnOneTile(f, Centre[f.place])'
    BY <2>1, <2>2, <2>3 DEF OnOneTile
  <2> QED
    BY <2>1, <2>4, <2>5, <2>6, <2>7
<1>2. CASE Next
  <2>1. edits = 0
    <3>1. ASSUME NEW t \in Tiles, OnTile(t) PROVE edits' = edits \/ edits' = edits + 1
      <4>1. CASE Load(t) \/ StoreRow(t) \/ FinishTile(t) \/ ApplyUpdate(t)
        BY <4>1 DEF Load, StoreRow, FinishTile, ApplyUpdate
      <4>2. CASE Unload(t) \/ Reload(t) \/ SaveTile(t) \/ Import(t)
        BY <4>2 DEF Unload, Reload, SaveTile, Import
      <4> QED
        BY <3>1, <4>1, <4>2 DEF OnTile
    <3>2. ASSUME OnObject PROVE edits' = edits \/ edits' = edits + 1
      <4>1. CASE \E u \in Uids, p \in Places : MoveBegin(u, p) \/ Snap(u, p)
        BY <4>1 DEF MoveBegin, Snap
      <4>2. CASE \E o \in Objects, p \in Places : Place(o, p)
        BY <4>2 DEF Place
      <4>3. CASE (\E u \in Uids : DeleteBegin(u)) \/ MoveEnd \/ DeleteEnd
        BY <4>3 DEF MoveEnd, DeleteBegin, DeleteEnd
      <4> QED
        BY <3>2, <4>1, <4>2, <4>3 DEF OnObject
    <3>3. ASSUME SaveAll \/ SaveChanged \/ Start \/ FixUIDs
          PROVE  edits' = edits \/ edits' = edits + 1
      BY <3>3 DEF SaveAll, SaveChanged, Start, FixUIDs
    <3>4. edits' = edits \/ edits' = edits + 1
      BY <1>2, <3>1, <3>2, <3>3 DEF Next
    <3> QED
      BY <3>4 DEF TypeOK
  <2>2. Quiet
    BY <2>1 DEF Quiet, Undisturbed
  <2>3. Unedited' /\ NumbersBelow' /\ Renumbered' /\ CountedRight'
    BY <1>2, <2>2, StepUnedited, StepNumbers, StepRenumbered, StepCounted
  <2>4. ASSUME NEW f \in FirstRows, IsLone(f.obj), past'[f.obj] = "asOnDisk"
        PROVE  OnOneTile(f, Centre[f.place])'
    <3>1. Centre[f.place] \in Tiles
      BY <2>4, LoneTyped
    <3>2. past[f.obj] = "asOnDisk"
      <4>1. past[f.obj] # "other" /\ f.obj \in Objects
        BY <1>2, <2>4, PastKept, FirstTyped
      <4> QED
        BY <2>2, <4>1 DEF Quiet, Unedited, TypeOK, Pasts
    <3>3. OnOneTile(f, Centre[f.place])
      BY <2>1, <2>4, <3>2 DEF Undisturbed
    <3> QED
      BY <1>2, <2>1, <2>2, <2>4, <3>1, <3>3, OnlyTiles, LoadOnOne, ApplyOnOne, UnloadOnOne,
         StoreRowOnOne, SaveOnOne, EmptyOnOne DEF Quiet
  <2> QED
    BY <2>3, <2>4
<1> QED
  BY <1>1, <1>2

LEMMA InitUndisturbed == Init => Undisturbed
<1> SUFFICES ASSUME Init, StartupCheck
             PROVE  /\ Unedited /\ NumbersBelow /\ Renumbered /\ CountedRight
                    /\ \A f \in FirstRows : IsLone(f.obj) => OnOneTile(f, Centre[f.place])
  BY DEF Undisturbed
<1>1. /\ \A u \in Uids : inst[u] = None /\ count[u] = 0
      /\ \A t \in Tiles : tile[t] = "absent" /\ uids[t] = {} /\ todo[t] = {}
      /\ queue = <<>> /\ op = None /\ changed = {}
      /\ \A t \in Tiles : rows[t] = {q \in FirstRows : t \in Touch[q.place]}
      /\ \A o \in Objects : past[o] # "moved"
  BY DEF Init
<1>2. Range(queue) = {}
  BY <1>1 DEF Range
<1>3. \A u : Listing(u) = {} /\ Cardinality(Listing(u)) = 0
  BY <1>1, FS_EmptySet DEF Listing
<1>4. Unedited
  <2>1. \A t \in Tiles : \A r, q \in rows[t] :
           r.uid = q.uid /\ Model[r.obj] = Model[q.obj] /\ r.place = q.place => r = q
    BY <1>1, ObjectsAssumption
  <2> QED
    BY <1>1, <1>2, <2>1 DEF Unedited, AtHome
<1>5. NumbersBelow /\ Renumbered /\ CountedRight
  BY <1>1, <1>2, <1>3 DEF NumbersBelow, Renumbered, CountedRight
<1>6. ASSUME NEW f \in FirstRows, IsLone(f.obj)
      PROVE  OnOneTile(f, Centre[f.place])
  <2> DEFINE c == Centre[f.place]
  <2>1. c \in Tiles /\ Touch[f.place] = {c} /\ \A q \in FirstRows : q.obj = f.obj => q = f
    BY <1>6, LoneTyped, FirstTyped
  <2>2. f \in rows[c]
    BY <1>1, <2>1
  <2>3. \A t \in Tiles : \A r \in rows[t] : r.obj = f.obj => r = f /\ t = c
    BY <1>1, <2>1
  <2> HIDE DEF c
  <2>4. OnOneTile(f, c)
    BY <1>1, <1>3, <2>1, <2>2, <2>3 DEF OnOneTile
  <2> QED
    BY <2>4 DEF c
<1> QED
  BY <1>4, <1>5, <1>6

-----------------------------------------------------------------------------
\* The three properties

LEMMA InductiveInit == Init => IInv
<1> SUFFICES ASSUME Init PROVE IInv
  OBVIOUS
<1>1. TypeOK /\ UidsBelowHighest
  BY InitTypes, InitBelow
<1>2. WaitingRows /\ PastIsFirst
  BY DEF Init, WaitingRows, PastIsFirst
<1> QED
  BY <1>1, <1>2, InitOwned, InitUndisturbed DEF IInv

LEMMA InductiveStep == IInv /\ [Next]_vars => IInv'
<1> SUFFICES ASSUME IInv, [Next]_vars PROVE IInv'
  OBVIOUS
<1>1. TypeOK' /\ UidsBelowHighest'
  BY StepTypes, StepBelow DEF IInv
<1> QED
  BY <1>1, StepWaiting, StepPast, StepOwned, StepUndisturbed DEF IInv

\* An object the properties are about has a uid of its own, or else is known to
\* be on one tile.
LEMMA KnownIs ==
    ASSUME IInv, NEW f \in FirstRows, Known(f.obj)
    PROVE  \/ \E w \in Uids : OwnedAs(f, w)
           \/ /\ past[f.obj] = "asOnDisk" /\ IsLone(f.obj) /\ Unedited
              /\ OnOneTile(f, Centre[f.place])
<1>1. StartupCheck /\ past[f.obj] # "other" /\ f.obj \in Objects
  BY FirstTyped DEF Known
<1>2. CASE f.obj \notin Clashing
  BY <1>1, <1>2 DEF IInv, Owned
<1>3. CASE f.obj \in Clashing
  <2>1. edits = 0 /\ IsLone(f.obj)
    BY <1>3 DEF Known
  <2>2. Unedited
    BY <1>1, <2>1 DEF IInv, Undisturbed
  <2>3. past[f.obj] = "asOnDisk"
    BY <1>1, <2>2 DEF Unedited, IInv, TypeOK, Pasts
  <2> QED
    BY <1>1, <2>1, <2>2, <2>3 DEF IInv, Undisturbed
<1> QED
  BY <1>2, <1>3

LEMMA StoredIsFirst ==
    ASSUME IInv, NEW u \in Uids, inst[u] # None, Known(inst[u].obj)
    PROVE  \E f \in FirstRows : f.obj = inst[u].obj
<1>1. inst[u].obj \in Objects /\ past[inst[u].obj] # "other"
  BY InstTyped DEF IInv, Known
<1> QED
  BY <1>1 DEF IInv, PastIsFirst

\* An object nobody moved is counted once for every tile that lists it, for any
\* map, any number of tiles and whatever is loaded, released, saved, imported
\* or fixed in between.
THEOREM CountsAreRight == Spec => []CountIsListed
<1>1. IInv => CountIsListed
  <2> SUFFICES ASSUME IInv, NEW u \in Uids, inst[u] # None, Settled(inst[u].obj)
               PROVE  count[u] = Cardinality(Listing(u))
    BY DEF CountIsListed, Listing
  <2>1. Known(inst[u].obj) /\ past[inst[u].obj] = "asOnDisk"
    BY InstTyped DEF Settled, Known, IInv, TypeOK, Pasts
  <2>2. PICK f \in FirstRows : f.obj = inst[u].obj
    BY <2>1, StoredIsFirst
  <2>3. ASSUME NEW w \in Uids, OwnedAs(f, w)
        PROVE  count[u] = Cardinality(Listing(u))
    BY <2>1, <2>2, <2>3 DEF OwnedAs, Owns, AsOnDisk
  <2>4. ASSUME OnOneTile(f, Centre[f.place])
        PROVE  count[u] = Cardinality(Listing(u))
    <3>1. Listing(u) = {Centre[f.place]} /\ count[u] = 1
      BY <2>2, <2>4 DEF OnOneTile
    <3> QED
      BY <3>1, FS_Singleton
  <2> QED
    BY <2>1, <2>2, <2>3, <2>4, KnownIs
<1> QED
  BY <1>1, InductiveInit, InductiveStep, PTL DEF Spec

\* An object that was moved once or not at all is stored once: no row of an
\* unloaded tile, old or new, brings it back under another uid.
THEOREM ObjectsAreStoredOnce == Spec => []StoredOnce
<1>1. IInv => StoredOnce
  <2> SUFFICES ASSUME IInv, NEW u \in Uids, NEW v \in Uids, inst[u] # None, inst[v] # None,
                      inst[u].obj = inst[v].obj, Known(inst[u].obj)
               PROVE  u = v
    BY DEF StoredOnce
  <2>1. PICK f \in FirstRows : f.obj = inst[u].obj
    BY StoredIsFirst
  <2>2. ASSUME NEW w \in Uids, OwnedAs(f, w)
        PROVE  u = v
    BY <2>1, <2>2 DEF OwnedAs, Owns
  <2>3. ASSUME OnOneTile(f, Centre[f.place])
        PROVE  u = v
    BY <2>1, <2>3 DEF OnOneTile
  <2> QED
    BY <2>1, <2>2, <2>3, KnownIs
<1> QED
  BY <1>1, InductiveInit, InductiveStep, PTL DEF Spec

\* An object nobody moved keeps its row on every tile it touches, through any
\* saves, imports, starts and fixes, whole or broken off.
THEOREM RowsAreKept == Spec => []NothingIsLost
<1>1. IInv => NothingIsLost
  <2> SUFFICES ASSUME IInv, NEW f \in FirstRows, Settled(f.obj), NEW t \in Touch[f.place]
               PROVE  \E q \in rows[t] : q.obj = f.obj /\ q.place = f.place
    BY DEF NothingIsLost
  <2>1. Known(f.obj) /\ past[f.obj] = "asOnDisk" /\ t \in Tiles
    BY FirstTyped DEF Settled, Known, IInv, TypeOK, Pasts
  <2>2. ASSUME NEW w \in Uids, OwnedAs(f, w)
        PROVE  \E q \in rows[t] : q.obj = f.obj /\ q.place = f.place
    <3>1. RowOf(f, w) \in rows[t]
      BY <2>1, <2>2 DEF OwnedAs, AsOnDisk
    <3> QED
      BY <3>1 DEF RowOf
  <2>3. ASSUME IsLone(f.obj), Unedited, OnOneTile(f, Centre[f.place])
        PROVE  \E q \in rows[t] : q.obj = f.obj /\ q.place = f.place
    <3>1. t = Centre[f.place]
      BY <2>3, LoneTyped
    <3>2. PICK q \in rows[t] : q.obj = f.obj
      BY <2>3, <3>1 DEF OnOneTile
    <3>3. PICK g \in FirstRows : g.obj = q.obj /\ g.place = q.place
      BY <2>1, <2>3 DEF Unedited, AtHome
    <3> QED
      BY <3>2, <3>3, FirstTyped
  <2> QED
    BY <2>1, <2>2, <2>3, KnownIs
<1> QED
  BY <1>1, InductiveInit, InductiveStep, PTL DEF Spec
=============================================================================
