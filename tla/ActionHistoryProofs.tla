------------------------- MODULE ActionHistoryProofs -------------------------
(***************************************************************************)
(* What ActionHistory does for any chunks, objects, limit and bounds.      *)
(***************************************************************************)
EXTENDS ActionHistory, FiniteSetTheorems, TLAPS

\* The running action, and the indexes of the others.
LEMMA CurIsAction ==
    ASSUME TypeOK, StackOk
    PROVE  /\ DOMAIN stack = 1..Len(stack) /\ Len(stack) \in Nat
           /\ Ended \in Nat /\ Done \in Nat
           /\ running => /\ Len(stack) \in DOMAIN stack /\ Cur \in Action
                         /\ Len(stack) = Ended + 1
           /\ ~running => Ended = Len(stack)
           /\ \A i \in 1..Ended : i \in DOMAIN stack /\ stack[i] \in Action
BY DEF TypeOK, StackOk, Ended, Done, Cur

\* Changing the running action leaves the others.
LEMMA SetCurKeeps ==
    ASSUME TypeOK, StackOk, running, NEW a \in Action, SetCur(a)
    PROVE  /\ stack' \in Seq(Action) /\ Len(stack') = Len(stack)
           /\ stack'[Len(stack)] = a
           /\ \A i \in 1..Len(stack) - 1 : stack'[i] = stack[i]
BY CurIsAction DEF TypeOK, SetCur

\* Images taken are images.
LEMMA ImageTypes ==
    ASSUME TypeOK, NEW S, NEW a \in Action
    PROVE  /\ ImageOf(S) \in Image
           /\ Settled(a) \in [Uids -> Entry \cup {None}]
<1>1. ImageOf(S) \in Image
  BY DEF ImageOf, Image, TypeOK
<1>2. ASSUME NEW u \in Uids, a.objs[u] # None, a.objs[u].from # None
      PROVE  [a.objs[u] EXCEPT !.to = IF placed[u] = None THEN a.objs[u].from ELSE placed[u].spot] \in Entry
  <2>1. a.objs[u] \in Entry
    BY <1>2 DEF Action
  <2>2. placed[u] # None => placed[u].spot \in Spots
    BY DEF TypeOK, Instance
  <2> QED
    BY <1>2, <2>1, <2>2 DEF Entry
<1>3. Settled(a) \in [Uids -> Entry \cup {None}]
  BY <1>2 DEF Settled, Action
<1> QED
  BY <1>1, <1>3

LEMMA FinishedTypes ==
    ASSUME TypeOK, NEW a \in Action
    PROVE  /\ Finished(a) \in Action
           /\ Finished(a).pre = a.pre /\ Finished(a).short = a.short
           /\ Finished(a).post = ImageOf(Registered(a) \ NoRedo)
           /\ \A S : \A o \in {a.objs, Settled(a)} :
                 /\ CutShort(a, S, o) \in Action
                 /\ CutShort(a, S, o).pre = a.pre /\ CutShort(a, S, o).short
                 /\ CutShort(a, S, o).post = ImageOf(S)
<1>1. /\ ImageOf(Registered(a) \ NoRedo) \in Image
      /\ Settled(a) \in [Uids -> Entry \cup {None}]
  BY ImageTypes
<1>2. \A S : ImageOf(S) \in Image
  BY ImageTypes
<1> QED
  BY <1>1, <1>2 DEF Finished, CutShort, Action

LEMMA WhereTypes ==
    ASSUME NEW p \in [Uids -> Instance \cup {None}]
    PROVE  Where(p) \in [Uids -> SUBSET Spots]
BY DEF Where, Instance

LEMMA EntryTypes ==
    ASSUME TypeOK, NEW a \in Action, NEW u \in Uids, NEW e \in Entry
    PROVE  WithEntry(a, u, e) \in Action /\ WithEntry(a, u, e).pre = a.pre
           /\ WithEntry(a, u, e).hidden = a.hidden
BY DEF WithEntry, Action

\* An object an action names is put back to a spot: where an object is brought
\* back, and where one that is there is moved.
LEMMA SpotTypes ==
    ASSUME TypeOK, NEW a \in Action, NEW redo \in BOOLEAN, NEW u \in Named(a),
           u \in BroughtBack(a, redo) \/ u \notin Deleted(a, redo) \cup Lost(a, redo)
    PROVE  /\ [id |-> a.objs[u].id, spot |-> SpotOf(a.objs[u], redo)] \in Instance
           /\ u \notin BroughtBack(a, redo) =>
                [placed[u] EXCEPT !.spot = SpotOf(a.objs[u], redo)] \in Instance
<1> DEFINE e == a.objs[u]
<1>1. u \in Uids /\ e \in Entry /\ e # None
  BY DEF Named, Action
<1>2. CASE u \in BroughtBack(a, redo)
  <2>1. IF redo THEN e.added # None ELSE e.removed # None
    BY <1>2 DEF BroughtBack
  <2>2. SpotOf(e, redo) \in Spots
    BY <1>1, <2>1 DEF SpotOf, Entry
  <2> QED
    BY <1>1, <1>2, <2>2 DEF Instance, Entry
<1>3. CASE u \notin BroughtBack(a, redo)
  <2>1. e.added = None /\ e.removed = None
    BY <1>1, <1>3 DEF BroughtBack, Deleted
  <2>2. e.from # None
    BY <1>1, <2>1 DEF Entry
  <2>3. placed[u] # None /\ (redo => e.to # None)
    BY <1>1, <1>3, <2>2 DEF Lost
  <2>4. SpotOf(e, redo) \in Spots
    BY <1>1, <2>2, <2>3 DEF SpotOf, Entry
  <2>5. placed[u] \in Instance
    BY <1>1, <2>3 DEF TypeOK
  <2> QED
    BY <1>1, <1>3, <2>4, <2>5 DEF Instance, Entry
<1> QED
  BY <1>2, <1>3

\* Undo and redo of the objects of an action keep the types, and of the stack
\* they change no more than the names of these objects.
LEMMA ReplayTypes ==
    ASSUME TypeOK, NEW i \in DOMAIN stack, NEW redo \in BOOLEAN, Replay(i, redo)
    PROVE  /\ placed' \in [Uids -> Instance \cup {None}]
           /\ nextUid' \in 1..(MaxUid + 1)
           /\ strays' \subseteq Uids
           /\ stack' \in Seq(Action) /\ Len(stack') = Len(stack)
           /\ \A j \in DOMAIN stack :
                /\ stack'[j].pre = stack[j].pre /\ stack'[j].post = stack[j].post
                /\ stack'[j].short = stack[j].short /\ stack'[j].hidden = stack[j].hidden
<1> DEFINE a == stack[i]
           B == BroughtBack(a, redo)
<1>1. a \in Action
  BY DEF TypeOK
<1>2. PICK f \in NewUids(B) :
        /\ nextUid + Cardinality(DOMAIN f) <= MaxUid + 1
        /\ nextUid' = nextUid + Cardinality(DOMAIN f)
        /\ placed' = PlacedAfter(a, f, redo)
        /\ stack' = [stack EXCEPT ![i] = Renamed(a, f, redo)]
        /\ strays' = strays
              \cup {a.objs[u].id : u \in {w \in DOMAIN f :
                      \E j \in DOMAIN stack \ {i} : w \in Named(stack[j])}}
              \cup IF a.short THEN {a.objs[u].id : u \in Lost(a, redo)} ELSE {}
  BY DEF Replay
<1>3. B \subseteq Named(a) /\ Lost(a, redo) \subseteq Named(a) /\ Named(a) \subseteq Uids
  BY DEF BroughtBack, Lost, Named
<1>4. DOMAIN f = B
  BY DEF NewUids
<1>5. \A u \in Named(a) : a.objs[u] \in Entry /\ a.objs[u].id \in Uids
  BY <1>1 DEF Named, Action, Entry
<1>6. Cardinality(B) \in Nat
  <2>1. IsFiniteSet(Uids)
    BY FS_Interval, BoundsAssumption DEF Uids
  <2> QED
    BY <1>3, <2>1, FS_Subset, FS_CardinalityType
<1>7. nextUid' \in 1..(MaxUid + 1)
  BY <1>2, <1>4, <1>6, BoundsAssumption DEF TypeOK
<1>8. strays' \subseteq Uids
  BY <1>2, <1>3, <1>4, <1>5 DEF TypeOK
<1>9. placed' \in [Uids -> Instance \cup {None}]
  <2>1. ASSUME NEW k \in Uids
        PROVE  PlacedAfter(a, f, redo)[k] \in Instance \cup {None}
    <3>1. CASE \E u \in DOMAIN f : f[u] = k
      <4> DEFINE u == CHOOSE w \in DOMAIN f : f[w] = k
      <4>1. u \in B /\ u \in Named(a)
        BY <3>1, <1>3, <1>4
      <4>2. [id |-> a.objs[u].id, spot |-> SpotOf(a.objs[u], redo)] \in Instance
        BY <1>1, <4>1, SpotTypes
      <4> QED
        BY <3>1, <4>2 DEF PlacedAfter
    <3>2. CASE ~(\E u \in DOMAIN f : f[u] = k)
      <4>1. CASE k \in Named(a) \ (DOMAIN f \cup Lost(a, redo))
        <5>1. k \notin Deleted(a, redo) =>
                [placed[k] EXCEPT !.spot = SpotOf(a.objs[k], redo)] \in Instance
          BY <1>1, <1>4, <4>1, SpotTypes
        <5> QED
          BY <3>2, <4>1, <5>1 DEF PlacedAfter
      <4>2. CASE k \notin Named(a) \ (DOMAIN f \cup Lost(a, redo))
        BY <3>2, <4>2 DEF PlacedAfter, TypeOK
      <4> QED
        BY <4>1, <4>2
    <3> QED
      BY <3>1, <3>2
  <2> QED
    BY <1>2, <2>1 DEF PlacedAfter
<1>10. /\ Renamed(a, f, redo) \in Action
       /\ Renamed(a, f, redo).pre = a.pre /\ Renamed(a, f, redo).post = a.post
       /\ Renamed(a, f, redo).short = a.short /\ Renamed(a, f, redo).hidden = a.hidden
  <2> DEFINE o == [k \in Uids |->
                     IF Holders(a, f, redo, k) = {} THEN None
                     ELSE a.objs[CHOOSE u \in Holders(a, f, redo, k) : TRUE]]
  <2>1. o \in [Uids -> Entry \cup {None}]
    BY <1>5 DEF Holders
  <2>2. Renamed(a, f, redo) = [a EXCEPT !.objs = o]
    BY DEF Renamed
  <2> HIDE DEF o
  <2> QED
    BY <1>1, <2>1, <2>2 DEF Action
<1>11. stack' \in Seq(Action) /\ Len(stack') = Len(stack)
  BY <1>2, <1>10 DEF TypeOK
<1>12. \A j \in DOMAIN stack :
          /\ stack'[j].pre = stack[j].pre /\ stack'[j].post = stack[j].post
          /\ stack'[j].short = stack[j].short /\ stack'[j].hidden = stack[j].hidden
  BY <1>2, <1>10
<1> QED
  BY <1>7, <1>8, <1>9, <1>11, <1>12

\* What a sequence is like with one more at its end.
LEMMA AppendTypes ==
    ASSUME NEW S, NEW s \in Seq(S), NEW x \in S
    PROVE  /\ Append(s, x) \in Seq(S) /\ Len(Append(s, x)) = Len(s) + 1
           /\ Append(s, x)[Len(s) + 1] = x
           /\ \A i \in 1..Len(s) : Append(s, x)[i] = s[i]
OBVIOUS

\* And cut at both ends.
LEMMA SubSeqTypes ==
    ASSUME NEW S, NEW s \in Seq(S), NEW d \in Nat, NEW n \in Nat, d <= n, n <= Len(s)
    PROVE  /\ SubSeq(s, d + 1, n) \in Seq(S) /\ Len(SubSeq(s, d + 1, n)) = n - d
           /\ \A i \in 1..n - d : SubSeq(s, d + 1, n)[i] = s[i + d]
OBVIOUS

\* The map at the start is the only one remembered.
LEMMA InitInv == Init => CellsInv
<1> SUFFICES ASSUME Init PROVE CellsInv
  OBVIOUS
<1>1. placed \in [Uids -> Instance \cup {None}]
  BY LoadedAssumption DEF Init, Instance, Uids
<1>2. Where(placed) \in [Uids -> SUBSET Spots]
  BY <1>1, WhereTypes
<1>3. nextUid \in 1..(MaxUid + 1)
  BY LoadedAssumption, BoundsAssumption DEF Init
<1>4. TypeOK
  <2>1. was \in Seq([Cells -> Values])
    BY DEF Init
  <2>2. wasAt \in Seq([Uids -> SUBSET Spots])
    BY <1>2 DEF Init
  <2>3. stack \in Seq(Action) /\ edits \in 0..MaxEdits /\ undone \in Nat
    BY BoundsAssumption DEF Init
  <2> QED
    BY <1>1, <1>3, <2>1, <2>2, <2>3 DEF Init, TypeOK
<1>5. Ended = 0 /\ Done = 0
  BY DEF Init, Ended, Done
<1>6. StackOk /\ ImagesOk /\ RunningOk /\ CellsAreRestored
  BY <1>5, BoundsAssumption DEF Init, StackOk, ImagesOk, RunningOk, CellsAreRestored
<1> QED
  BY <1>4, <1>6 DEF CellsInv

\* A new action takes the place of the undone ones, and of the oldest at the limit.
LEMMA BeginShape ==
    ASSUME CellsInv, Begin
    PROVE  \E d \in {0, 1} :
             /\ Done \in Nat /\ d <= Done /\ Done - d < Limit /\ Done <= Ended
             /\ Ended = Len(stack) /\ Len(stack) \in Nat /\ Len(wasAt) = Ended + 1
             /\ stack' \in Seq(Action) /\ Len(stack') = Done - d + 1
             /\ \A i \in 1..Done - d : stack'[i] = stack[i + d]
             /\ stack'[Len(stack')] = NewAction
             /\ was' \in Seq([Cells -> Values]) /\ Len(was') = Done - d + 1
             /\ \A i \in 1..Done - d + 1 : was'[i] = was[i + d]
             /\ wasAt' \in Seq([Uids -> SUBSET Spots]) /\ Len(wasAt') = Done - d + 1
             /\ \A i \in 1..Done - d + 1 : wasAt'[i] = wasAt[i + d]
             /\ Ended' = Done - d /\ Cur' = NewAction /\ stack' # <<>> /\ running' /\ undone' = 0
<1> USE DEF CellsInv
<1>1. /\ Done \in Nat /\ Ended = Len(stack) /\ Done <= Ended /\ Len(stack) \in Nat
      /\ Len(was) = Ended + 1 /\ Len(wasAt) = Ended + 1 /\ Ended <= Limit
  BY CurIsAction, BoundsAssumption DEF StackOk, Begin, Done, TypeOK
<1> DEFINE d == First - 1
           rest == SubSeq(stack, First, Done)
<1>2. d \in {0, 1} /\ First = d + 1 /\ d <= Done /\ Done - d < Limit
  BY <1>1, BoundsAssumption DEF First
<1>3. NewAction \in Action /\ NewAction.pre = NoImage /\ ~NewAction.hidden
  BY DEF NewAction, Action, Image, NoImage, NoObjects
<1>4. rest \in Seq(Action) /\ Len(rest) = Done - d /\ \A i \in 1..Done - d : rest[i] = stack[i + d]
  <2>1. rest = SubSeq(stack, d + 1, Done) /\ stack \in Seq(Action)
    BY <1>2 DEF TypeOK
  <2>2. d \in Nat /\ Done \in Nat /\ d <= Done /\ Done <= Len(stack)
    BY <1>1, <1>2
  <2> HIDE DEF d, rest
  <2> QED
    BY ONLY <2>1, <2>2, SubSeqTypes
<1>5. /\ was' \in Seq([Cells -> Values]) /\ Len(was') = Done - d + 1
      /\ \A i \in 1..Done - d + 1 : was'[i] = was[i + d]
      /\ wasAt' \in Seq([Uids -> SUBSET Spots]) /\ Len(wasAt') = Done - d + 1
      /\ \A i \in 1..Done - d + 1 : wasAt'[i] = wasAt[i + d]
  <2>1. was' = SubSeq(was, d + 1, Done + 1) /\ wasAt' = SubSeq(wasAt, d + 1, Done + 1)
    BY <1>2 DEF Begin
  <2>2. /\ was \in Seq([Cells -> Values]) /\ wasAt \in Seq([Uids -> SUBSET Spots])
        /\ d \in Nat /\ Done + 1 \in Nat /\ d <= Done + 1
        /\ Done + 1 <= Len(was) /\ Done + 1 <= Len(wasAt) /\ Done - d + 1 = (Done + 1) - d
    BY <1>1, <1>2 DEF TypeOK
  <2> HIDE DEF d
  <2>3. /\ was' \in Seq([Cells -> Values]) /\ Len(was') = Done - d + 1
        /\ \A i \in 1..Done - d + 1 : was'[i] = was[i + d]
    BY <2>1, <2>2, SubSeqTypes
  <2>4. /\ wasAt' \in Seq([Uids -> SUBSET Spots]) /\ Len(wasAt') = Done - d + 1
        /\ \A i \in 1..Done - d + 1 : wasAt'[i] = wasAt[i + d]
    BY <2>1, <2>2, SubSeqTypes
  <2> QED
    BY <2>3, <2>4
<1>6. /\ stack' \in Seq(Action) /\ Len(stack') = Done - d + 1
      /\ \A i \in 1..Done - d : stack'[i] = stack[i + d]
      /\ stack'[Len(stack')] = NewAction
  <2>1. stack' = Append(rest, NewAction)
    BY DEF Begin
  <2> HIDE DEF rest, d
  <2>2. /\ stack' \in Seq(Action) /\ Len(stack') = Len(rest) + 1
        /\ stack'[Len(rest) + 1] = NewAction
        /\ \A i \in 1..Len(rest) : stack'[i] = rest[i]
    BY <1>3, <1>4, <2>1, AppendTypes
  <2> QED
    BY <1>4, <2>2
<1>7. Ended' = Done - d /\ Cur' = NewAction /\ stack' # <<>> /\ running' /\ undone' = 0
  <2>1. running' /\ undone' = 0
    BY DEF Begin
  <2>2. Cur' = NewAction
    BY <1>6 DEF Cur
  <2>3. Ended' = Len(stack') - 1 /\ Len(stack') - 1 = Done - d
    BY <1>1, <1>2, <1>6, <2>1 DEF Ended
  <2>4. stack' # <<>>
    BY <1>1, <1>2, <1>6
  <2> QED
    BY <2>1, <2>2, <2>3, <2>4
<1> HIDE DEF d, rest
<1> QED
  BY <1>1, <1>2, <1>4, <1>5, <1>6, <1>7

LEMMA BeginInv ==
    ASSUME CellsInv, Begin
    PROVE  CellsInv'
<1> USE DEF CellsInv
<1>1. PICK d \in {0, 1} :
        /\ Done \in Nat /\ d <= Done /\ Done - d < Limit /\ Done <= Ended
        /\ Ended = Len(stack) /\ Len(stack) \in Nat
        /\ stack' \in Seq(Action) /\ Len(stack') = Done - d + 1
        /\ \A i \in 1..Done - d : stack'[i] = stack[i + d]
        /\ stack'[Len(stack')] = NewAction
        /\ was' \in Seq([Cells -> Values]) /\ Len(was') = Done - d + 1
        /\ \A i \in 1..Done - d + 1 : was'[i] = was[i + d]
        /\ wasAt' \in Seq([Uids -> SUBSET Spots]) /\ Len(wasAt') = Done - d + 1
        /\ Ended' = Done - d /\ Cur' = NewAction /\ stack' # <<>> /\ running' /\ undone' = 0
  BY BeginShape
<1>2. NewAction \in Action /\ NewAction.pre = NoImage /\ ~NewAction.hidden
  BY DEF NewAction, Action, Image, NoImage, NoObjects
<1>3. TypeOK'
  <2>1. /\ stack' \in Seq(Action) /\ was' \in Seq([Cells -> Values])
        /\ wasAt' \in Seq([Uids -> SUBSET Spots]) /\ undone' \in Nat
    BY <1>1
  <2>2. running' \in BOOLEAN
    BY Zenon DEF Begin
  <2> QED
    BY <2>1, <2>2 DEF Begin, map, gaps, TypeOK
<1>4. StackOk'
  <2>1. Len(was') = Ended' + 1 /\ Len(wasAt') = Ended' + 1
    BY <1>1
  <2>2. undone' <= Ended' /\ Ended' < Limit /\ Ended' <= Limit
    BY <1>1, BoundsAssumption
  <2>3. undone' = 0 /\ stack' # <<>>
    BY <1>1
  <2> HIDE DEF CellsInv
  <2> QED
    BY <2>1, <2>2, <2>3 DEF StackOk
<1>5. ImagesOk'
  <2> SUFFICES ASSUME NEW i \in 1..(Done - d), NEW c \in Cells \ astray
               PROVE  /\ IF stack'[i].pre[c] = None THEN was'[i][c] = was'[i + 1][c]
                         ELSE stack'[i].pre[c] = was'[i][c]
                      /\ IF stack'[i].post[c] = None
                         THEN stack'[i].pre[c] = None \/ stack'[i].short \/ c \in NoRedo
                         ELSE stack'[i].post[c] = was'[i + 1][c]
    BY <1>1 DEF ImagesOk, Begin, gaps
  <2>1. i + d \in 1..Ended /\ i \in 1..Done - d + 1 /\ i + 1 \in 1..Done - d + 1
    <3>1. Done \in Nat /\ d \in {0, 1} /\ d <= Done /\ Done <= Ended /\ Ended \in Nat
      BY <1>1
    <3> QED
      BY <3>1
  <2>2. stack'[i] = stack[i + d] /\ was'[i] = was[i + d] /\ was'[i + 1] = was[(i + 1) + d]
    BY <1>1, <2>1
  <2>3. (i + 1) + d = (i + d) + 1
    BY <1>1
  <2> QED
    BY <2>1, <2>2, <2>3 DEF ImagesOk
<1>6. RunningOk'
  <2>1. Len(stack') \in 1..Done - d + 1 /\ Len(stack') + d = Done + 1
    BY <1>1
  <2>2. was'[Len(stack')] = was[Done + 1]
    BY <1>1, <2>1
  <2>3. \A c \in Cells \ astray : cells[c] = was[Done + 1][c]
    BY DEF CellsAreRestored, Begin
  <2> QED
    BY <1>1, <1>2, <2>2, <2>3 DEF RunningOk, Begin, map, gaps, NoImage
<1>7. CellsAreRestored'
  BY DEF CellsAreRestored, Begin
<1> QED
  BY <1>3, <1>4, <1>5, <1>6, <1>7

LEMMA BeginHiddenInv ==
    ASSUME CellsInv, BeginHidden
    PROVE  CellsInv'
<1> USE DEF CellsInv
<1> DEFINE fresh == [NewAction EXCEPT !.hidden = TRUE]
<1>1. /\ Done \in Nat /\ Ended = Len(stack) /\ Len(stack) \in Nat
      /\ Len(was) = Ended + 1 /\ Len(wasAt) = Ended + 1 /\ Ended <= Limit /\ undone <= Ended
      /\ undone \in Nat
  BY CurIsAction DEF StackOk, BeginHidden, TypeOK
<1>2. fresh \in Action /\ fresh.hidden
  BY DEF NewAction, Action, Image, NoImage, NoObjects
<1> HIDE DEF fresh
<1>3. /\ stack' \in Seq(Action) /\ Len(stack') = Len(stack) + 1
      /\ \A i \in 1..Len(stack) : stack'[i] = stack[i]
      /\ stack'[Len(stack')] = fresh
  <2>1. stack' = Append(stack, fresh) /\ stack \in Seq(Action)
    BY DEF fresh, BeginHidden, TypeOK
  <2> QED
    BY <1>2, <2>1, AppendTypes
<1>4. /\ Ended' = Ended /\ Cur' = fresh /\ Done' = Done + 1
      /\ stack' # <<>> /\ running' /\ undone' = undone
  <2>1. running' /\ undone' = undone
    BY DEF BeginHidden
  <2>2. Cur' = fresh
    BY <1>3 DEF Cur
  <2>3. Ended' = Ended
    BY <1>1, <1>3, <2>1 DEF Ended
  <2>4. Done' = Done + 1
    BY <1>1, <1>3, <2>1 DEF Done
  <2>5. stack' # <<>>
    BY <1>1, <1>3
  <2> QED
    BY <2>1, <2>2, <2>3, <2>4, <2>5
<1>5. TypeOK'
  BY <1>3 DEF BeginHidden, map, past, gaps, TypeOK
<1>6. StackOk'
  BY <1>1, <1>2, <1>4 DEF BeginHidden, StackOk, past
<1>7. ImagesOk'
  BY <1>1, <1>3, <1>4 DEF ImagesOk, BeginHidden, past, gaps
<1>8. RunningOk' /\ CellsAreRestored'
  BY <1>2, <1>4 DEF RunningOk, CellsAreRestored, BeginHidden, map, past, gaps
<1> QED
  BY <1>5, <1>6, <1>7, <1>8

\* An action that ends, whether or not finish() got through.
LEMMA EndInv ==
    ASSUME CellsInv, End \/ EndFails
    PROVE  CellsInv'
<1> USE DEF CellsInv
<1>1. /\ running /\ ~Cur.hidden /\ running' = FALSE
      /\ UNCHANGED <<map, undone, edits, gaps>> /\ Remember
  BY DEF End, EndFails
<1>2. /\ Len(stack) \in Nat /\ Len(stack) = Ended + 1 /\ Ended \in Nat /\ Cur \in Action
      /\ Len(was) = Len(stack) /\ Len(wasAt) = Len(stack) /\ Len(stack) <= Limit /\ undone = 0
  BY <1>1, CurIsAction, BoundsAssumption DEF StackOk
<1>3. PICK a \in Action :
        /\ SetCur(a) /\ a.pre = Cur.pre
        /\ \A c \in Cells : IF a.post[c] = None
                            THEN a.pre[c] = None \/ a.short \/ c \in NoRedo
                            ELSE a.post[c] = cells[c]
  <2>1. \A S : \A c \in Cells : ImageOf(S)[c] # None => ImageOf(S)[c] = cells[c]
    BY DEF ImageOf
  <2>2. CASE End
    <3>1. /\ Finished(Cur) \in Action /\ Finished(Cur).pre = Cur.pre
          /\ Finished(Cur).post = ImageOf(Registered(Cur) \ NoRedo)
      BY <1>2, FinishedTypes
    <3>2. ASSUME NEW c \in Cells, ImageOf(Registered(Cur) \ NoRedo)[c] = None
          PROVE  Cur.pre[c] = None \/ c \in NoRedo
      <4>1. cells[c] # None
        BY CellsAssumption DEF TypeOK
      <4> QED
        BY <3>2, <4>1 DEF ImageOf, Registered
    <3>3. SetCur(Finished(Cur))
      BY <2>2 DEF End
    <3>4. \A c \in Cells : IF Finished(Cur).post[c] = None
                           THEN Finished(Cur).pre[c] = None \/ c \in NoRedo
                           ELSE Finished(Cur).post[c] = cells[c]
      BY <2>1, <3>1, <3>2
    <3> QED
      BY <3>1, <3>3, <3>4
  <2>3. CASE EndFails
    <3>1. PICK S \in SUBSET (Registered(Cur) \ NoRedo), o \in {Cur.objs, Settled(Cur)} :
                SetCur(CutShort(Cur, S, o))
      BY <2>3 DEF EndFails
    <3>2. /\ CutShort(Cur, S, o) \in Action /\ CutShort(Cur, S, o).pre = Cur.pre
          /\ CutShort(Cur, S, o).short /\ CutShort(Cur, S, o).post = ImageOf(S)
      BY <1>2, FinishedTypes
    <3>3. \A c \in Cells : IF CutShort(Cur, S, o).post[c] = None
                           THEN CutShort(Cur, S, o).short
                           ELSE CutShort(Cur, S, o).post[c] = cells[c]
      BY <2>1, <3>2
    <3> QED
      BY <3>1, <3>2, <3>3
  <2> QED
    BY <2>2, <2>3
<1>4. /\ stack' \in Seq(Action) /\ Len(stack') = Len(stack) /\ stack'[Len(stack)] = a
      /\ \A i \in 1..Len(stack) - 1 : stack'[i] = stack[i]
  BY <1>1, <1>3, SetCurKeeps
<1>5. /\ was' \in Seq([Cells -> Values]) /\ Len(was') = Len(stack) + 1
      /\ \A i \in 1..Len(stack) : was'[i] = was[i]
      /\ was'[Len(stack) + 1] = cells
  BY <1>1, <1>2 DEF TypeOK, Remember
<1>6. wasAt' \in Seq([Uids -> SUBSET Spots]) /\ Len(wasAt') = Len(stack) + 1
  <2>1. Where(placed) \in [Uids -> SUBSET Spots]
    BY WhereTypes DEF TypeOK
  <2> QED
    BY <1>1, <1>2, <2>1 DEF TypeOK, Remember
<1>7. Ended' = Len(stack) /\ Done' = Len(stack)
  BY <1>1, <1>2, <1>4 DEF Ended, Done
<1>8. TypeOK'
  BY <1>1, <1>4, <1>5, <1>6 DEF map, gaps, TypeOK
<1>9. StackOk'
  BY <1>1, <1>2, <1>4, <1>5, <1>6, <1>7 DEF StackOk
<1>10. ImagesOk'
  <2> SUFFICES ASSUME NEW i \in 1..Len(stack), NEW c \in Cells \ astray
               PROVE  /\ IF stack'[i].pre[c] = None THEN was'[i][c] = was'[i + 1][c]
                         ELSE stack'[i].pre[c] = was'[i][c]
                      /\ IF stack'[i].post[c] = None
                         THEN stack'[i].pre[c] = None \/ stack'[i].short \/ c \in NoRedo
                         ELSE stack'[i].post[c] = was'[i + 1][c]
    BY <1>1, <1>7 DEF ImagesOk, gaps
  <2>1. CASE i = Len(stack)
    <3>1. IF Cur.pre[c] = None THEN cells[c] = was[Len(stack)][c]
          ELSE Cur.pre[c] = was[Len(stack)][c]
      BY <1>1 DEF RunningOk
    <3> QED
      BY <1>2, <1>3, <1>4, <1>5, <2>1, <3>1
  <2>2. CASE i # Len(stack)
    <3>1. i \in 1..Ended /\ i + 1 \in 1..Len(stack)
      BY <1>2, <2>2
    <3> QED
      BY <1>2, <1>4, <1>5, <3>1 DEF ImagesOk
  <2> QED
    BY <2>1, <2>2
<1>11. RunningOk' /\ CellsAreRestored'
  BY <1>1, <1>5, <1>7 DEF RunningOk, CellsAreRestored, map
<1> QED
  BY <1>8, <1>9, <1>10, <1>11

LEMMA EndHiddenInv ==
    ASSUME CellsInv, EndHidden
    PROVE  CellsInv'
<1> USE DEF CellsInv
<1>1. /\ Len(stack) \in Nat /\ Len(stack) = Ended + 1 /\ Ended \in Nat /\ Done \in Nat
      /\ Len(was) = Len(stack) /\ Len(wasAt) = Len(stack) /\ Ended <= Limit /\ undone <= Ended
      /\ undone \in Nat
  BY CurIsAction DEF StackOk, EndHidden, TypeOK
<1>2. /\ stack' \in Seq(Action) /\ Len(stack') = Ended
      /\ \A i \in 1..Ended : stack'[i] = stack[i]
  BY <1>1 DEF EndHidden, TypeOK
<1>3. Ended' = Ended /\ Done' = Done - 1
  BY <1>1, <1>2 DEF EndHidden, Ended, Done
<1>4. TypeOK'
  BY <1>2 DEF EndHidden, map, past, gaps, TypeOK
<1>5. StackOk'
  BY <1>1, <1>2, <1>3 DEF EndHidden, StackOk, past
<1>6. ImagesOk'
  BY <1>2, <1>3 DEF ImagesOk, EndHidden, past, gaps
<1>7. RunningOk' /\ CellsAreRestored'
  BY <1>1, <1>3 DEF RunningOk, CellsAreRestored, EndHidden, map, past, gaps
<1> QED
  BY <1>4, <1>5, <1>6, <1>7

\* A cell is registered before it changes, so the image is the one from before
\* the first change.
LEMMA EditCellInv ==
    ASSUME CellsInv, NEW c \in Cells, NEW v \in Values, EditCell(c, v)
    PROVE  CellsInv'
<1> USE DEF CellsInv
<1>1. /\ Len(stack) \in Nat /\ Len(stack) = Ended + 1 /\ Ended \in Nat /\ Cur \in Action
      /\ DOMAIN stack = 1..Len(stack) /\ running
  BY CurIsAction DEF EditCell
<1> DEFINE a == WithPre(Cur, c)
<1>2. /\ a \in Action /\ a.hidden = Cur.hidden /\ a.pre[c] # None
      /\ \A x \in Cells : x # c => a.pre[x] = Cur.pre[x]
      /\ a.pre[c] = IF Cur.pre[c] = None THEN cells[c] ELSE Cur.pre[c]
  <2>1. cells[c] \in Values /\ cells[c] # None
    BY CellsAssumption DEF TypeOK
  <2> QED
    BY <1>1, <2>1 DEF WithPre, Action, Image
<1> HIDE DEF a
<1>3. /\ stack' \in Seq(Action) /\ Len(stack') = Len(stack) /\ stack'[Len(stack)] = a
      /\ \A i \in 1..Len(stack) - 1 : stack'[i] = stack[i]
  <2>1. SetCur(a)
    BY DEF EditCell, a
  <2> QED
    BY <1>1, <1>2, <2>1, SetCurKeeps
<1>4. Ended' = Ended /\ Done' = Done /\ Cur' = a /\ stack' # <<>>
  <2>1. running' = running /\ undone' = undone
    BY DEF EditCell
  <2> QED
    BY <1>1, <1>3, <2>1 DEF Ended, Done, Cur
<1>5. /\ cells' = [cells EXCEPT ![c] = v]
      /\ astray' = IF Cur.hidden THEN astray \cup {c} ELSE astray
      /\ UNCHANGED <<placed, nextUid, undone, running, past, strays>>
      /\ edits' \in 0..MaxEdits
  BY BoundsAssumption DEF EditCell, TypeOK
<1>6. TypeOK'
  <2>1. cells' \in [Cells -> Values] /\ astray' \subseteq Cells
    BY <1>5 DEF TypeOK
  <2> QED
    BY <1>3, <1>5, <2>1 DEF TypeOK, past
<1>7. StackOk'
  BY <1>2, <1>4, <1>5 DEF StackOk, past
<1>8. ImagesOk'
  BY <1>1, <1>3, <1>4, <1>5 DEF ImagesOk, past
<1>9. RunningOk'
  <2> SUFFICES ASSUME NEW x \in Cells \ astray'
               PROVE  IF a.hidden THEN cells'[x] = was[Done][x]
                      ELSE IF a.pre[x] = None THEN cells'[x] = was[Len(stack)][x]
                      ELSE a.pre[x] = was[Len(stack)][x]
    BY <1>3, <1>4, <1>5 DEF RunningOk, past
  <2>1. x \notin astray /\ (Cur.hidden => x # c) /\ (x # c => cells'[x] = cells[x])
    BY <1>5 DEF TypeOK
  <2>2. IF Cur.hidden THEN cells[x] = was[Done][x]
        ELSE IF Cur.pre[x] = None THEN cells[x] = was[Len(stack)][x]
        ELSE Cur.pre[x] = was[Len(stack)][x]
    BY <1>1, <2>1 DEF RunningOk
  <2>3. CASE x = c
    BY <1>2, <2>1, <2>2, <2>3
  <2>4. CASE x # c
    BY <1>2, <2>1, <2>2, <2>4
  <2> QED
    BY <2>3, <2>4
<1>10. CellsAreRestored'
  BY <1>1, <1>5 DEF CellsAreRestored
<1> QED
  BY <1>6, <1>7, <1>8, <1>9, <1>10

\* Registering an object touches no cell and no image of one.
LEMMA EditObjectInv ==
    ASSUME CellsInv, NEW u \in Uids, NEW e \in Entry, EditsObjects, SetCur(WithEntry(Cur, u, e)),
           placed' \in [Uids -> Instance \cup {None}], nextUid' \in 1..(MaxUid + 1)
    PROVE  CellsInv'
<1> USE DEF CellsInv
<1>1. /\ Len(stack) \in Nat /\ Len(stack) = Ended + 1 /\ Ended \in Nat /\ Cur \in Action
      /\ running
  BY CurIsAction DEF EditsObjects
<1> DEFINE a == WithEntry(Cur, u, e)
<1>2. a \in Action /\ a.pre = Cur.pre /\ a.hidden = Cur.hidden
  BY <1>1, EntryTypes
<1> HIDE DEF a
<1>3. /\ stack' \in Seq(Action) /\ Len(stack') = Len(stack) /\ stack'[Len(stack)] = a
      /\ \A i \in 1..Len(stack) - 1 : stack'[i] = stack[i]
  <2>1. SetCur(a)
    BY DEF a
  <2> QED
    BY <1>1, <1>2, <2>1, SetCurKeeps
<1>4. /\ UNCHANGED <<cells, undone, running, past, gaps>> /\ edits' \in 0..MaxEdits
  BY BoundsAssumption DEF EditsObjects, TypeOK
<1>5. Ended' = Ended /\ Done' = Done /\ Cur' = a /\ stack' # <<>>
  BY <1>1, <1>3, <1>4 DEF Ended, Done, Cur
<1>6. TypeOK'
  BY <1>3, <1>4 DEF TypeOK, past, gaps
<1>7. StackOk'
  BY <1>2, <1>4, <1>5 DEF StackOk, past
<1>8. ImagesOk'
  BY <1>1, <1>3, <1>4, <1>5 DEF ImagesOk, past, gaps
<1>9. RunningOk' /\ CellsAreRestored'
  BY <1>1, <1>2, <1>3, <1>4, <1>5 DEF RunningOk, CellsAreRestored, past, gaps
<1> QED
  BY <1>6, <1>7, <1>8, <1>9

\* The three registrators of objects.
LEMMA EditsObjectsInv ==
    ASSUME CellsInv,
           \/ \E s \in Spots : AddObject(s)
           \/ \E u \in Uids, s \in Spots : MoveObject(u, s)
           \/ \E u \in Uids : RemoveObject(u)
    PROVE  CellsInv'
<1>1. TypeOK /\ StackOk
  BY DEF CellsInv
<1>2. ASSUME NEW u \in Uids, running, placed[u] # None
      PROVE  /\ placed[u].spot \in Spots /\ placed[u].id \in Uids
             /\ \A s \in Spots :
                  [placed EXCEPT ![u] = [@ EXCEPT !.spot = s]] \in [Uids -> Instance \cup {None}]
             /\ \/ EntryOf(Cur, u) \in Entry
                \/ EntryOf(Cur, u) = [id |-> placed[u].id, added |-> None, from |-> None,
                                      to |-> None, removed |-> None]
  <2>1. Cur \in Action
    BY <1>1, <1>2, CurIsAction
  <2>2. placed[u] \in Instance
    BY <1>1, <1>2 DEF TypeOK
  <2> QED
    BY <1>1, <1>2, <2>1, <2>2 DEF TypeOK, Instance, EntryOf, Action
<1>3. ASSUME NEW s \in Spots, AddObject(s)
      PROVE  CellsInv'
  <2> DEFINE e == [id |-> nextUid, added |-> s, from |-> None, to |-> None, removed |-> None]
  <2>1. nextUid \in Uids /\ s # None
    BY <1>3, CellsAssumption DEF AddObject
  <2>2. e \in Entry
    BY <2>1 DEF Entry
  <2>3. placed' \in [Uids -> Instance \cup {None}] /\ nextUid' \in 1..(MaxUid + 1)
    BY <1>1, <1>3, <2>1, BoundsAssumption DEF AddObject, TypeOK, Instance, Uids
  <2> QED
    BY <1>3, <2>1, <2>2, <2>3, EditObjectInv DEF AddObject
<1>4. ASSUME NEW u \in Uids, NEW s \in Spots, MoveObject(u, s)
      PROVE  CellsInv'
  <2> DEFINE o == EntryOf(Cur, u)
             e == IF o.from # None THEN o ELSE [o EXCEPT !.from = placed[u].spot]
  <2>1. running /\ placed[u] # None
    BY <1>4 DEF MoveObject, EditsObjects
  <2>2. placed[u].spot \in Spots /\ placed[u].spot # None
    BY <1>2, <2>1, CellsAssumption
  <2>3. e \in Entry
    BY <1>2, <2>1, <2>2 DEF Entry
  <2>4. placed' \in [Uids -> Instance \cup {None}] /\ nextUid' \in 1..(MaxUid + 1)
    BY <1>1, <1>2, <1>4, <2>1 DEF MoveObject, TypeOK
  <2>5. EditsObjects /\ SetCur(WithEntry(Cur, u, e))
    BY <1>4 DEF MoveObject
  <2> QED
    BY <2>3, <2>4, <2>5, EditObjectInv
<1>5. ASSUME NEW u \in Uids, RemoveObject(u)
      PROVE  CellsInv'
  <2> DEFINE e == [EntryOf(Cur, u) EXCEPT !.removed = placed[u].spot]
  <2>1. running /\ placed[u] # None
    BY <1>5 DEF RemoveObject, EditsObjects
  <2>2. placed[u].spot \in Spots /\ placed[u].spot # None
    BY <1>2, <2>1, CellsAssumption
  <2>3. e \in Entry
    BY <1>2, <2>1, <2>2 DEF Entry
  <2>4. placed' \in [Uids -> Instance \cup {None}] /\ nextUid' \in 1..(MaxUid + 1)
    BY <1>1, <1>5 DEF RemoveObject, TypeOK
  <2>5. EditsObjects /\ SetCur(WithEntry(Cur, u, e))
    BY <1>5 DEF RemoveObject
  <2> QED
    BY <2>3, <2>4, <2>5, EditObjectInv
<1> QED
  BY <1>3, <1>4, <1>5

\* Undo puts the images from before an action back, redo those from after it.
LEMMA UndoInv ==
    ASSUME CellsInv, Undo \/ Redo
    PROVE  CellsInv'
<1> USE DEF CellsInv
<1>1. ~running /\ running' = running /\ UNCHANGED <<edits, past>>
  BY DEF Undo, Redo
<1>2. /\ Len(stack) \in Nat /\ Len(stack) = Ended /\ DOMAIN stack = 1..Len(stack)
      /\ undone \in Nat /\ undone <= Len(stack) /\ Done = Len(stack) - undone
      /\ Len(was) = Len(stack) + 1 /\ Len(wasAt) = Len(stack) + 1 /\ Len(stack) <= Limit
  BY <1>1, CurIsAction DEF StackOk, TypeOK, Done
<1>3. \A c \in Cells \ astray : cells[c] = was[Done + 1][c]
  BY <1>1 DEF CellsAreRestored
<1>4. \E i \in DOMAIN stack, redo \in BOOLEAN : Replay(i, redo)
  <2>1. CASE Undo
    <3>1. Done \in DOMAIN stack
      BY <1>2, <2>1 DEF Undo
    <3>2. Replay(Done, FALSE)
      BY <2>1, Zenon DEF Undo, Done
    <3> QED
      BY <3>1, <3>2, Zenon
  <2>2. CASE Redo
    <3>1. Done + 1 \in DOMAIN stack
      BY <1>2, <2>2 DEF Redo
    <3>2. Replay(Done + 1, TRUE)
      BY <2>2, Zenon DEF Redo, Done
    <3> QED
      BY <3>1, <3>2, Zenon
  <2> QED
    BY <2>1, <2>2
<1>5. /\ placed' \in [Uids -> Instance \cup {None}]
      /\ nextUid' \in 1..(MaxUid + 1)
      /\ strays' \subseteq Uids
      /\ stack' \in Seq(Action) /\ Len(stack') = Len(stack)
      /\ \A j \in DOMAIN stack :
           /\ stack'[j].pre = stack[j].pre /\ stack'[j].post = stack[j].post
           /\ stack'[j].short = stack[j].short
  BY <1>4, ReplayTypes
<1>6. /\ cells' \in [Cells -> Values]
      /\ astray \subseteq astray' /\ astray' \subseteq Cells
      /\ undone' \in Nat /\ undone' <= Len(stack)
      /\ \A c \in Cells \ astray' : cells'[c] = was[(Len(stack) - undone') + 1][c]
  <2>1. CASE Undo
    <3> DEFINE i == Len(stack) - undone
    <3>1. i \in DOMAIN stack /\ stack[i] \in Action /\ i = Done /\ i \in 1..Ended
      BY <1>2, <2>1 DEF Undo, TypeOK
    <3>2. cells' = Overwrite(stack[i].pre) /\ undone' = undone + 1 /\ astray' = astray
      BY <2>1 DEF Undo
    <3>3. cells' \in [Cells -> Values]
      BY <3>1, <3>2 DEF Overwrite, TypeOK, Action, Image
    <3>4. (Len(stack) - undone') + 1 = i /\ undone' \in Nat /\ undone' <= Len(stack)
      BY <1>2, <2>1, <3>2 DEF Undo
    <3>5. \A c \in Cells \ astray : cells'[c] = was[i][c]
      <4> SUFFICES ASSUME NEW c \in Cells \ astray PROVE cells'[c] = was[i][c]
        OBVIOUS
      <4>1. IF stack[i].pre[c] = None THEN was[i][c] = was[i + 1][c]
            ELSE stack[i].pre[c] = was[i][c]
        BY <3>1 DEF ImagesOk
      <4>2. cells[c] = was[i + 1][c]
        BY <1>3, <3>1
      <4> QED
        BY <3>2, <4>1, <4>2 DEF Overwrite
    <3> QED
      BY <3>2, <3>3, <3>4, <3>5 DEF TypeOK
  <2>2. CASE Redo
    <3> DEFINE i == Len(stack) - undone + 1
    <3>1. i \in DOMAIN stack /\ stack[i] \in Action /\ i = Done + 1 /\ i \in 1..Ended
      BY <1>2, <2>2 DEF Redo, TypeOK
    <3>2. /\ cells' = Overwrite(stack[i].post) /\ undone' = undone - 1
          /\ astray' = astray \cup {c \in Registered(stack[i]) : stack[i].short \/ c \in NoRedo}
      BY <2>2 DEF Redo
    <3>3. cells' \in [Cells -> Values]
      BY <3>1, <3>2 DEF Overwrite, TypeOK, Action, Image
    <3>4. /\ (Len(stack) - undone') + 1 = i + 1 /\ undone' \in Nat /\ undone' <= Len(stack)
      BY <1>2, <2>2, <3>2 DEF Redo
    <3>5. \A c \in Cells \ astray' : cells'[c] = was[i + 1][c]
      <4> SUFFICES ASSUME NEW c \in Cells \ astray' PROVE cells'[c] = was[i + 1][c]
        OBVIOUS
      <4>1. c \notin astray /\ (stack[i].pre[c] = None \/ ~(stack[i].short \/ c \in NoRedo))
        BY <3>2 DEF Registered
      <4>2. /\ IF stack[i].pre[c] = None THEN was[i][c] = was[i + 1][c]
               ELSE stack[i].pre[c] = was[i][c]
            /\ IF stack[i].post[c] = None
               THEN stack[i].pre[c] = None \/ stack[i].short \/ c \in NoRedo
               ELSE stack[i].post[c] = was[i + 1][c]
        BY <3>1, <4>1 DEF ImagesOk
      <4>3. cells[c] = was[i][c]
        BY <1>3, <3>1, <4>1
      <4> QED
        BY <3>2, <4>1, <4>2, <4>3 DEF Overwrite
    <3>6. astray' \subseteq Cells
      BY <3>2 DEF TypeOK, Registered
    <3> QED
      BY <3>2, <3>3, <3>4, <3>5, <3>6
  <2> QED
    BY <2>1, <2>2
<1>7. Ended' = Len(stack) /\ Done' = Len(stack) - undone'
  BY <1>1, <1>2, <1>5 DEF Ended, Done
<1>8. TypeOK'
  BY <1>1, <1>5, <1>6 DEF TypeOK, past
<1>9. StackOk'
  BY <1>1, <1>2, <1>5, <1>6, <1>7 DEF StackOk, past
<1>10. ImagesOk'
  <2> SUFFICES ASSUME NEW i \in 1..Len(stack), NEW c \in Cells \ astray'
               PROVE  /\ IF stack'[i].pre[c] = None THEN was'[i][c] = was'[i + 1][c]
                         ELSE stack'[i].pre[c] = was'[i][c]
                      /\ IF stack'[i].post[c] = None
                         THEN stack'[i].pre[c] = None \/ stack'[i].short \/ c \in NoRedo
                         ELSE stack'[i].post[c] = was'[i + 1][c]
    BY <1>7 DEF ImagesOk
  <2>1. i \in DOMAIN stack /\ i \in 1..Ended /\ c \in Cells \ astray /\ was' = was
    BY <1>1, <1>2, <1>6 DEF past
  <2>2. /\ stack'[i].pre = stack[i].pre /\ stack'[i].post = stack[i].post
        /\ stack'[i].short = stack[i].short
    BY <1>5, <2>1
  <2> QED
    BY <2>1, <2>2 DEF ImagesOk
<1>11. RunningOk' /\ CellsAreRestored'
  BY <1>1, <1>6, <1>7 DEF RunningOk, CellsAreRestored, past
<1> QED
  BY <1>8, <1>9, <1>10, <1>11

LEMMA PurgeInv ==
    ASSUME CellsInv, Purge
    PROVE  CellsInv'
<1> USE DEF CellsInv
<1>1. cells' \in [Cells -> Values] /\ edits' \in 0..MaxEdits
  <2>1. CASE UNCHANGED <<cells, edits>>
    BY <2>1 DEF TypeOK
  <2>2. CASE ~(UNCHANGED <<cells, edits>>)
    <3>1. PICK c \in Cells, v \in Values : cells' = [cells EXCEPT ![c] = v]
      BY <2>2 DEF Purge
    <3>2. edits < MaxEdits /\ edits' = edits + 1
      BY <2>2 DEF Purge
    <3> QED
      BY <3>1, <3>2, BoundsAssumption DEF TypeOK
  <2> QED
    BY <2>1, <2>2
<1>2. Where(placed) \in [Uids -> SUBSET Spots]
  BY WhereTypes DEF TypeOK
<1>3. /\ was' \in Seq([Cells -> Values]) /\ Len(was') = 1 /\ was'[1] = cells'
      /\ wasAt' \in Seq([Uids -> SUBSET Spots]) /\ Len(wasAt') = 1
  BY <1>1, <1>2 DEF Purge
<1>4. /\ stack' = <<>> /\ undone' = 0 /\ running' = FALSE /\ astray' = {}
      /\ UNCHANGED <<placed, nextUid, strays>>
  BY DEF Purge, TypeOK
<1>5. Ended' = 0 /\ Done' = 0
  BY <1>4 DEF Ended, Done
<1>6. TypeOK'
  <2>1. stack' \in Seq(Action) /\ undone' \in Nat /\ astray' \subseteq Cells
    BY <1>4
  <2>2. running' \in BOOLEAN
    BY <1>4, Zenon
  <2>3. /\ placed' \in [Uids -> Instance \cup {None}] /\ nextUid' \in 1..(MaxUid + 1)
        /\ strays' \subseteq Uids
    BY <1>4 DEF TypeOK
  <2> QED
    BY <1>1, <1>3, <2>1, <2>2, <2>3 DEF TypeOK
<1>7. StackOk' /\ ImagesOk' /\ RunningOk' /\ CellsAreRestored'
  BY <1>3, <1>4, <1>5, BoundsAssumption DEF StackOk, ImagesOk, RunningOk, CellsAreRestored
<1> QED
  BY <1>6, <1>7

-----------------------------------------------------------------------------
\* The objects

\* Where an object is that is stored under no other uid than u.
LEMMA WhereIs ==
    ASSUME NEW p \in [Uids -> Instance \cup {None}], NEW o \in Uids, NEW u \in Uids,
           p[u] # None => p[u].id = o,
           \A v \in Uids : p[v] # None /\ p[v].id = o => v = u
    PROVE  Where(p)[o] = IF p[u] = None THEN {} ELSE {p[u].spot}
<1>1. {v \in Uids : p[v] # None /\ p[v].id = o} = IF p[u] = None THEN {} ELSE {u}
  OBVIOUS
<1>2. Where(p)[o] = {p[v].spot : v \in {w \in Uids : p[w] # None /\ p[w].id = o}}
  BY DEF Where
<1> QED
  BY <1>1, <1>2

\* What is stored nowhere is nowhere, and the other objects do not matter.
LEMMA WhereNot ==
    ASSUME NEW p \in [Uids -> Instance \cup {None}], NEW o \in Uids,
           \A v \in Uids : ~ (p[v] # None /\ p[v].id = o)
    PROVE  Where(p)[o] = {}
BY DEF Where

LEMMA WhereSame ==
    ASSUME NEW p \in [Uids -> Instance \cup {None}], NEW q \in [Uids -> Instance \cup {None}],
           NEW o \in Uids,
           \A v \in Uids : (p[v] # None /\ p[v].id = o) \/ (q[v] # None /\ q[v].id = o)
                           => p[v] = q[v]
    PROVE  Where(p)[o] = Where(q)[o]
<1>1. {v \in Uids : p[v] # None /\ p[v].id = o} = {v \in Uids : q[v] # None /\ q[v].id = o}
  OBVIOUS
<1>2. \A v \in {w \in Uids : p[w] # None /\ p[w].id = o} : p[v] = q[v]
  OBVIOUS
<1>3. /\ Where(p)[o] = {p[v].spot : v \in {w \in Uids : p[w] # None /\ p[w].id = o}}
      /\ Where(q)[o] = {q[v].spot : v \in {w \in Uids : q[w] # None /\ q[w].id = o}}
  BY DEF Where
<1> QED
  BY <1>1, <1>2, <1>3

\* The uid an object has, stored or in an entry, is its name.
LEMMA Names ==
    \A o \in Uids :
        /\ NamesOf(o) \subseteq Uids
        /\ \A u \in Uids : placed[u] # None /\ placed[u].id = o => u \in NamesOf(o)
        /\ \A i \in DOMAIN stack : \A u \in Named(stack[i]) :
              stack[i].objs[u].id = o => u \in NamesOf(o)
BY DEF NamesOf, Named

\* By its name is known where an object is that is no stray.
LEMMA WhereOf ==
    ASSUME TypeOK, NamesOk, NEW o \in Uids \ strays
    PROVE  /\ \A u \in NamesOf(o) : /\ placed[u] # None => placed[u].id = o
                                    /\ Where(placed)[o] = IF placed[u] = None THEN {}
                                                          ELSE {placed[u].spot}
           /\ NamesOf(o) = {} => Where(placed)[o] = {}
<1>1. ASSUME NEW u \in NamesOf(o)
      PROVE  /\ placed[u] # None => placed[u].id = o
             /\ Where(placed)[o] = IF placed[u] = None THEN {} ELSE {placed[u].spot}
  <2>1. u \in Uids
    BY Names
  <2>2. placed[u] # None => placed[u].id = o
    <3>1. placed[u] # None => placed[u].id \in Uids
      BY <2>1 DEF TypeOK, Instance
    <3>2. placed[u] # None => u \in NamesOf(placed[u].id)
      BY <2>1, <3>1, Names
    <3> QED
      BY <1>1, <3>1, <3>2 DEF NamesOk
  <2>3. \A v \in Uids : placed[v] # None /\ placed[v].id = o => v = u
    BY <1>1, Names DEF NamesOk
  <2>4. placed \in [Uids -> Instance \cup {None}]
    BY DEF TypeOK
  <2>5. Where(placed)[o] = IF placed[u] = None THEN {} ELSE {placed[u].spot}
    <3>1. o \in Uids
      OBVIOUS
    <3> QED
      BY ONLY <3>1, <2>1, <2>2, <2>3, <2>4, WhereIs
  <2> QED
    BY <2>2, <2>5, Zenon
<1>2. ASSUME NamesOf(o) = {} PROVE Where(placed)[o] = {}
  <2>1. \A v \in Uids : ~ (placed[v] # None /\ placed[v].id = o)
    BY <1>2, Names
  <2> QED
    BY <2>1, WhereNot DEF TypeOK
<1> QED
  BY <1>1, <1>2

\* An object that is no stray is stored once.
LEMMA StoredOnce ==
    ASSUME TypeOK, NamesOk, NEW o \in Uids \ strays
    PROVE  \A u, v \in Uids : placed[u] # None /\ placed[v] # None
                              /\ placed[u].id = o /\ placed[v].id = o => u = v
BY Names DEF NamesOk

\* An object without an id yet is nowhere.
LEMMA UnbornNowhere ==
    ASSUME TypeOK, NamesOk, NEW o \in Uids, o >= nextUid
    PROVE  NamesOf(o) = {} /\ Where(placed)[o] = {}
<1>1. \A v \in NamesOf(o) : o < nextUid
  BY DEF NamesOk
<1>2. o \in Int /\ nextUid \in Int
  BY DEF TypeOK, Uids
<1>3. NamesOf(o) = {}
  BY <1>1, <1>2
<1>4. \A v \in Uids : ~ (placed[v] # None /\ placed[v].id = o)
  BY <1>3, Names
<1> QED
  BY <1>3, <1>4, WhereNot DEF TypeOK

\* Names that go away leave the others as they should be.
LEMMA FewerNames ==
    ASSUME NamesOk, nextUid' = nextUid, strays \subseteq strays',
           \A o \in Uids : NamesOf(o)' \subseteq NamesOf(o)
    PROVE  NamesOk'
BY DEF NamesOk

\* Nothing changes for the objects when no entry does.
LEMMA SameObjects ==
    ASSUME CellsInv, ObjectsInv, UNCHANGED <<placed, nextUid, wasAt, strays, undone, running>>,
           Len(stack') = Len(stack), DOMAIN stack' = DOMAIN stack,
           \A i \in DOMAIN stack :
              stack'[i].objs = stack[i].objs /\ stack'[i].short = stack[i].short
              /\ stack'[i].hidden = stack[i].hidden
    PROVE  ObjectsInv'
<1>1. TypeOK /\ StackOk
  BY DEF CellsInv
<1>2. /\ Ended' = Ended /\ Done' = Done
      /\ \A i \in 1..Ended : i \in DOMAIN stack
      /\ running => Cur'.objs = Cur.objs /\ Cur'.hidden = Cur.hidden
  BY <1>1, CurIsAction DEF Ended, Done, Cur
<1>3. \A i \in DOMAIN stack : Named(stack'[i]) = Named(stack[i])
  BY DEF Named
<1>4. NamesOk'
  <2>1. \A o \in Uids : NamesOf(o)' \subseteq NamesOf(o)
    BY <1>3 DEF NamesOf
  <2> QED
    BY <2>1, FewerNames DEF ObjectsInv
<1>5. UnbornOk' /\ ObjectsAreRestored'
  BY <1>2 DEF ObjectsInv, UnbornOk, ObjectsAreRestored
<1>6. \A i \in DOMAIN stack : \A o, b, c, s :
         Agrees(stack[i], o, b, c, s) => Agrees(stack'[i], o, b, c, s)
  BY <1>3 DEF Agrees
<1>7. EntriesOk'
  BY <1>2, <1>6 DEF ObjectsInv, EntriesOk
<1>8. RunningEntriesOk'
  <2>1. running => Len(stack) \in DOMAIN stack /\ Cur = stack[Len(stack)]
    BY <1>1, CurIsAction DEF Cur
  <2>2. running => Named(Cur') = Named(Cur)
    BY <1>2 DEF Named
  <2>3. ASSUME NEW o, NEW b, NEW c, running, Agrees(Cur, o, b, c, TRUE)
        PROVE  Agrees(Cur', o, b, c, TRUE)
    BY <1>2, <2>2, <2>3 DEF Agrees
  <2> QED
    BY <1>2, <2>2, <2>3 DEF ObjectsInv, RunningEntriesOk
<1> QED
  BY <1>4, <1>5, <1>7, <1>8 DEF ObjectsInv

LEMMA NewHasNoNames ==
    /\ Named(NewAction) = {} /\ ~NewAction.hidden
    /\ Named([NewAction EXCEPT !.hidden = TRUE]) = {} /\ [NewAction EXCEPT !.hidden = TRUE].hidden
BY DEF Named, NewAction, NoObjects

LEMMA BeginObjects ==
    ASSUME CellsInv, ObjectsInv, Begin
    PROVE  ObjectsInv'
<1>1. TypeOK /\ NamesOk
  BY DEF CellsInv, ObjectsInv
<1>2. PICK d \in {0, 1} :
        /\ Done \in Nat /\ d <= Done /\ Done <= Ended
        /\ Ended = Len(stack) /\ Len(stack) \in Nat /\ Len(wasAt) = Ended + 1
        /\ stack' \in Seq(Action) /\ Len(stack') = Done - d + 1
        /\ \A i \in 1..Done - d : stack'[i] = stack[i + d]
        /\ stack'[Len(stack')] = NewAction
        /\ wasAt' \in Seq([Uids -> SUBSET Spots]) /\ Len(wasAt') = Done - d + 1
        /\ \A i \in 1..Done - d + 1 : wasAt'[i] = wasAt[i + d]
        /\ Ended' = Done - d /\ Cur' = NewAction /\ running'
  BY BeginShape
<1>3. ~running /\ UNCHANGED <<placed, nextUid, strays>>
  BY DEF Begin, map, gaps
<1>4. /\ DOMAIN stack' = 1..Done - d + 1 /\ DOMAIN wasAt' = 1..Done - d + 1
      /\ DOMAIN stack = 1..Len(stack) /\ DOMAIN wasAt = 1..Len(stack) + 1
  BY <1>1, <1>2 DEF TypeOK
<1>5. /\ \A i \in 1..Done - d : i + d \in DOMAIN stack /\ i + d \in 1..Ended
      /\ \A i \in 1..Done - d + 1 : /\ i + d \in DOMAIN wasAt
                                    /\ i \in 1..Done - d \/ i = Len(stack')
      /\ \A i \in 1..Done - d : /\ i \in 1..Done - d + 1 /\ i + 1 \in 1..Done - d + 1
                                /\ (i + 1) + d = (i + d) + 1
      /\ Len(stack') + d = Done + 1
  <2>1. /\ d \in {0, 1} /\ Done \in Nat /\ d <= Done /\ Done <= Len(stack)
        /\ Len(stack) \in Nat /\ Len(stack') = Done - d + 1
    BY <1>2
  <2> QED
    BY <1>2, <1>4, <2>1
<1>6. NamesOk'
  <2>1. ASSUME NEW i \in DOMAIN stack', Named(stack'[i]) # {}
        PROVE  i + d \in DOMAIN stack /\ stack'[i] = stack[i + d]
    BY <1>2, <1>4, <1>5, <2>1, NewHasNoNames
  <2>2. \A o \in Uids : NamesOf(o)' \subseteq NamesOf(o)
    BY <1>3, <2>1 DEF NamesOf
  <2> QED
    BY <1>1, <1>3, <2>2, FewerNames
<1>7. UnbornOk'
  <2> SUFFICES ASSUME NEW i \in 1..Done - d + 1, NEW o \in Uids, o >= nextUid
               PROVE  wasAt'[i][o] = {}
    BY <1>3, <1>4 DEF UnbornOk
  <2>1. wasAt'[i] = wasAt[i + d] /\ i + d \in DOMAIN wasAt
    BY <1>2, <1>5
  <2> QED
    BY <2>1 DEF ObjectsInv, UnbornOk
<1>8. EntriesOk'
  <2> SUFFICES ASSUME NEW i \in 1..(Done - d), NEW o \in Uids \ strays
               PROVE  Agrees(stack'[i], o, wasAt'[i][o], wasAt'[i + 1][o], stack'[i].short)
    BY <1>2, <1>3 DEF EntriesOk
  <2>1. /\ stack'[i] = stack[i + d] /\ wasAt'[i] = wasAt[i + d]
        /\ wasAt'[i + 1] = wasAt[(i + d) + 1] /\ i + d \in 1..Ended
    <3>1. i \in 1..Done - d + 1 /\ i + 1 \in 1..Done - d + 1 /\ (i + 1) + d = (i + d) + 1
      BY <1>5
    <3> QED
      BY <1>2, <1>5, <3>1
  <2> QED
    BY <2>1 DEF ObjectsInv, EntriesOk
<1>9. RunningEntriesOk'
  <2> SUFFICES ASSUME NEW o \in Uids \ strays
               PROVE  wasAt'[Len(stack')][o] = Where(placed)[o]
    BY <1>2, <1>3, NewHasNoNames DEF RunningEntriesOk, Agrees
  <2>1. Len(stack') \in 1..Done - d + 1
    BY <1>2, <1>5
  <2>2. wasAt'[Len(stack')] = wasAt[Done + 1]
    BY <1>2, <1>5, <2>1
  <2> QED
    BY <1>3, <2>2 DEF ObjectsInv, ObjectsAreRestored
<1>10. ObjectsAreRestored'
  BY <1>2 DEF ObjectsAreRestored
<1> QED
  BY <1>6, <1>7, <1>8, <1>9, <1>10 DEF ObjectsInv

LEMMA HiddenObjects ==
    ASSUME CellsInv, ObjectsInv, BeginHidden \/ EndHidden
    PROVE  ObjectsInv'
<1>1. /\ TypeOK /\ StackOk /\ NamesOk
      /\ UNCHANGED <<placed, nextUid, wasAt, strays, undone>>
  BY DEF CellsInv, ObjectsInv, BeginHidden, EndHidden, map, past, gaps
<1>2. Len(stack) \in Nat /\ DOMAIN stack = 1..Len(stack) /\ Done \in Nat /\ undone \in Nat
      /\ stack \in Seq(Action)
  BY <1>1, CurIsAction DEF TypeOK
<1> DEFINE fresh == [NewAction EXCEPT !.hidden = TRUE]
<1>3. CASE BeginHidden
  <2>1. /\ DOMAIN stack' = 1..Len(stack) + 1 /\ Len(stack') = Len(stack) + 1
        /\ \A i \in 1..Len(stack) : stack'[i] = stack[i]
        /\ stack'[Len(stack) + 1] = fresh /\ ~running /\ running'
    BY <1>2, <1>3 DEF BeginHidden
  <2>2. Ended' = Ended /\ Ended = Len(stack) /\ Done' = Done + 1 /\ Cur' = fresh
    BY <1>1, <1>2, <2>1 DEF Ended, Done, Cur
  <2>3. NamesOk'
    <3>1. ASSUME NEW i \in DOMAIN stack', Named(stack'[i]) # {}
          PROVE  i \in DOMAIN stack /\ stack'[i] = stack[i]
      <4>1. i # Len(stack) + 1
        BY <2>1, <3>1, NewHasNoNames
      <4>2. i \in 1..Len(stack)
        BY <1>2, <2>1, <4>1
      <4> QED
        BY <1>2, <2>1, <4>2
    <3>2. \A o \in Uids : NamesOf(o)' \subseteq NamesOf(o)
      BY <1>1, <3>1 DEF NamesOf
    <3> QED
      BY <1>1, <3>2, FewerNames
  <2>4. UnbornOk'
    BY <1>1 DEF ObjectsInv, UnbornOk
  <2>5. EntriesOk'
    BY <1>1, <2>1, <2>2 DEF ObjectsInv, EntriesOk
  <2>6. RunningEntriesOk'
    BY <1>1, <2>1, <2>2, NewHasNoNames DEF ObjectsInv, RunningEntriesOk, ObjectsAreRestored
  <2>7. ObjectsAreRestored'
    BY <2>1 DEF ObjectsAreRestored
  <2> QED
    BY <2>3, <2>4, <2>5, <2>6, <2>7 DEF ObjectsInv
<1>4. CASE EndHidden
  <2>1. running /\ ~running' /\ Cur.hidden /\ Len(stack) = Ended + 1 /\ Ended \in Nat
    BY <1>1, <1>4, CurIsAction DEF EndHidden
  <2>2. /\ DOMAIN stack' = 1..Ended /\ Len(stack') = Ended
        /\ \A i \in 1..Ended : stack'[i] = stack[i] /\ i \in DOMAIN stack
    BY <1>2, <1>4, <2>1 DEF EndHidden
  <2>3. Ended' = Ended /\ Done' + 1 = Done
    BY <1>1, <1>2, <2>1, <2>2 DEF Ended, Done
  <2>4. NamesOk'
    <3>1. \A o \in Uids : NamesOf(o)' \subseteq NamesOf(o)
      BY <1>1, <2>2 DEF NamesOf
    <3> QED
      BY <1>1, <3>1, FewerNames
  <2>5. UnbornOk'
    BY <1>1 DEF ObjectsInv, UnbornOk
  <2>6. EntriesOk'
    BY <1>1, <2>2, <2>3 DEF ObjectsInv, EntriesOk
  <2>7. RunningEntriesOk'
    BY <2>1 DEF RunningEntriesOk
  <2>8. ObjectsAreRestored'
    <3>1. \A o \in Uids \ strays : Where(placed)[o] = wasAt[Done][o]
      BY <2>1 DEF ObjectsInv, RunningEntriesOk
    <3>2. \A o \in Uids \ strays : \A u, v \in Uids :
             placed[u] # None /\ placed[v] # None /\ placed[u].id = o /\ placed[v].id = o => u = v
      BY <1>1, StoredOnce
    <3> QED
      BY <1>1, <2>3, <3>1, <3>2 DEF ObjectsAreRestored
  <2> QED
    BY <2>4, <2>5, <2>6, <2>7, <2>8 DEF ObjectsInv
<1> QED
  BY <1>3, <1>4

LEMMA EditCellObjects ==
    ASSUME CellsInv, ObjectsInv, NEW c \in Cells, NEW v \in Values, EditCell(c, v)
    PROVE  ObjectsInv'
<1>1. TypeOK /\ StackOk /\ running /\ Cur \in Action
  BY CurIsAction DEF CellsInv, EditCell
<1> DEFINE a == WithPre(Cur, c)
<1>2. a.objs = Cur.objs /\ a.short = Cur.short /\ a.hidden = Cur.hidden
  BY <1>1 DEF WithPre, Action
<1>3. stack' = [stack EXCEPT ![Len(stack)] = a]
  BY DEF EditCell, SetCur
<1>4. /\ Len(stack') = Len(stack) /\ DOMAIN stack' = DOMAIN stack
      /\ \A i \in DOMAIN stack : stack'[i] = IF i = Len(stack) THEN a ELSE stack[i]
  BY <1>1, <1>3 DEF TypeOK
<1> HIDE DEF a
<1>5. UNCHANGED <<placed, nextUid, wasAt, strays, undone, running>>
  BY DEF EditCell, past
<1> QED
  BY <1>2, <1>4, <1>5, SameObjects DEF Cur

LEMMA PurgeObjects ==
    ASSUME CellsInv, ObjectsInv, Purge
    PROVE  ObjectsInv'
<1>1. /\ TypeOK /\ NamesOk /\ ~running
      /\ UNCHANGED <<placed, nextUid, strays, running>>
      /\ stack' = <<>> /\ undone' = 0 /\ wasAt' = <<Where(placed)>>
  BY DEF CellsInv, ObjectsInv, Purge
<1>2. DOMAIN stack' = {} /\ Ended' = 0 /\ Done' = 0 /\ DOMAIN wasAt' = {1} /\ wasAt'[1] = Where(placed)
  BY <1>1 DEF Ended, Done
<1>3. NamesOk'
  <2>1. \A o \in Uids : NamesOf(o)' \subseteq NamesOf(o)
    BY <1>1, <1>2 DEF NamesOf
  <2> QED
    BY <1>1, <2>1, FewerNames
<1>4. UnbornOk'
  <2> SUFFICES ASSUME NEW o \in Uids, o >= nextUid PROVE Where(placed)[o] = {}
    BY <1>1, <1>2 DEF UnbornOk
  <2> QED
    BY <1>1, UnbornNowhere
<1>5. EntriesOk' /\ RunningEntriesOk'
  <2>1. EntriesOk'
    BY <1>2 DEF EntriesOk
  <2>2. RunningEntriesOk'
    BY <1>1, Zenon DEF RunningEntriesOk
  <2> QED
    BY <2>1, <2>2
<1>6. ObjectsAreRestored'
  <2>1. \A o \in Uids \ strays : \A u, v \in Uids :
           placed[u] # None /\ placed[v] # None /\ placed[u].id = o /\ placed[v].id = o => u = v
    BY <1>1, StoredOnce
  <2> QED
    BY <1>1, <1>2, <2>1 DEF ObjectsAreRestored
<1> QED
  BY <1>3, <1>4, <1>5, <1>6 DEF ObjectsInv

LEMMA InitObjects == Init => ObjectsInv
<1> SUFFICES ASSUME Init PROVE ObjectsInv
  OBVIOUS
<1>1. TypeOK
  BY InitInv DEF CellsInv
<1>2. /\ stack = <<>> /\ ~running /\ wasAt = <<Where(placed)>> /\ nextUid = Len(Loaded) + 1
      /\ undone = 0
      /\ \A u \in Uids : placed[u] = IF u <= Len(Loaded) THEN [id |-> u, spot |-> Loaded[u]] ELSE None
  BY DEF Init
<1>3. DOMAIN stack = {} /\ Ended = 0 /\ Done = 0 /\ DOMAIN wasAt = {1} /\ wasAt[1] = Where(placed)
  BY <1>2 DEF Ended, Done
<1>4. \A o \in Uids : \A u \in NamesOf(o) : u = o /\ u < nextUid
  <2>1. Len(Loaded) \in Nat
    BY LoadedAssumption
  <2>2. \A u \in Uids : u \in Int
    BY DEF Uids
  <2>3. \A o \in Uids : \A u \in NamesOf(o) : u \in Uids /\ placed[u] # None /\ placed[u].id = o
    BY <1>3 DEF NamesOf
  <2>4. ASSUME NEW u \in Uids, placed[u] # None
        PROVE  u <= Len(Loaded) /\ placed[u].id = u
    <3>1. placed[u] = IF u <= Len(Loaded) THEN [id |-> u, spot |-> Loaded[u]] ELSE None
      BY <1>2
    <3>2. u <= Len(Loaded) /\ placed[u] = [id |-> u, spot |-> Loaded[u]]
      BY ONLY <2>4, <3>1
    <3> QED
      BY ONLY <3>2
  <2>5. \A u \in Uids : u <= Len(Loaded) => u < nextUid
    BY <1>2, <2>1, <2>2
  <2> QED
    BY <2>3, <2>4, <2>5
<1>5. NamesOk
  BY <1>4 DEF NamesOk
<1>6. UnbornOk
  BY <1>1, <1>3, <1>5, UnbornNowhere DEF UnbornOk
<1>7. EntriesOk /\ RunningEntriesOk
  <2>1. EntriesOk
    BY <1>3 DEF EntriesOk
  <2>2. RunningEntriesOk
    BY <1>2, Zenon DEF RunningEntriesOk
  <2> QED
    BY <2>1, <2>2
<1>8. ObjectsAreRestored
  <2>1. \A o \in Uids \ strays : \A u, v \in Uids :
           placed[u] # None /\ placed[v] # None /\ placed[u].id = o /\ placed[v].id = o => u = v
    BY <1>1, <1>5, StoredOnce
  <2> QED
    BY <1>3, <2>1 DEF ObjectsAreRestored
<1> QED
  BY <1>5, <1>6, <1>7, <1>8 DEF ObjectsInv

\* What is known of an entry of a type.
LEMMA EntryFields ==
    ASSUME NEW a \in Action, NEW u \in Named(a)
    PROVE  /\ u \in Uids /\ a.objs[u] \in Entry /\ a.objs[u] # None /\ a.objs[u].id \in Uids
           /\ a.objs[u].added \in Spots \cup {None} /\ a.objs[u].from \in Spots \cup {None}
           /\ a.objs[u].to \in Spots \cup {None} /\ a.objs[u].removed \in Spots \cup {None}
BY DEF Named, Action, Entry

\* finish() adds to an entry where its object is, and names no others.
LEMMA SettledEntry ==
    ASSUME TypeOK, NEW a \in Action, NEW u \in Named(a)
    PROVE  /\ Settled(a)[u] # None /\ Settled(a)[u].id = a.objs[u].id
           /\ Settled(a)[u].added = a.objs[u].added /\ Settled(a)[u].from = a.objs[u].from
           /\ Settled(a)[u].removed = a.objs[u].removed
           /\ a.objs[u].from = None => Settled(a)[u].to = a.objs[u].to
           /\ a.objs[u].from # None =>
                /\ Settled(a)[u].to # None
                /\ placed[u] # None => Settled(a)[u].to = placed[u].spot
<1> DEFINE e == a.objs[u]
           x == IF placed[u] = None THEN e.from ELSE placed[u].spot
<1>1. u \in Uids /\ e \in Entry /\ e # None
  BY EntryFields
<1>2. CASE e.from = None
  <2>1. Settled(a)[u] = e
    BY <1>1, <1>2 DEF Settled
  <2> QED
    BY <1>1, <1>2, <2>1
<1>3. CASE e.from # None
  <2>1. Settled(a)[u] = [e EXCEPT !.to = x]
    BY <1>1, <1>3 DEF Settled
  <2>2. placed[u] # None => placed[u].spot \in Spots
    BY <1>1 DEF TypeOK, Instance
  <2>3. x \in Spots /\ x # None
    <3>1. e.from \in Spots
      BY <1>1, <1>3 DEF Entry
    <3> QED
      BY <2>2, <3>1, CellsAssumption
  <2> HIDE DEF x
  <2>4. [e EXCEPT !.to = x] \in Entry
    BY <1>1, <2>3 DEF Entry
  <2>5. /\ [e EXCEPT !.to = x].to = x /\ [e EXCEPT !.to = x].id = e.id
        /\ [e EXCEPT !.to = x].added = e.added /\ [e EXCEPT !.to = x].from = e.from
        /\ [e EXCEPT !.to = x].removed = e.removed
    BY <1>1 DEF Entry
  <2> QED
    BY <1>3, <2>1, <2>3, <2>4, <2>5, NoneAssumption DEF x
<1> QED
  BY <1>2, <1>3

\* So that it tells where the object went.
LEMMA SettledTells ==
    ASSUME TypeOK, NamesOk, NEW a \in Action, NEW u \in Named(a), NEW o \in Uids \ strays,
           u \in NamesOf(o), a.objs[u].to = None, NEW b, NEW s,
           Tells(a.objs[u], b, Where(placed)[o], TRUE)
    PROVE  Tells(Settled(a)[u], b, Where(placed)[o], s)
<1> DEFINE e == a.objs[u]
           n == Settled(a)[u]
<1>1. /\ n.added = e.added /\ n.from = e.from /\ n.removed = e.removed
      /\ e.from = None => n.to = None
      /\ e.from # None => n.to # None /\ (placed[u] # None => n.to = placed[u].spot)
  BY SettledEntry
<1>2. Where(placed)[o] = IF placed[u] = None THEN {} ELSE {placed[u].spot}
  BY WhereOf
<1> HIDE DEF n, e
<1>3. /\ Before(e) = b
      /\ e.removed # None <=> Where(placed)[o] = {}
      /\ e.from = None => After(e) = Where(placed)[o]
  BY DEF Tells, e
<1>4. Before(n) = b /\ (n.removed # None <=> Where(placed)[o] = {}) /\ (n.from = None => n.to = None)
  BY <1>1, <1>3 DEF Before
<1>5. After(n) = Where(placed)[o]
  <2>1. CASE e.removed # None
    BY <1>1, <1>3, <2>1 DEF After
  <2>2. CASE e.removed = None
    BY <1>1, <1>2, <1>3, <2>2 DEF After
  <2> QED
    BY <2>1, <2>2
<1>6. ~ (n.from # None /\ n.to = None)
  BY <1>1
<1> QED
  BY <1>4, <1>5, <1>6 DEF Tells, n

LEMMA EndObjects ==
    ASSUME CellsInv, ObjectsInv, End \/ EndFails
    PROVE  ObjectsInv'
<1>1. /\ TypeOK /\ StackOk /\ NamesOk
      /\ running /\ ~Cur.hidden /\ running' = FALSE
      /\ UNCHANGED <<placed, nextUid, undone, strays>> /\ Remember
  BY DEF CellsInv, ObjectsInv, End, EndFails, map, gaps
<1>2. /\ Len(stack) \in Nat /\ Len(stack) = Ended + 1 /\ Ended \in Nat /\ Cur \in Action
      /\ DOMAIN stack = 1..Len(stack) /\ Len(stack) \in DOMAIN stack
      /\ Len(wasAt) = Len(stack) /\ undone = 0
  BY <1>1, CurIsAction, BoundsAssumption DEF StackOk
<1>3. PICK a \in Action :
        SetCur(a) /\ (a.objs = Settled(Cur) \/ (a.objs = Cur.objs /\ a.short))
  <2>1. CASE End
    <3>1. Finished(Cur) \in Action
      BY <1>1, <1>2, FinishedTypes
    <3>2. Finished(Cur).objs = Settled(Cur)
      BY <1>2 DEF Finished, Action
    <3>3. SetCur(Finished(Cur))
      BY <2>1 DEF End
    <3> QED
      BY <3>1, <3>2, <3>3
  <2>2. CASE EndFails
    <3>1. PICK S \in SUBSET (Registered(Cur) \ NoRedo), o \in {Cur.objs, Settled(Cur)} :
                SetCur(CutShort(Cur, S, o))
      BY <2>2 DEF EndFails
    <3>2. CutShort(Cur, S, o) \in Action /\ CutShort(Cur, S, o).short
      BY <1>1, <1>2, FinishedTypes
    <3>3. CutShort(Cur, S, o).objs = o
      BY <1>2 DEF CutShort, Action
    <3> QED
      BY <3>1, <3>2, <3>3
  <2> QED
    BY <1>1, <2>1, <2>2
<1>4. /\ Len(stack') = Len(stack) /\ stack'[Len(stack)] = a /\ DOMAIN stack' = DOMAIN stack
      /\ \A i \in 1..Len(stack) - 1 : stack'[i] = stack[i]
  BY <1>1, <1>2, <1>3, SetCurKeeps
<1>5. /\ DOMAIN wasAt' = 1..Len(stack) + 1 /\ DOMAIN wasAt = 1..Len(stack)
      /\ \A i \in 1..Len(stack) : wasAt'[i] = wasAt[i]
      /\ wasAt'[Len(stack) + 1] = Where(placed)
  <2>1. Where(placed) \in [Uids -> SUBSET Spots]
    BY <1>1, WhereTypes DEF TypeOK
  <2> QED
    BY <1>1, <1>2, <2>1 DEF TypeOK, Remember
<1>6. Ended' = Len(stack) /\ Done' = Len(stack)
  BY <1>1, <1>2, <1>4 DEF Ended, Done
<1>7. Named(a) = Named(Cur) /\ \A u \in Named(Cur) : a.objs[u].id = Cur.objs[u].id
  <2>1. \A u \in Named(Cur) : Settled(Cur)[u] # None /\ Settled(Cur)[u].id = Cur.objs[u].id
    BY <1>1, <1>2, SettledEntry
  <2>2. \A u \in Uids : Cur.objs[u] = None => Settled(Cur)[u] = None
    BY DEF Settled
  <2> QED
    BY <1>3, <2>1, <2>2 DEF Named
<1>8. NamesOk'
  <2>1. \A i \in DOMAIN stack : Named(stack'[i]) = Named(stack[i])
                                /\ \A u \in Named(stack[i]) : stack'[i].objs[u].id = stack[i].objs[u].id
    BY <1>2, <1>4, <1>7 DEF Cur
  <2>2. \A o \in Uids : NamesOf(o)' \subseteq NamesOf(o)
    BY <1>1, <1>4, <2>1 DEF NamesOf
  <2> QED
    BY <1>1, <2>2, FewerNames
<1>9. UnbornOk'
  <2>1. \A o \in Uids : o >= nextUid => Where(placed)[o] = {}
    BY <1>1, UnbornNowhere
  <2> QED
    BY <1>1, <1>2, <1>5, <2>1 DEF ObjectsInv, UnbornOk
<1>10. EntriesOk'
  <2> SUFFICES ASSUME NEW i \in 1..Len(stack), NEW o \in Uids \ strays
               PROVE  Agrees(stack'[i], o, wasAt'[i][o], wasAt'[i + 1][o], stack'[i].short)
    BY <1>1, <1>6 DEF EntriesOk
  <2>1. CASE i = Len(stack)
    <3> DEFINE b == wasAt[Len(stack)][o]
               c == Where(placed)[o]
    <3>1. /\ Agrees(Cur, o, b, c, TRUE)
          /\ \A u \in Named(Cur) : Cur.objs[u].to = None
      BY <1>1 DEF ObjectsInv, RunningEntriesOk
    <3>2. ASSUME NEW u \in Named(a), a.objs[u].id = o
          PROVE  Tells(a.objs[u], b, c, a.short)
      <4>1. u \in Named(Cur) /\ Cur.objs[u].id = o /\ Tells(Cur.objs[u], b, c, TRUE)
        BY <1>7, <3>1, <3>2 DEF Agrees
      <4>2. u \in NamesOf(o)
        BY <1>2, <4>1, Names DEF Cur
      <4>3. CASE a.objs = Settled(Cur)
        BY <1>1, <1>2, <3>1, <4>1, <4>2, <4>3, SettledTells
      <4>4. CASE a.objs = Cur.objs /\ a.short
        BY <4>1, <4>4 DEF Tells
      <4> QED
        BY <1>3, <4>3, <4>4
    <3>3. (\A u \in Named(a) : a.objs[u].id # o) => b = c
      BY <1>7, <3>1 DEF Agrees
    <3>4. Agrees(a, o, b, c, a.short)
      BY <3>2, <3>3 DEF Agrees
    <3>5. stack'[i] = a /\ wasAt'[i][o] = b /\ wasAt'[i + 1][o] = c
      BY <1>2, <1>4, <1>5, <2>1
    <3> QED
      BY <3>4, <3>5
  <2>2. CASE i # Len(stack)
    <3>1. i \in 1..Ended /\ i + 1 \in 1..Len(stack)
      BY <1>2, <2>2
    <3>2. stack'[i] = stack[i] /\ wasAt'[i] = wasAt[i] /\ wasAt'[i + 1] = wasAt[i + 1]
      BY <1>2, <1>4, <1>5, <3>1
    <3> QED
      BY <3>1, <3>2 DEF ObjectsInv, EntriesOk
  <2> QED
    BY <2>1, <2>2
<1>11. RunningEntriesOk'
  BY <1>1, Zenon DEF RunningEntriesOk
<1>12. ObjectsAreRestored'
  <2>1. \A o \in Uids \ strays : \A u, v \in Uids :
           placed[u] # None /\ placed[v] # None /\ placed[u].id = o /\ placed[v].id = o => u = v
    BY <1>1, StoredOnce
  <2> QED
    BY <1>1, <1>5, <1>6, <2>1 DEF ObjectsAreRestored
<1> QED
  BY <1>8, <1>9, <1>10, <1>11, <1>12 DEF ObjectsInv

\* A tool that changes the object under a uid, and its entry with it.
LEMMA EditOneObject ==
    ASSUME CellsInv, ObjectsInv, EditsObjects, NEW u \in Uids, NEW o \in Uids, NEW e \in Entry,
           NEW q \in Instance \cup {None},
           SetCur(WithEntry(Cur, u, e)), placed' = [placed EXCEPT ![u] = q],
           e.id = o, e.to = None, q # None => q.id = o,
           \/ nextUid' = nextUid /\ u \in NamesOf(o)
           \/ nextUid' = nextUid + 1 /\ u = nextUid /\ o = nextUid,
           o \notin strays => Tells(e, wasAt[Len(stack)][o], IF q = None THEN {} ELSE {q.spot}, TRUE)
    PROVE  ObjectsInv'
<1>1. /\ TypeOK /\ StackOk /\ NamesOk
      /\ running /\ running' /\ ~Cur.hidden
      /\ UNCHANGED <<undone, strays, wasAt>>
  BY DEF CellsInv, ObjectsInv, EditsObjects, past, gaps
<1>2. /\ Len(stack) \in Nat /\ Len(stack) = Ended + 1 /\ Ended \in Nat /\ Cur \in Action
      /\ DOMAIN stack = 1..Len(stack) /\ Len(stack) \in DOMAIN stack
  BY <1>1, CurIsAction
<1> DEFINE a == WithEntry(Cur, u, e)
<1>3. /\ a \in Action /\ a.hidden = Cur.hidden
      /\ \A w \in Uids : a.objs[w] = IF w = u THEN e ELSE Cur.objs[w]
  <2>1. a \in Action /\ a.hidden = Cur.hidden
    BY <1>1, <1>2, EntryTypes
  <2>2. a.objs = [Cur.objs EXCEPT ![u] = e] /\ Cur.objs \in [Uids -> Entry \cup {None}]
    BY <1>2 DEF WithEntry, Action
  <2> QED
    BY <2>1, <2>2
<1> HIDE DEF a
<1>4. /\ Len(stack') = Len(stack) /\ stack'[Len(stack)] = a /\ DOMAIN stack' = DOMAIN stack
      /\ \A i \in 1..Len(stack) - 1 : stack'[i] = stack[i]
      /\ \A i \in DOMAIN stack : i = Len(stack) \/ i \in 1..Len(stack) - 1
  <2>1. SetCur(a)
    BY DEF a
  <2> QED
    BY <1>1, <1>2, <1>3, <2>1, SetCurKeeps
<1>5. Ended' = Ended /\ Done' = Done /\ Cur' = a
  BY <1>1, <1>4 DEF Ended, Done, Cur
<1>6. Named(a) = Named(Cur) \cup {u}
  BY <1>3, NoneAssumption DEF Named
<1>7. \A w \in Uids : placed'[w] = IF w = u THEN q ELSE placed[w]
  BY <1>1 DEF TypeOK
<1>8. /\ \A p \in Uids : p # o => NamesOf(p)' \subseteq NamesOf(p)
      /\ NamesOf(o)' \subseteq NamesOf(o) \cup {u}
  <2>1. ASSUME NEW p \in Uids, NEW w \in NamesOf(p)', w # u
        PROVE  w \in NamesOf(p)
    <3>1. w \in Uids
      BY DEF NamesOf
    <3>2. CASE placed'[w] # None /\ placed'[w].id = p
      BY <1>7, <2>1, <3>1, <3>2, Names
    <3>3. CASE \E i \in DOMAIN stack' : w \in Named(stack'[i]) /\ stack'[i].objs[w].id = p
      <4>1. PICK i \in DOMAIN stack : w \in Named(stack'[i]) /\ stack'[i].objs[w].id = p
        BY <1>4, <3>3
      <4>2. w \in Named(stack[i]) /\ stack[i].objs[w].id = p
        BY <1>3, <1>4, <1>6, <2>1, <3>1, <4>1 DEF Cur
      <4> QED
        BY <4>2, Names
    <3> QED
      BY <3>2, <3>3 DEF NamesOf
  <2>2. ASSUME NEW p \in Uids, u \in NamesOf(p)', p # o
        PROVE  u \in NamesOf(p)
    <3>1. ~ (placed'[u] # None /\ placed'[u].id = p)
      BY <1>7, <2>2
    <3>2. PICK i \in DOMAIN stack : u \in Named(stack'[i]) /\ stack'[i].objs[u].id = p
      BY <1>4, <2>2, <3>1 DEF NamesOf
    <3>3. i \in 1..Len(stack) - 1
      BY <1>3, <1>4, <2>2, <3>2
    <3> QED
      BY <1>4, <3>2, <3>3, Names
  <2> QED
    BY <2>1, <2>2
<1>9. \A p \in Uids : p # o => u \notin NamesOf(p)
  <2>1. u = nextUid => \A p \in Uids : u \notin NamesOf(p)
    <3>1. \A p \in Uids : u \in NamesOf(p) => u < nextUid
      BY <1>1 DEF NamesOk
    <3>2. u \in Int
      BY DEF Uids
    <3> QED
      BY <3>1, <3>2
  <2>2. u \in NamesOf(o) => \A p \in Uids : p # o => u \notin NamesOf(p)
    BY <1>1 DEF NamesOk
  <2> QED
    BY <2>1, <2>2
<1>10. NamesOk'
  <2>1. CASE nextUid' = nextUid /\ u \in NamesOf(o)
    <3>1. \A p \in Uids : NamesOf(p)' \subseteq NamesOf(p)
      BY <1>8, <2>1
    <3> QED
      BY <1>1, <2>1, <3>1, FewerNames
  <2>2. CASE nextUid' = nextUid + 1 /\ u = nextUid /\ o = nextUid
    <3>1. NamesOf(o) = {} /\ nextUid \in Int /\ o \in Int
      BY <1>1, <2>2, UnbornNowhere DEF TypeOK, Uids
    <3>2. NamesOf(o)' \subseteq {u}
      BY <1>8, <3>1
    <3>3. \A p \in Uids : \A w \in NamesOf(p)' : w < nextUid' /\ p < nextUid'
      <4>1. \A p \in Uids : p \in Int
        BY DEF Uids
      <4>2. \A p \in Uids : \A w \in NamesOf(p) : w \in Uids /\ w < nextUid /\ p < nextUid
        BY <1>1, Names DEF NamesOk
      <4> QED
        BY <1>8, <2>2, <3>1, <3>2, <4>1, <4>2
    <3>4. ASSUME NEW p \in Uids, NEW r \in Uids, NEW w \in NamesOf(p)', w \in NamesOf(r)'
          PROVE  p = r
      BY <1>1, <1>8, <1>9, <3>2, <3>4 DEF NamesOk
    <3>5. ASSUME NEW p \in Uids \ strays
          PROVE  \A v, w \in NamesOf(p)' : v = w
      BY <1>1, <1>8, <3>2 DEF NamesOk
    <3> QED
      BY <1>1, <3>3, <3>4, <3>5 DEF NamesOk
  <2> QED
    BY <2>1, <2>2
<1>11. UnbornOk'
  <2>1. \A p \in Uids : p >= nextUid' => p >= nextUid
    <3>1. nextUid \in Int /\ \A p \in Uids : p \in Int
      BY <1>1 DEF TypeOK, Uids
    <3> QED
      BY <3>1
  <2> QED
    BY <1>1, <2>1 DEF ObjectsInv, UnbornOk
<1>12. EntriesOk'
  <2>1. \A i \in 1..Ended : stack'[i] = stack[i]
    BY <1>2, <1>4
  <2> QED
    BY <1>1, <1>5, <2>1 DEF ObjectsInv, EntriesOk
<1>13. placed' \in [Uids -> Instance \cup {None}] /\ placed \in [Uids -> Instance \cup {None}]
  BY <1>1 DEF TypeOK
<1>14. ASSUME NEW p \in Uids \ strays
       PROVE  Agrees(a, p, wasAt[Len(stack)][p], Where(placed')[p], TRUE)
  <2> DEFINE b == wasAt[Len(stack)][p]
  <2>1. Agrees(Cur, p, b, Where(placed)[p], TRUE)
    BY <1>1 DEF ObjectsInv, RunningEntriesOk
  <2>2. CASE p # o
    <3>1. Where(placed')[p] = Where(placed)[p]
      <4>1. \A v \in Uids : (placed'[v] # None /\ placed'[v].id = p)
                            \/ (placed[v] # None /\ placed[v].id = p) => placed'[v] = placed[v]
        BY <1>7, <1>9, <2>2, Names
      <4> DEFINE after == placed'
      <4>2. /\ after \in [Uids -> Instance \cup {None}]
            /\ \A v \in Uids : (after[v] # None /\ after[v].id = p)
                               \/ (placed[v] # None /\ placed[v].id = p) => after[v] = placed[v]
        BY <1>13, <4>1
      <4> HIDE DEF after
      <4>3. Where(after)[p] = Where(placed)[p]
        BY <1>13, <4>2, WhereSame
      <4> QED
        BY <4>3 DEF after
    <3>2. \A w \in Named(a) : a.objs[w].id = p =>
             w \in Named(Cur) /\ a.objs[w] = Cur.objs[w]
      BY <1>3, <1>6, <2>2 DEF Named
    <3>3. \A w \in Named(Cur) : Cur.objs[w].id = p => w # u /\ w \in Named(a) /\ a.objs[w] = Cur.objs[w]
      <4>1. \A w \in Named(Cur) : Cur.objs[w].id = p => w \in NamesOf(p) /\ w \in Uids
        BY <1>2, Names DEF Cur
      <4> QED
        BY <1>3, <1>6, <1>9, <2>2, <4>1
    <3> QED
      BY <2>1, <3>1, <3>2, <3>3 DEF Agrees
  <2>3. CASE p = o
    <3>1. \A w \in Named(a) : a.objs[w].id = o => w = u
      <4>1. u \in NamesOf(o)'
        <5>1. Len(stack) \in DOMAIN stack' /\ u \in Named(stack'[Len(stack)])
              /\ stack'[Len(stack)].objs[u].id = o
          BY <1>2, <1>3, <1>4, <1>6
        <5> QED
          BY <5>1 DEF NamesOf
      <4>2. \A w \in Named(a) : a.objs[w].id = o => w \in NamesOf(o)'
        <5>1. Len(stack) \in DOMAIN stack' /\ stack'[Len(stack)] = a /\ Named(a) \subseteq Uids
          BY <1>2, <1>4 DEF Named
        <5> QED
          BY <5>1 DEF NamesOf
      <4> QED
        BY <1>1, <1>10, <2>3, <4>1, <4>2 DEF NamesOk
    <3>2. Where(placed')[o] = IF q = None THEN {} ELSE {q.spot}
      <4>1. \A v \in Uids : placed'[v] # None /\ placed'[v].id = o => v = u
        <5>1. \A v \in Uids : placed'[v] # None /\ placed'[v].id = o => v \in NamesOf(o)'
          BY DEF NamesOf
        <5>2. u \in NamesOf(o)'
          <6>1. Len(stack) \in DOMAIN stack' /\ u \in Named(stack'[Len(stack)])
                /\ stack'[Len(stack)].objs[u].id = o
            BY <1>2, <1>3, <1>4, <1>6
          <6> QED
            BY <6>1 DEF NamesOf
        <5> QED
          BY <1>1, <1>10, <2>3, <5>1, <5>2 DEF NamesOk
      <4> DEFINE after == placed'
      <4>2. /\ after \in [Uids -> Instance \cup {None}] /\ after[u] = q
            /\ after[u] # None => after[u].id = o
            /\ \A v \in Uids : after[v] # None /\ after[v].id = o => v = u
        BY <1>7, <1>13, <4>1
      <4> HIDE DEF after
      <4>3. Where(after)[o] = IF after[u] = None THEN {} ELSE {after[u].spot}
        BY ONLY <4>2, o \in Uids, u \in Uids, WhereIs
      <4> QED
        BY <4>2, <4>3 DEF after
    <3>3. Tells(e, b, Where(placed')[o], TRUE)
      BY <2>3, <3>2
    <3>4. u \in Named(a) /\ a.objs[u] = e
      BY <1>3, <1>6
    <3> QED
      BY <2>3, <3>1, <3>3, <3>4 DEF Agrees
  <2> QED
    BY <2>2, <2>3
<1>15. RunningEntriesOk'
  <2>1. \A w \in Named(a) : a.objs[w].to = None
    BY <1>1, <1>3, <1>6 DEF ObjectsInv, RunningEntriesOk, Named
  <2> QED
    BY <1>1, <1>3, <1>4, <1>5, <1>14, <2>1 DEF RunningEntriesOk
<1>16. ObjectsAreRestored'
  BY <1>1 DEF ObjectsAreRestored
<1> QED
  BY <1>10, <1>11, <1>12, <1>15, <1>16 DEF ObjectsInv

\* What an action knows of an object a tool is about to move or remove: where it
\* was before, and nothing of a removal.
LEMMA EntryBefore ==
    ASSUME CellsInv, ObjectsInv, running, ~Cur.hidden, NEW u \in Uids, placed[u] # None
    PROVE  LET e == EntryOf(Cur, u)
               o == placed[u].id
           IN  /\ o \in Uids /\ u \in NamesOf(o) /\ placed[u].spot \in Spots
               /\ e = [id |-> o, added |-> e.added, from |-> e.from, to |-> None, removed |-> e.removed]
               /\ e.added \in Spots \cup {None} /\ e.from \in Spots \cup {None}
               /\ e.removed \in Spots \cup {None}
               /\ o \notin strays =>
                    /\ e.removed = None
                    /\ wasAt[Len(stack)][o] = IF e.added # None THEN {}
                                              ELSE IF e.from # None THEN {e.from}
                                              ELSE {placed[u].spot}
<1> DEFINE o == placed[u].id
           b == wasAt[Len(stack)][o]
           e == EntryOf(Cur, u)
<1>1. /\ TypeOK /\ StackOk /\ NamesOk /\ Cur \in Action
      /\ Len(stack) \in DOMAIN stack
  BY CurIsAction DEF CellsInv, ObjectsInv
<1>2. o \in Uids /\ placed[u].spot \in Spots
  BY <1>1 DEF TypeOK, Instance
<1>3. u \in NamesOf(o)
  BY <1>2, Names
<1>4. o \notin strays => Agrees(Cur, o, b, Where(placed)[o], TRUE)
                         /\ Where(placed)[o] = {placed[u].spot}
  BY <1>1, <1>2, <1>3, WhereOf DEF ObjectsInv, RunningEntriesOk
<1>5. CASE u \in Named(Cur)
  <2>1. /\ e = Cur.objs[u] /\ e \in Entry
        /\ e.added \in Spots \cup {None} /\ e.from \in Spots \cup {None}
        /\ e.removed \in Spots \cup {None} /\ e.id \in Uids
    BY <1>1, <1>5, EntryFields DEF EntryOf, Named
  <2>2. e.to = None
    BY <1>5, <2>1 DEF ObjectsInv, RunningEntriesOk
  <2>3. e.id = o
    <3>1. u \in NamesOf(e.id)
      BY <1>1, <1>5, <2>1, Names DEF Cur
    <3> QED
      BY <1>1, <1>2, <1>3, <2>1, <3>1 DEF NamesOk
  <2>4. e = [id |-> o, added |-> e.added, from |-> e.from, to |-> None, removed |-> e.removed]
    BY <2>1, <2>2, <2>3 DEF Entry
  <2>5. ASSUME o \notin strays
        PROVE  /\ e.removed = None
               /\ b = IF e.added # None THEN {} ELSE IF e.from # None THEN {e.from}
                      ELSE {placed[u].spot}
    <3>1. Tells(e, b, {placed[u].spot}, TRUE)
      BY <1>4, <1>5, <2>1, <2>3, <2>5 DEF Agrees
    <3>2. e.removed = None
      BY <3>1 DEF Tells
    <3>3. e.added # None \/ e.from # None
      BY <2>1, <3>2 DEF Entry
    <3> QED
      BY <3>1, <3>2, <3>3 DEF Tells, Before
  <2> QED
    BY <1>2, <1>3, <2>1, <2>4, <2>5
<1>6. CASE u \notin Named(Cur)
  <2>1. e = [id |-> o, added |-> None, from |-> None, to |-> None, removed |-> None]
    BY <1>6 DEF EntryOf, Named
  <2>2. ASSUME o \notin strays PROVE b = {placed[u].spot}
    <3>1. \A w \in Named(Cur) : Cur.objs[w].id # o
      <4>1. \A w \in Named(Cur) : Cur.objs[w].id = o => w \in NamesOf(o)
        BY <1>1, <1>2, Names DEF Cur
      <4> QED
        BY <1>1, <1>2, <1>3, <1>6, <2>2, <4>1 DEF NamesOk
    <3> QED
      BY <1>4, <2>2, <3>1 DEF Agrees
  <2> QED
    BY <1>2, <1>3, <2>1, <2>2
<1> QED
  BY <1>5, <1>6

LEMMA AddObjects ==
    ASSUME CellsInv, ObjectsInv, NEW s \in Spots, AddObject(s)
    PROVE  ObjectsInv'
<1> DEFINE e == [id |-> nextUid, added |-> s, from |-> None, to |-> None, removed |-> None]
           q == [id |-> nextUid, spot |-> s]
<1>1. nextUid \in Uids /\ s # None /\ running /\ TypeOK /\ StackOk
  BY CellsAssumption DEF AddObject, EditsObjects, CellsInv
<1>2. e \in Entry /\ q \in Instance /\ q # None
  BY <1>1, NoneAssumption DEF Entry, Instance
<1>3. /\ EditsObjects /\ SetCur(WithEntry(Cur, nextUid, e))
      /\ placed' = [placed EXCEPT ![nextUid] = q] /\ nextUid' = nextUid + 1
  BY DEF AddObject
<1>4. Tells(e, wasAt[Len(stack)][nextUid], {q.spot}, TRUE)
  <2>1. Len(stack) \in DOMAIN wasAt
    BY <1>1, CurIsAction DEF TypeOK, StackOk
  <2>2. wasAt[Len(stack)][nextUid] = {}
    BY <1>1, <2>1 DEF ObjectsInv, UnbornOk, TypeOK
  <2> QED
    BY <1>1, <2>2 DEF Tells, Before, After
<1>5. e.id = nextUid /\ e.to = None /\ q.id = nextUid
  OBVIOUS
<1> HIDE DEF e, q
<1> QED
  BY <1>1, <1>2, <1>3, <1>4, <1>5, EditOneObject

LEMMA MoveObjects ==
    ASSUME CellsInv, ObjectsInv, NEW u \in Uids, NEW s \in Spots, MoveObject(u, s)
    PROVE  ObjectsInv'
<1> DEFINE k == EntryOf(Cur, u)
           o == placed[u].id
           e == IF k.from # None THEN k ELSE [k EXCEPT !.from = placed[u].spot]
           q == [placed[u] EXCEPT !.spot = s]
<1>1. /\ placed[u] # None /\ running /\ ~Cur.hidden /\ nextUid' = nextUid
      /\ EditsObjects /\ SetCur(WithEntry(Cur, u, e)) /\ placed' = [placed EXCEPT ![u] = q]
  BY DEF MoveObject, EditsObjects
<1>2. /\ o \in Uids /\ u \in NamesOf(o) /\ placed[u].spot \in Spots
      /\ k = [id |-> o, added |-> k.added, from |-> k.from, to |-> None, removed |-> k.removed]
      /\ k.added \in Spots \cup {None} /\ k.from \in Spots \cup {None}
      /\ k.removed \in Spots \cup {None}
      /\ o \notin strays =>
           /\ k.removed = None
           /\ wasAt[Len(stack)][o] = IF k.added # None THEN {}
                                     ELSE IF k.from # None THEN {k.from}
                                     ELSE {placed[u].spot}
  BY <1>1, EntryBefore
<1>3. q \in Instance /\ q.id = o /\ q.spot = s
  BY <1>1 DEF CellsInv, TypeOK, Instance
<1> HIDE DEF k, q, o
<1>4. /\ e \in Entry /\ e.id = o /\ e.to = None /\ e.added = k.added /\ e.removed = k.removed
      /\ e.from # None /\ e.from = IF k.from # None THEN k.from ELSE placed[u].spot
  <2>1. placed[u].spot # None
    BY <1>2, CellsAssumption
  <2> QED
    BY <1>2, <2>1 DEF Entry
<1> HIDE DEF e
<1>5. ASSUME o \notin strays
      PROVE  Tells(e, wasAt[Len(stack)][o], {q.spot}, TRUE)
  BY <1>2, <1>4, <1>5 DEF Tells, Before
<1>6. q # None
  BY <1>3, NoneAssumption
<1> QED
  BY <1>1, <1>2, <1>3, <1>4, <1>5, <1>6, EditOneObject

LEMMA RemoveObjects ==
    ASSUME CellsInv, ObjectsInv, NEW u \in Uids, RemoveObject(u)
    PROVE  ObjectsInv'
<1> DEFINE k == EntryOf(Cur, u)
           o == placed[u].id
           e == [k EXCEPT !.removed = placed[u].spot]
<1>1. /\ placed[u] # None /\ running /\ ~Cur.hidden /\ nextUid' = nextUid
      /\ EditsObjects /\ SetCur(WithEntry(Cur, u, e)) /\ placed' = [placed EXCEPT ![u] = None]
  BY DEF RemoveObject, EditsObjects
<1>2. /\ o \in Uids /\ u \in NamesOf(o) /\ placed[u].spot \in Spots
      /\ k = [id |-> o, added |-> k.added, from |-> k.from, to |-> None, removed |-> k.removed]
      /\ k.added \in Spots \cup {None} /\ k.from \in Spots \cup {None}
      /\ k.removed \in Spots \cup {None}
      /\ o \notin strays =>
           /\ k.removed = None
           /\ wasAt[Len(stack)][o] = IF k.added # None THEN {}
                                     ELSE IF k.from # None THEN {k.from}
                                     ELSE {placed[u].spot}
  BY <1>1, EntryBefore
<1> HIDE DEF k, o
<1>3. /\ e \in Entry /\ e.id = o /\ e.to = None /\ e.added = k.added /\ e.from = k.from
      /\ e.removed # None /\ e.removed = placed[u].spot
  <2>1. placed[u].spot # None
    BY <1>2, CellsAssumption
  <2> QED
    BY <1>2, <2>1 DEF Entry
<1> HIDE DEF e
<1>4. ASSUME o \notin strays
      PROVE  Tells(e, wasAt[Len(stack)][o], {}, TRUE)
  BY <1>2, <1>3, <1>4 DEF Tells, Before, After
<1> QED
  BY <1>1, <1>2, <1>3, <1>4, EditOneObject

\* What undo and redo do with the objects of an action: those brought back get
\* fresh uids of their own, the entries of the action follow them and keep
\* what they say, and those it could not put back are left out.
Replayed(i, redo, f) ==
    LET a == stack[i]
        B == BroughtBack(a, redo)
        L == Lost(a, redo) IN
    /\ f \in [B -> Uids]
    /\ \A u, v \in B : f[u] = f[v] => u = v
    /\ \A u \in B : nextUid <= f[u] /\ f[u] < nextUid'
    /\ nextUid <= nextUid' /\ nextUid' \in 1..(MaxUid + 1)
    /\ \A u \in B : placed'[f[u]] = IF u \in Deleted(a, redo) \ L THEN None
                                    ELSE [id |-> a.objs[u].id, spot |-> SpotOf(a.objs[u], redo)]
    /\ \A k \in Uids : (\A u \in B : f[u] # k) =>
           placed'[k] = IF k \in Named(a) \ (B \cup L)
                        THEN IF k \in Deleted(a, redo) THEN None
                             ELSE [placed[k] EXCEPT !.spot = SpotOf(a.objs[k], redo)]
                        ELSE placed[k]
    /\ \A u \in Named(a) \ L : LET k == IF u \in B THEN f[u] ELSE u
                               IN  k \in Named(stack'[i]) /\ stack'[i].objs[k] = a.objs[u]
    /\ \A k \in Named(stack'[i]) : \E u \in Named(a) \ L :
           k = (IF u \in B THEN f[u] ELSE u) /\ stack'[i].objs[k] = a.objs[u]
    /\ DOMAIN stack' = DOMAIN stack
    /\ \A j \in DOMAIN stack : j # i => stack'[j] = stack[j]
    /\ strays \subseteq strays'
    /\ \A u \in B, j \in DOMAIN stack \ {i} :
           u \in Named(stack[j]) => a.objs[u].id \in strays'
    /\ a.short => \A u \in L : a.objs[u].id \in strays'

LEMMA ReplayShape ==
    ASSUME TypeOK, NamesOk, NEW i \in DOMAIN stack, NEW redo \in BOOLEAN, Replay(i, redo)
    PROVE  \E f : Replayed(i, redo, f)
<1> DEFINE a == stack[i]
           B == BroughtBack(a, redo)
           L == Lost(a, redo)
<1>1. a \in Action
  BY DEF TypeOK
<1>2. PICK f \in NewUids(B) :
        /\ nextUid + Cardinality(DOMAIN f) <= MaxUid + 1
        /\ nextUid' = nextUid + Cardinality(DOMAIN f)
        /\ placed' = PlacedAfter(a, f, redo)
        /\ stack' = [stack EXCEPT ![i] = Renamed(a, f, redo)]
        /\ strays' = strays
              \cup {a.objs[u].id : u \in {w \in DOMAIN f :
                      \E j \in DOMAIN stack \ {i} : w \in Named(stack[j])}}
              \cup IF a.short THEN {a.objs[u].id : u \in Lost(a, redo)} ELSE {}
  BY DEF Replay
<1>3. /\ B \subseteq Named(a) /\ L \subseteq Named(a) /\ Named(a) \subseteq Uids
      /\ IsFiniteSet(B) /\ Cardinality(B) \in Nat
  <2>1. B \subseteq Named(a) /\ L \subseteq Named(a) /\ Named(a) \subseteq Uids
    BY DEF BroughtBack, Lost, Named
  <2>2. IsFiniteSet(Uids)
    BY FS_Interval, BoundsAssumption DEF Uids
  <2> QED
    BY <2>1, <2>2, FS_Subset, FS_CardinalityType
<1>4. /\ f \in [B -> nextUid .. nextUid + Cardinality(B) - 1] /\ DOMAIN f = B
      /\ \A u, v \in B : f[u] = f[v] => u = v
  BY DEF NewUids, IsInjective
<1>5. /\ nextUid' = nextUid + Cardinality(B) /\ nextUid + Cardinality(B) <= MaxUid + 1
      /\ nextUid \in 1..(MaxUid + 1)
  BY <1>2, <1>4 DEF TypeOK
<1>6. /\ \A u \in B : f[u] \in Uids /\ nextUid <= f[u] /\ f[u] < nextUid'
      /\ nextUid <= nextUid' /\ nextUid' \in 1..(MaxUid + 1)
  <2>1. ASSUME NEW u \in B
        PROVE  f[u] \in Uids /\ nextUid <= f[u] /\ f[u] < nextUid'
    <3>1. f[u] \in nextUid .. nextUid + Cardinality(B) - 1
      BY <1>4
    <3> QED
      BY <1>3, <1>5, <3>1, BoundsAssumption DEF Uids
  <2> QED
    BY <1>3, <1>5, <2>1, BoundsAssumption
<1>7. f \in [B -> Uids]
  BY <1>4, <1>6
<1>8. \A u \in Named(a) : u < nextUid /\ u \in Uids /\ a.objs[u] # None
  <2> SUFFICES ASSUME NEW u \in Named(a)
               PROVE  u < nextUid /\ u \in Uids /\ a.objs[u] # None
    OBVIOUS
  <2>1. a.objs[u].id \in Uids /\ u \in Uids /\ a.objs[u] # None
    BY <1>1, EntryFields
  <2>2. u \in NamesOf(a.objs[u].id)
    BY <2>1, Names
  <2> QED
    BY <2>1, <2>2 DEF NamesOk
<1>9. ASSUME NEW u \in B
      PROVE  placed'[f[u]] = IF u \in Deleted(a, redo) \ L THEN None
                             ELSE [id |-> a.objs[u].id, spot |-> SpotOf(a.objs[u], redo)]
  <2>1. \A w \in DOMAIN f : f[w] = f[u] => w = u
    BY <1>4
  <2>2. (CHOOSE w \in DOMAIN f : f[w] = f[u]) = u
    BY <1>4, <2>1
  <2>3. f[u] \in Uids /\ \E w \in DOMAIN f : f[w] = f[u]
    BY <1>4, <1>6
  <2>4. placed'[f[u]] = PlacedAfter(a, f, redo)[f[u]]
    BY <1>2
  <2> QED
    BY <2>2, <2>3, <2>4 DEF PlacedAfter
<1>10. ASSUME NEW k \in Uids, \A u \in B : f[u] # k
       PROVE  placed'[k] = IF k \in Named(a) \ (B \cup L)
                           THEN IF k \in Deleted(a, redo) THEN None
                                ELSE [placed[k] EXCEPT !.spot = SpotOf(a.objs[k], redo)]
                           ELSE placed[k]
  BY <1>2, <1>4, <1>10 DEF PlacedAfter
<1> DEFINE new(u) == IF u \in B THEN f[u] ELSE u
           n == [k \in Uids |->
                   IF Holders(a, f, redo, k) = {} THEN None
                   ELSE a.objs[CHOOSE u \in Holders(a, f, redo, k) : TRUE]]
<1>11. stack'[i].objs = n /\ DOMAIN stack' = DOMAIN stack
       /\ \A j \in DOMAIN stack : j # i => stack'[j] = stack[j]
  <2>1. Renamed(a, f, redo).objs = n
    BY <1>1 DEF Renamed, Action
  <2> HIDE DEF n
  <2> QED
    BY <1>2, <2>1 DEF TypeOK
<1>12. \A u \in Named(a) : new(u) \in Uids
  BY <1>6, <1>8
<1>13. ASSUME NEW u \in Named(a) \ L
       PROVE  Holders(a, f, redo, new(u)) = {u}
  <2>1. u \in Holders(a, f, redo, new(u))
    BY <1>4 DEF Holders
  <2>2. ASSUME NEW v \in Holders(a, f, redo, new(u)) PROVE v = u
    <3>1. v \in Named(a) \ L /\ new(u) = new(v)
      BY <1>4 DEF Holders
    <3>2. CASE u \in B /\ v \in B
      BY <1>4, <3>1, <3>2
    <3>3. CASE u \in B /\ v \notin B
      <4>1. f[u] = v /\ v < nextUid /\ nextUid <= f[u] /\ v \in Uids
        BY <1>6, <1>8, <3>1, <3>3
      <4> QED
        BY <1>5, <4>1 DEF Uids
    <3>4. CASE u \notin B /\ v \in B
      <4>1. f[v] = u /\ u < nextUid /\ nextUid <= f[v] /\ u \in Uids
        BY <1>6, <1>8, <3>1, <3>4
      <4> QED
        BY <1>5, <4>1 DEF Uids
    <3>5. CASE u \notin B /\ v \notin B
      BY <3>1, <3>5
    <3> QED
      BY <3>2, <3>3, <3>4, <3>5
  <2> QED
    BY <2>1, <2>2
<1>14. ASSUME NEW u \in Named(a) \ L
       PROVE  new(u) \in Named(stack'[i]) /\ stack'[i].objs[new(u)] = a.objs[u]
  <2>1. n[new(u)] = a.objs[u]
    <3> HIDE DEF new
    <3>1. new(u) \in Uids /\ Holders(a, f, redo, new(u)) = {u}
      BY <1>12, <1>13
    <3>2. (CHOOSE v \in Holders(a, f, redo, new(u)) : TRUE) = u
      BY <3>1
    <3> QED
      BY <3>1, <3>2
  <2> HIDE DEF n, new
  <2> QED
    BY <1>8, <1>11, <1>12, <2>1 DEF Named
<1>15. ASSUME NEW k \in Named(stack'[i])
       PROVE  \E u \in Named(a) \ L : k = new(u) /\ stack'[i].objs[k] = a.objs[u]
  <2>1. k \in Uids /\ n[k] # None
    BY <1>11 DEF Named
  <2>2. Holders(a, f, redo, k) # {}
    BY <2>1
  <2>3. PICK u \in Holders(a, f, redo, k) : TRUE
    BY <2>2
  <2>4. u \in Named(a) \ L /\ k = new(u)
    BY <1>4, <2>3 DEF Holders
  <2> HIDE DEF n, new
  <2> QED
    BY <1>14, <2>4
<1>16. /\ strays \subseteq strays'
       /\ \A u \in B, j \in DOMAIN stack \ {i} : u \in Named(stack[j]) => a.objs[u].id \in strays'
       /\ a.short => \A u \in L : a.objs[u].id \in strays'
  BY <1>2, <1>4
<1> HIDE DEF n
<1>17. Replayed(i, redo, f)
  BY <1>4, <1>6, <1>7, <1>9, <1>10, <1>11, <1>14, <1>15, <1>16 DEF Replayed
<1> QED
  BY <1>17

\* Where undo or redo puts an object is where it was before or after.
LEMMA SpotRight ==
    ASSUME NEW e, NEW b, NEW c, NEW short, NEW redo \in BOOLEAN, Tells(e, b, c, short),
           ~ (redo /\ e.from # None /\ e.to = None)
    PROVE  (IF redo THEN c ELSE b) = IF (IF redo THEN e.removed ELSE e.added) # None THEN {}
                                     ELSE {SpotOf(e, redo)}
<1>1. CASE redo
  BY <1>1 DEF Tells, After, SpotOf
<1>2. CASE ~redo
  BY <1>2 DEF Tells, Before, SpotOf
<1> QED
  BY <1>1, <1>2

\* Undo and redo of an action put its objects where they were before or after it,
\* and of the names of the objects that are no strays they lose none.
LEMMA ReplayObjects ==
    ASSUME TypeOK, NamesOk, NEW i \in DOMAIN stack, NEW redo \in BOOLEAN, Replay(i, redo),
           NEW before, NEW after,
           \A o \in Uids \ strays : Agrees(stack[i], o, before[o], after[o], stack[i].short),
           \A o \in Uids \ strays : Where(placed)[o] = IF redo THEN before[o] ELSE after[o]
    PROVE  /\ NamesOk' /\ strays \subseteq strays'
           /\ \A p \in Uids : p >= nextUid' => p >= nextUid
           /\ \A o \in Uids \ strays' : Where(placed')[o] = IF redo THEN after[o] ELSE before[o]
           /\ \A j \in DOMAIN stack, o \in Uids \ strays' : \A b, c, s :
                Agrees(stack[j], o, b, c, s) => Agrees(stack'[j], o, b, c, s)
<1> DEFINE a == stack[i]
           B == BroughtBack(a, redo)
           L == Lost(a, redo)
           D == Deleted(a, redo)
           id(u) == a.objs[u].id
<1> PICK f : Replayed(i, redo, f)
  BY ReplayShape
<1>1. /\ f \in [B -> Uids]
      /\ \A u, v \in B : f[u] = f[v] => u = v
      /\ \A u \in B : nextUid <= f[u] /\ f[u] < nextUid'
      /\ nextUid <= nextUid' /\ nextUid' \in 1..(MaxUid + 1)
      /\ \A u \in B : placed'[f[u]] = IF u \in D \ L THEN None
                                      ELSE [id |-> a.objs[u].id, spot |-> SpotOf(a.objs[u], redo)]
      /\ \A k \in Uids : (\A u \in B : f[u] # k) =>
             placed'[k] = IF k \in Named(a) \ (B \cup L)
                          THEN IF k \in D THEN None
                               ELSE [placed[k] EXCEPT !.spot = SpotOf(a.objs[k], redo)]
                          ELSE placed[k]
      /\ \A u \in Named(a) \ L : LET k == IF u \in B THEN f[u] ELSE u
                                 IN  k \in Named(stack'[i]) /\ stack'[i].objs[k] = a.objs[u]
      /\ \A k \in Named(stack'[i]) : \E u \in Named(a) \ L :
             k = (IF u \in B THEN f[u] ELSE u) /\ stack'[i].objs[k] = a.objs[u]
      /\ DOMAIN stack' = DOMAIN stack
      /\ \A j \in DOMAIN stack : j # i => stack'[j] = stack[j]
      /\ strays \subseteq strays'
      /\ \A u \in B, j \in DOMAIN stack \ {i} :
             u \in Named(stack[j]) => a.objs[u].id \in strays'
      /\ a.short => \A u \in L : a.objs[u].id \in strays'
  BY DEF Replayed
<1>2. placed' \in [Uids -> Instance \cup {None}]
  BY ReplayTypes
<1>3. \A u \in Named(a) :
         /\ u \in Uids /\ a.objs[u] \in Entry /\ id(u) \in Uids
         /\ u \in NamesOf(id(u)) /\ u < nextUid
  <2> SUFFICES ASSUME NEW u \in Named(a)
               PROVE  /\ u \in Uids /\ a.objs[u] \in Entry /\ id(u) \in Uids
                      /\ u \in NamesOf(id(u)) /\ u < nextUid
    OBVIOUS
  <2>1. a \in Action
    BY DEF TypeOK
  <2>2. u \in Uids /\ a.objs[u] \in Entry /\ id(u) \in Uids
    BY <2>1, EntryFields
  <2>3. u \in NamesOf(id(u))
    BY <2>2, Names
  <2> QED
    BY <2>2, <2>3 DEF NamesOk
<1>4. /\ B \subseteq Named(a) /\ L \subseteq Named(a) /\ D \subseteq Named(a)
      /\ \A u \in Named(a) : /\ u \in B <=> (IF redo THEN a.objs[u].added ELSE a.objs[u].removed) # None
                             /\ u \in D <=> (IF redo THEN a.objs[u].removed ELSE a.objs[u].added) # None
                             /\ u \in L <=> /\ a.objs[u].from # None
                                            /\ \/ redo /\ a.objs[u].to = None
                                               \/ u \notin B /\ placed[u] = None
  BY DEF BroughtBack, Lost, Deleted
<1>5. /\ nextUid \in Int /\ nextUid' \in Int
      /\ \A u \in Uids : u \in Int
      /\ \A u \in B : f[u] \in Uids /\ f[u] \in Int
      /\ \A u \in B : \A k \in Named(a) : f[u] # k
  <2>1. nextUid \in Int /\ nextUid' \in Int /\ \A u \in Uids : u \in Int
    BY <1>1 DEF TypeOK, Uids
  <2>2. \A u \in B : f[u] \in Uids /\ f[u] \in Int
    BY <1>1, <2>1
  <2>3. ASSUME NEW u \in B, NEW k \in Named(a) PROVE f[u] # k
    <3>1. nextUid <= f[u] /\ k < nextUid /\ k \in Int /\ f[u] \in Int
      BY <1>1, <1>3, <2>1, <2>2
    <3> QED
      BY <2>1, <3>1
  <2> QED
    BY <2>1, <2>2, <2>3
<1> HIDE DEF B, L, D, a, id
<1>6. ASSUME NEW o \in Uids \ strays', NEW u \in Named(a), id(u) = o
      PROVE  /\ Tells(a.objs[u], before[o], after[o], a.short)
             /\ (IF placed[u] = None THEN {} ELSE {placed[u].spot}) = IF redo THEN before[o] ELSE after[o]
  <2>1. o \in Uids \ strays /\ u \in NamesOf(o)
    BY <1>1, <1>3, <1>6
  <2>2. Tells(a.objs[u], before[o], after[o], a.short)
    BY <1>6, <2>1 DEF Agrees, a, id
  <2>3. Where(placed)[o] = IF placed[u] = None THEN {} ELSE {placed[u].spot}
    BY <2>1, WhereOf
  <2> QED
    BY <2>1, <2>2, <2>3
<1>7. ASSUME NEW o \in Uids \ strays', NEW u \in Named(a), id(u) = o
      PROVE  u \notin L /\ (u \in B => placed[u] = None)
  <2> DEFINE e == a.objs[u]
             b == before[o]
             c == after[o]
             w == IF placed[u] = None THEN {} ELSE {placed[u].spot}
  <2>1. Tells(e, b, c, a.short) /\ w = IF redo THEN b ELSE c
    BY <1>6, <1>7
  <2>2. placed[u] = None <=> w = {}
    OBVIOUS
  <2> HIDE DEF e, b, c, w
  <2>3. u \in B => placed[u] = None
    <3>1. redo /\ e.added # None => b = {}
      BY <2>1 DEF Tells, Before
    <3>2. ~redo /\ e.removed # None => c = {}
      BY <2>1 DEF Tells
    <3> QED
      BY <1>4, <2>1, <2>2, <3>1, <3>2 DEF e
  <2>4. ASSUME u \in L PROVE FALSE
    <3>1. ~a.short
      BY <1>1, <1>7, <2>4 DEF id
    <3>2. e.from # None
      BY <1>4, <2>4 DEF e
    <3>3. e.to # None
      BY <2>1, <3>1, <3>2 DEF Tells
    <3>4. u \notin B /\ w = {}
      BY <1>4, <2>2, <2>4, <3>3 DEF e
    <3>5. CASE redo
      BY <1>4, <2>1, <3>2, <3>4, <3>5 DEF Tells, Before, e
    <3>6. CASE ~redo
      BY <1>4, <2>1, <3>4, <3>6 DEF Tells, e
    <3> QED
      BY <3>5, <3>6
  <2> QED
    BY <2>3, <2>4
<1>8. ASSUME NEW k \in Named(a) \ (B \cup L), k \notin D
      PROVE  /\ placed[k] # None
             /\ [placed[k] EXCEPT !.spot = SpotOf(a.objs[k], redo)].id = placed[k].id
             /\ [placed[k] EXCEPT !.spot = SpotOf(a.objs[k], redo)].spot = SpotOf(a.objs[k], redo)
  <2>1. a.objs[k].added = None /\ a.objs[k].removed = None
    BY <1>4, <1>8
  <2>2. a.objs[k].from # None
    BY <1>3, <2>1 DEF Entry
  <2>3. placed[k] # None
    BY <1>4, <1>8, <2>2
  <2>4. placed[k] \in Instance
    BY <1>3, <2>3 DEF TypeOK
  <2> QED
    BY <2>3, <2>4 DEF Instance
<1>9. ASSUME NEW o \in Uids, NEW k \in NamesOf(o)'
      PROVE  k \in Uids /\ (k \in NamesOf(o) \/ \E u \in B : k = f[u] /\ id(u) = o)
  <2>1. k \in Uids
    BY DEF NamesOf
  <2>2. CASE placed'[k] # None /\ placed'[k].id = o
    <3>1. CASE \E u \in B : f[u] = k
      <4>1. PICK u \in B : f[u] = k
        BY <3>1
      <4>2. placed'[k] = [id |-> a.objs[u].id, spot |-> SpotOf(a.objs[u], redo)]
        BY <1>1, <2>2, <4>1
      <4>3. placed'[k].id = a.objs[u].id
        BY <4>2
      <4> QED
        BY <2>1, <2>2, <4>1, <4>3 DEF id
    <3>2. CASE \A u \in B : f[u] # k
      <4>1. placed'[k] = IF k \in Named(a) \ (B \cup L)
                         THEN IF k \in D THEN None
                              ELSE [placed[k] EXCEPT !.spot = SpotOf(a.objs[k], redo)]
                         ELSE placed[k]
        BY <1>1, <2>1, <3>2
      <4>2. placed[k] # None /\ placed[k].id = o
        BY <1>8, <2>2, <4>1
      <4> QED
        BY <2>1, <4>2, Names
    <3> QED
      BY <3>1, <3>2
  <2>3. CASE \E j \in DOMAIN stack' : k \in Named(stack'[j]) /\ stack'[j].objs[k].id = o
    <3>1. PICK j \in DOMAIN stack : k \in Named(stack'[j]) /\ stack'[j].objs[k].id = o
      BY <1>1, <2>3
    <3>2. CASE j # i
      BY <1>1, <2>1, <3>1, <3>2, Names
    <3>3. CASE j = i
      <4>1. PICK u \in Named(a) \ L :
              k = (IF u \in B THEN f[u] ELSE u) /\ stack'[i].objs[k] = a.objs[u]
        BY <1>1, <3>1, <3>3
      <4>2. id(u) = o
        BY <3>1, <3>3, <4>1 DEF id
      <4> QED
        BY <1>3, <2>1, <4>1, <4>2
    <3> QED
      BY <3>2, <3>3
  <2> QED
    BY <2>2, <2>3 DEF NamesOf
<1>10. NamesOk'
  <2>1. ASSUME NEW o \in Uids, NEW k \in NamesOf(o)' PROVE k < nextUid' /\ o < nextUid'
    <3>1. k \in NamesOf(o) => k < nextUid /\ o < nextUid
      BY DEF NamesOk
    <3>2. \A u \in B : id(u) = o => o < nextUid
      BY <1>3, <1>4 DEF NamesOk
    <3>3. o \in Int /\ k \in Int
      BY <1>5, <1>9
    <3> QED
      BY <1>1, <1>5, <1>9, <3>1, <3>2, <3>3
  <2>2. ASSUME NEW o \in Uids, NEW p \in Uids, NEW k \in NamesOf(o)', k \in NamesOf(p)'
        PROVE  o = p
    <3>1. CASE k \in NamesOf(o) /\ k \in NamesOf(p)
      BY <3>1 DEF NamesOk
    <3>2. ASSUME NEW q \in Uids, k \in NamesOf(q), NEW u \in B, k = f[u] PROVE FALSE
      <4>1. k < nextUid /\ nextUid <= k /\ k \in Int
        BY <1>1, <1>5, <3>2 DEF NamesOk
      <4> QED
        BY <1>5, <4>1
    <3>3. CASE \E u, v \in B : k = f[u] /\ id(u) = o /\ k = f[v] /\ id(v) = p
      <4>1. PICK u \in B, v \in B : k = f[u] /\ id(u) = o /\ k = f[v] /\ id(v) = p
        BY <3>3
      <4>2. f[u] = f[v] /\ \A x, y \in B : f[x] = f[y] => x = y
        BY <1>1, <4>1
      <4>3. u = v
        BY <4>2
      <4> QED
        BY <4>1, <4>3
    <3> QED
      BY <1>9, <2>2, <3>1, <3>2, <3>3
  <2>3. ASSUME NEW o \in Uids \ strays', NEW u \in B, id(u) = o, u \in NamesOf(o)' PROVE FALSE
    <3>1. u \in Named(a) /\ placed[u] = None /\ \A v \in B : f[v] # u
      BY <1>4, <1>5, <1>7, <2>3
    <3>2. placed'[u] = placed[u]
      BY <1>1, <1>3, <3>1
    <3>3. PICK j \in DOMAIN stack : u \in Named(stack'[j]) /\ stack'[j].objs[u].id = o
      BY <1>1, <2>3, <3>1, <3>2 DEF NamesOf
    <3>4. CASE j # i
      BY <1>1, <2>3, <3>3, <3>4 DEF id
    <3>5. CASE j = i
      BY <1>1, <3>1, <3>3, <3>5
    <3> QED
      BY <3>4, <3>5
  <2>4. ASSUME NEW o \in Uids \ strays', NEW k \in NamesOf(o)', NEW l \in NamesOf(o)' PROVE k = l
    <3>1. o \notin strays /\ \A u, v \in NamesOf(o) : u = v
      BY <1>1 DEF NamesOk
    <3>2. \A u \in B : id(u) = o => u \in NamesOf(o)
      BY <1>3, <1>4
    <3>3. k \in NamesOf(o) \/ \E u \in B : k = f[u] /\ id(u) = o
      BY <1>9
    <3>4. l \in NamesOf(o) \/ \E u \in B : l = f[u] /\ id(u) = o
      BY <1>9
    <3> QED
      BY <2>3, <2>4, <3>1, <3>2, <3>3, <3>4
  <2> QED
    BY <2>1, <2>2, <2>4 DEF NamesOk
<1>11. ASSUME NEW o \in Uids \ strays', NEW u \in Named(a), id(u) = o
       PROVE  Where(placed')[o] = IF redo THEN after[o] ELSE before[o]
  <2> DEFINE e == a.objs[u]
             k == IF u \in B THEN f[u] ELSE u
             q == placed'
  <2>1. u \notin L /\ Tells(e, before[o], after[o], a.short)
    BY <1>6, <1>7, <1>11
  <2>2. k \in Uids /\ k \in Named(stack'[i]) /\ stack'[i].objs[k].id = o
    BY <1>1, <1>3, <1>5, <1>11, <2>1 DEF id
  <2>3. k \in NamesOf(o)'
    BY <1>1, <2>2 DEF NamesOf
  <2>4. \A v \in Uids : q[v] # None /\ q[v].id = o => v = k
    <3>1. \A v \in Uids : q[v] # None /\ q[v].id = o => v \in NamesOf(o)'
      BY DEF NamesOf
    <3> QED
      BY <1>10, <2>3, <3>1 DEF NamesOk
  <2>5. /\ u \in D => q[k] = None
        /\ u \notin D => q[k] # None /\ q[k].spot = SpotOf(e, redo) /\ q[k].id = o
    <3>1. CASE u \in B
      <4>1. q[k] = IF u \in D THEN None ELSE [id |-> e.id, spot |-> SpotOf(e, redo)]
        BY <1>1, <2>1, <3>1
      <4>2. q[k] \in Instance \cup {None} /\ e.id = o
        BY <1>2, <1>11, <2>2 DEF id
      <4>3. a \in Action
        BY DEF TypeOK, a
      <4>4. [id |-> e.id, spot |-> SpotOf(e, redo)] \in Instance
        BY <3>1, <4>3, <1>11, SpotTypes DEF B
      <4> QED
        BY <4>1, <4>2, <4>4, NoneAssumption
    <3>2. CASE u \notin B
      <4>1. \A v \in B : f[v] # u
        BY <1>5
      <4>2. q[k] = IF u \in D THEN None ELSE [placed[u] EXCEPT !.spot = SpotOf(e, redo)]
        BY <1>1, <1>3, <2>1, <3>2, <4>1
      <4>3. ASSUME u \notin D
            PROVE  /\ placed[u] # None
                   /\ [placed[u] EXCEPT !.spot = SpotOf(e, redo)].id = placed[u].id
                   /\ [placed[u] EXCEPT !.spot = SpotOf(e, redo)].spot = SpotOf(e, redo)
        BY <1>8, <2>1, <3>2, <4>3
      <4>4. u \notin D => [placed[u] EXCEPT !.spot = SpotOf(e, redo)] # None
        <5>1. a \in Action
          BY DEF TypeOK, a
        <5>2. u \notin D => [placed[u] EXCEPT !.spot = SpotOf(e, redo)] \in Instance
          BY <2>1, <3>2, <5>1, SpotTypes DEF B, D, L
        <5> QED
          BY <5>2, NoneAssumption
      <4>5. placed[u] # None => placed[u].id = o
        <5>1. u \in NamesOf(o) /\ o \in Uids \ strays
          BY <1>1, <1>3, <1>11
        <5> QED
          BY <5>1, WhereOf
      <4> QED
        BY <4>2, <4>3, <4>4, <4>5
    <3> QED
      BY <3>1, <3>2
  <2>6. ~ (redo /\ e.from # None /\ e.to = None)
    BY <1>4, <2>1
  <2>7. (IF redo THEN after[o] ELSE before[o]) = IF u \in D THEN {} ELSE {SpotOf(e, redo)}
    <3>1. (IF redo THEN after[o] ELSE before[o])
             = IF (IF redo THEN e.removed ELSE e.added) # None THEN {} ELSE {SpotOf(e, redo)}
      <4> DEFINE b == before[o]
                 c == after[o]
                 s == a.short
      <4>1. Tells(e, b, c, s)
        BY <2>1
      <4> HIDE DEF b, c, s, e
      <4>2. (IF redo THEN c ELSE b)
               = IF (IF redo THEN e.removed ELSE e.added) # None THEN {} ELSE {SpotOf(e, redo)}
        BY ONLY <2>6, <4>1, redo \in BOOLEAN, SpotRight
      <4> QED
        BY <4>2 DEF b, c
    <3>2. u \in D <=> (IF redo THEN e.removed ELSE e.added) # None
      BY <1>4
    <3> QED
      BY <3>1, <3>2
  <2>8. q \in [Uids -> Instance \cup {None}] /\ (q[k] # None => q[k].id = o)
    BY <1>2, <2>5
  <2> HIDE DEF q, k
  <2>9. Where(q)[o] = IF q[k] = None THEN {} ELSE {q[k].spot}
    BY ONLY <2>2, <2>4, <2>8, o \in Uids \ strays', WhereIs
  <2> QED
    BY <2>5, <2>7, <2>9 DEF q
<1>12. ASSUME NEW o \in Uids \ strays', \A u \in Named(a) : id(u) # o
       PROVE  Where(placed')[o] = IF redo THEN after[o] ELSE before[o]
  <2> DEFINE q == placed'
  <2>1. ASSUME NEW v \in Uids, (q[v] # None /\ q[v].id = o) \/ (placed[v] # None /\ placed[v].id = o)
        PROVE  q[v] = placed[v]
    <3>1. ~ \E u \in B : f[u] = v
      <4> SUFFICES ASSUME NEW u \in B, f[u] = v PROVE FALSE
        OBVIOUS
      <4>1. q[v] # None => q[v] = [id |-> a.objs[u].id, spot |-> SpotOf(a.objs[u], redo)]
        BY <1>1
      <4>2. q[v] # None => q[v].id # o
        BY <1>4, <1>12, <4>1 DEF id
      <4>3. v \in NamesOf(o)
        BY <2>1, <4>2, Names
      <4>4. v < nextUid /\ nextUid <= v /\ v \in Int
        BY <1>1, <1>5, <4>3 DEF NamesOk
      <4> QED
        BY <1>5, <4>4
    <3>2. q[v] = IF v \in Named(a) \ (B \cup L)
                 THEN IF v \in D THEN None
                      ELSE [placed[v] EXCEPT !.spot = SpotOf(a.objs[v], redo)]
                 ELSE placed[v]
      BY <1>1, <3>1
    <3>3. ASSUME v \in Named(a) \ (B \cup L) PROVE FALSE
      <4>1. placed[v] # None /\ placed[v].id = o
        BY <1>8, <2>1, <3>2, <3>3
      <4>2. v \in NamesOf(o) /\ v \in NamesOf(id(v)) /\ id(v) \in Uids
        BY <1>3, <3>3, <4>1, Names
      <4>3. id(v) = o
        BY <4>2 DEF NamesOk
      <4> QED
        BY <1>12, <3>3, <4>3
    <3> QED
      BY <3>2, <3>3
  <2>2. q \in [Uids -> Instance \cup {None}] /\ placed \in [Uids -> Instance \cup {None}]
    BY <1>2 DEF TypeOK
  <2> HIDE DEF q
  <2>3. Where(q)[o] = Where(placed)[o]
    BY <2>1, <2>2, WhereSame
  <2>4. o \in Uids \ strays
    BY <1>1
  <2>5. before[o] = after[o]
    BY <1>12, <2>4 DEF Agrees, a, id
  <2> QED
    BY <2>3, <2>4, <2>5 DEF q
<1>13. ASSUME NEW j \in DOMAIN stack, NEW o \in Uids \ strays', NEW b, NEW c, NEW s,
              Agrees(stack[j], o, b, c, s)
       PROVE  Agrees(stack'[j], o, b, c, s)
  <2>1. CASE j # i
    BY <1>1, <1>13, <2>1
  <2>2. CASE j = i
    <3>1. Agrees(a, o, b, c, s)
      BY <1>13, <2>2 DEF a
    <3>2. ASSUME \A k \in Named(stack'[i]) : stack'[i].objs[k].id # o
          PROVE  b = c
      <4>1. \A u \in Named(a) : a.objs[u].id # o
        <5> SUFFICES ASSUME NEW u \in Named(a), a.objs[u].id = o PROVE FALSE
          OBVIOUS
        <5>1. u \notin L
          BY <1>7 DEF id
        <5> QED
          BY <1>1, <3>2, <5>1
      <4> QED
        BY <3>1, <4>1 DEF Agrees
    <3>3. ASSUME NEW k \in Named(stack'[i]), stack'[i].objs[k].id = o
          PROVE  Tells(stack'[i].objs[k], b, c, s)
      <4>1. PICK u \in Named(a) \ L : stack'[i].objs[k] = a.objs[u]
        BY <1>1
      <4> QED
        BY <3>1, <3>3, <4>1 DEF Agrees
    <3> QED
      BY <2>2, <3>2, <3>3 DEF Agrees
  <2> QED
    BY <2>1, <2>2
<1>14. \A p \in Uids : p >= nextUid' => p >= nextUid
  BY <1>1, <1>5
<1>15. \A o \in Uids \ strays' : Where(placed')[o] = IF redo THEN after[o] ELSE before[o]
  BY <1>11, <1>12
<1> QED
  BY <1>1, <1>10, <1>13, <1>14, <1>15

LEMMA UndoObjects ==
    ASSUME CellsInv, ObjectsInv, Undo \/ Redo
    PROVE  ObjectsInv'
<1>1. /\ TypeOK /\ StackOk /\ NamesOk
      /\ ~running /\ ~running' /\ wasAt' = wasAt
  <2>1. TypeOK /\ StackOk /\ NamesOk
    BY DEF CellsInv, ObjectsInv
  <2>2. ~running /\ running' = running /\ UNCHANGED <<edits, past>>
    BY DEF Undo, Redo
  <2>3. ~running'
    BY <2>2, Zenon
  <2>4. wasAt' = wasAt
    BY <2>2 DEF past
  <2> QED
    BY <2>1, <2>2, <2>3, <2>4, Zenon
<1>2. /\ Len(stack) \in Nat /\ Len(stack) = Ended /\ DOMAIN stack = 1..Len(stack)
      /\ undone \in Nat /\ undone <= Len(stack) /\ Done = Len(stack) - undone
      /\ Len(wasAt) = Len(stack) + 1
  BY <1>1, CurIsAction DEF StackOk, TypeOK, Done
<1>3. PICK i \in DOMAIN stack, redo \in BOOLEAN :
        /\ Replay(i, redo)
        /\ i = IF redo THEN Done + 1 ELSE Done
        /\ undone' = IF redo THEN undone - 1 ELSE undone + 1
  <2>1. CASE Undo
    <3>1. Done \in DOMAIN stack /\ undone' = undone + 1
      BY <1>2, <2>1 DEF Undo
    <3>2. Replay(Done, FALSE)
      BY <2>1, Zenon DEF Undo, Done
    <3> QED
      BY <3>1, <3>2
  <2>2. CASE Redo
    <3>1. Done + 1 \in DOMAIN stack /\ undone' = undone - 1
      BY <1>2, <2>2 DEF Redo
    <3>2. Replay(Done + 1, TRUE)
      BY <2>2, Zenon DEF Redo, Done
    <3> QED
      BY <3>1, <3>2
  <2> QED
    BY <2>1, <2>2
<1> DEFINE before == wasAt[i]
           after == wasAt[i + 1]
<1>4. /\ Len(stack') = Len(stack)
      /\ \A j \in DOMAIN stack : stack'[j].short = stack[j].short
  BY <1>1, <1>3, ReplayTypes
<1>5. Ended' = Ended /\ Done' + 1 = IF redo THEN i + 1 ELSE i
  BY <1>1, <1>2, <1>3, <1>4 DEF Ended, Done
<1>6. \A o \in Uids \ strays : Agrees(stack[i], o, before[o], after[o], stack[i].short)
  BY <1>2, <1>3 DEF ObjectsInv, EntriesOk
<1>7. \A o \in Uids \ strays : Where(placed)[o] = IF redo THEN before[o] ELSE after[o]
  <2>1. \A o \in Uids \ strays : Where(placed)[o] = wasAt[Done + 1][o]
    BY <1>1 DEF ObjectsInv, ObjectsAreRestored
  <2> QED
    BY <1>2, <1>3, <2>1
<1> HIDE DEF before, after
<1>8. /\ NamesOk' /\ strays \subseteq strays'
      /\ \A p \in Uids : p >= nextUid' => p >= nextUid
      /\ \A o \in Uids \ strays' : Where(placed')[o] = IF redo THEN after[o] ELSE before[o]
      /\ \A j \in DOMAIN stack, o \in Uids \ strays' : \A b, c, s :
           Agrees(stack[j], o, b, c, s) => Agrees(stack'[j], o, b, c, s)
  BY <1>1, <1>3, <1>6, <1>7, ReplayObjects
<1>9. UnbornOk'
  BY <1>1, <1>8 DEF ObjectsInv, UnbornOk
<1>10. EntriesOk'
  <2> SUFFICES ASSUME NEW j \in 1..Ended, NEW o \in Uids \ strays'
               PROVE  Agrees(stack'[j], o, wasAt[j][o], wasAt[j + 1][o], stack[j].short)
    BY <1>1, <1>2, <1>4, <1>5 DEF EntriesOk
  <2>1. Agrees(stack[j], o, wasAt[j][o], wasAt[j + 1][o], stack[j].short)
    BY <1>8 DEF ObjectsInv, EntriesOk
  <2> QED
    BY <1>2, <1>8, <2>1
<1>11. RunningEntriesOk'
  BY <1>1, Zenon DEF RunningEntriesOk
<1>12. ObjectsAreRestored'
  <2>1. \A o \in Uids \ strays' : Where(placed')[o] = wasAt'[Done' + 1][o]
    BY <1>1, <1>5, <1>8 DEF before, after
  <2>2. ASSUME NEW o \in Uids \ strays', NEW u \in Uids, NEW v \in Uids,
               placed'[u] # None, placed'[v] # None, placed'[u].id = o, placed'[v].id = o
        PROVE  u = v
    <3>1. u \in NamesOf(o)' /\ v \in NamesOf(o)'
      BY <2>2 DEF NamesOf
    <3> QED
      BY <1>8, <3>1 DEF NamesOk
  <2> QED
    BY <2>1, <2>2 DEF ObjectsAreRestored
<1> QED
  BY <1>8, <1>9, <1>10, <1>11, <1>12 DEF ObjectsInv

-----------------------------------------------------------------------------

\* The invariant is inductive, for any cells, values, objects, limit and bounds:
\* the cells need nothing of the objects, the objects the shape of the stack.
THEOREM InvHolds == Spec => []IInv
<1>1. Init => IInv
  BY InitInv, InitObjects DEF IInv
<1>2. IInv /\ [Next]_vars => IInv'
  <2> SUFFICES ASSUME CellsInv, ObjectsInv, [Next]_vars PROVE CellsInv' /\ ObjectsInv'
    BY DEF IInv
  <2>1. CASE Next
    <3>1. CellsInv'
      BY <2>1, BeginInv, BeginHiddenInv, EndInv, EndHiddenInv, EditCellInv, EditsObjectsInv,
         UndoInv, PurgeInv DEF Next
    <3>2. ObjectsInv'
      BY <2>1, BeginObjects, HiddenObjects, EndObjects, EditCellObjects, AddObjects, MoveObjects,
         RemoveObjects, UndoObjects, PurgeObjects DEF Next
    <3> QED
      BY <3>1, <3>2
  <2>2. CASE UNCHANGED vars
    <3>1. CellsInv'
      BY <2>2 DEF vars, map, past, gaps, CellsInv, TypeOK, StackOk, ImagesOk, RunningOk,
         CellsAreRestored, Ended, Done, Cur
    <3>2. ObjectsInv'
      BY <2>2, SameObjects DEF vars, map, past, gaps
    <3> QED
      BY <3>1, <3>2
  <2> QED
    BY <2>1, <2>2
<1> QED
  BY <1>1, <1>2, PTL DEF Spec

\* Every variable keeps its type.
THEOREM TypeCorrect == Spec => []TypeOK
<1>1. IInv => TypeOK
  BY DEF IInv, CellsInv
<1> QED
  BY <1>1, InvHolds, PTL

\* However actions are begun, ended, cut short, undone, redone, dropped at the
\* limit and purged, the cells of the map are as the history says: undoing all
\* but the first k actions gives the map as it was when the kth ended.
THEOREM UndoRestores == Spec => []CellsAreRestored
<1>1. IInv => CellsAreRestored
  BY DEF IInv, CellsInv
<1> QED
  BY <1>1, InvHolds, PTL

\* And so are its objects, through all the uids they get on the way: each is once
\* where it was, or is gone, but for those an older action knows by a uid that
\* was given up, and those a move of which was cut short.
THEOREM UndoRestoresObjects == Spec => []ObjectsAreRestored
<1>1. IInv => ObjectsAreRestored
  BY DEF IInv, ObjectsInv
<1> QED
  BY <1>1, InvHolds, PTL
=============================================================================
