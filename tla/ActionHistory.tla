---------------------------- MODULE ActionHistory ----------------------------
(***************************************************************************)
(* The undo history: the stack of actions, the running one and the number  *)
(* of undone ones (ActionManager.cpp), and what an action records and      *)
(* puts back (Action.cpp).                                                 *)
(*                                                                         *)
(* A tool registers what it is about to change with the running action,    *)
(* which keeps the image from before the first change; finish() takes the  *)
(* image for redo.  A cell is one aspect of a chunk: its terrain, textures,*)
(* holes and so on, or an area trigger; all of them follow one scheme.     *)
(* (The vertex selection does too, but a redo without its image empties it *)
(* and is left out.)  Objects are named by their uids, and an object that  *)
(* undo or redo brings back is a new one with a new uid.  All of it is on  *)
(* the main thread.  The chunks an action points at are taken to stay      *)
(* loaded.                                                                 *)
(*                                                                         *)
(* was, wasAt, astray, strays and short are history variables: the code    *)
(* has no such state and no step depends on it.                            *)
(***************************************************************************)
EXTENDS Integers, Sequences, FiniteSets, Functions

CONSTANTS
    Cells,
    NoRedo,    \* cells finish() takes no image of
    Values,    \* of a cell
    Spots,     \* transforms of an object
    Loaded,    \* the spots of the objects there at the start
    Limit,     \* _limit, 30 in the code
    MaxUid,    \* bound: highest uid ever given
    MaxEdits,  \* bound: edits the user makes
    None

Uids == 1..MaxUid

ASSUME CellsAssumption == NoRedo \subseteq Cells /\ None \notin Values \cup Spots
ASSUME LoadedAssumption == Loaded \in Seq(Spots) /\ Len(Loaded) <= MaxUid
ASSUME BoundsAssumption == Limit \in Nat \ {0} /\ MaxUid \in Nat /\ MaxEdits \in Nat

VARIABLES
    cells,    \* the map: what is in every cell
    placed,   \* the object stored under a uid, or None
    nextUid,  \* the uid the next object gets
    stack,    \* _action_stack
    undone,   \* _undo_index
    running,  \* _cur_action is set: the last action of the stack
    edits,    \* how many edits were made
    was,      \* the cells before each finished action, and after the last
    wasAt,    \* likewise the spots of each object
    astray,   \* cells a gap of the history is known for
    strays    \* objects a gap of the history is known for

map == <<cells, placed, nextUid>>
past == <<was, wasAt>>
gaps == <<astray, strays>>
vars == <<map, stack, undone, running, edits, past, gaps>>

\* An object keeps the id it had first, however often it is brought back.
Instance == [id : Uids, spot : Spots]

\* What an action keeps of an object: where it was when the action added it,
\* before and after the action moved it, and when the action removed it.
\* _object_operations holds the tokens of those that are set, in this order.
Entry == {e \in [id : Uids, added : Spots \cup {None}, from : Spots \cup {None},
                 to : Spots \cup {None}, removed : Spots \cup {None}] :
            e.added # None \/ e.from # None \/ e.removed # None}

Image == [Cells -> Values \cup {None}]
Action == [hidden : BOOLEAN, short : BOOLEAN, pre : Image, post : Image,
           objs : [Uids -> Entry \cup {None}]]

ASSUME NoneAssumption == None \notin Instance \cup Entry

NoImage == [c \in Cells |-> None]
NoObjects == [u \in Uids |-> None]
Where(p) == [o \in Uids |-> {p[u].spot : u \in {v \in Uids : p[v] # None /\ p[v].id = o}}]

Init ==
    /\ cells \in [Cells -> Values]
    /\ placed = [u \in Uids |-> IF u <= Len(Loaded)
                                THEN [id |-> u, spot |-> Loaded[u]] ELSE None]
    /\ nextUid = Len(Loaded) + 1
    /\ stack = <<>> /\ undone = 0 /\ running = FALSE
    /\ edits = 0
    /\ was = <<cells>> /\ wasAt = <<Where(placed)>>
    /\ astray = {} /\ strays = {}

Cur == stack[Len(stack)]
SetCur(a) == stack' = [stack EXCEPT ![Len(stack)] = a]

-----------------------------------------------------------------------------
\* ActionManager: actions begin and end

\* How many actions are done and not undone, and the first of them that a new
\* action leaves on the stack.
Done == Len(stack) - undone
First == IF Done = Limit THEN 2 ELSE 1
NewAction == [hidden |-> FALSE, short |-> FALSE, pre |-> NoImage, post |-> NoImage,
              objs |-> NoObjects]

\* beginAction: the undone actions are dropped, and the oldest one at the limit.
\* While an action runs it hands that one back and changes nothing.
Begin ==
    /\ ~running
    /\ stack' = Append(SubSeq(stack, First, Done), NewAction)
    /\ undone' = 0
    /\ running' = TRUE
    /\ was' = SubSeq(was, First, Done + 1)
    /\ wasAt' = SubSeq(wasAt, First, Done + 1)
    /\ UNCHANGED <<map, edits, gaps>>

\* beginAction with eDO_NOT_WRITE_HISTORY, for a drag that turns the brush.
BeginHidden ==
    /\ ~running
    /\ stack' = Append(stack, [NewAction EXCEPT !.hidden = TRUE])
    /\ running' = TRUE
    /\ UNCHANGED <<map, undone, edits, past, gaps>>

\* The image for redo of an object: where it is now, unless it is gone.
Settled(a) ==
    [u \in Uids |->
        LET e == a.objs[u] IN
        IF e = None THEN None
        ELSE IF e.from = None THEN e
        ELSE [e EXCEPT !.to = IF placed[u] = None THEN e.from ELSE placed[u].spot]]

ImageOf(S) == [c \in Cells |-> IF c \in S THEN cells[c] ELSE None]
Registered(a) == {c \in Cells : a.pre[c] # None}

\* finish
FinishedObjects(a) == [a EXCEPT !.objs = Settled(a)]  \* mutant
Finished(a) ==
    [a EXCEPT !.post = ImageOf(Registered(a) \ NoRedo), !.objs = Settled(a)]

\* finish that runs out of memory on the way, with some of the images taken.
CutShort(a, S, objs) == [a EXCEPT !.short = TRUE, !.post = ImageOf(S), !.objs = objs]

Remember == was' = Append(was, cells) /\ wasAt' = Append(wasAt, Where(placed))

\* endAction, and endActionOnModalityMismatch when a key of the stroke is let go.
End ==
    /\ running /\ ~Cur.hidden
    /\ SetCur(Finished(Cur))
    /\ running' = FALSE
    /\ Remember
    /\ UNCHANGED <<map, undone, edits, gaps>>

\* endAction with a finish that throws: the action stays on the stack.
EndFails ==
    /\ running /\ ~Cur.hidden
    /\ \E S \in SUBSET (Registered(Cur) \ NoRedo), objs \in {Cur.objs, Settled(Cur)} :
           SetCur(CutShort(Cur, S, objs))
    /\ running' = FALSE
    /\ Remember
    /\ UNCHANGED <<map, undone, edits, gaps>>

\* The end of an action that does not go into the history.
EndHidden ==
    /\ running /\ Cur.hidden
    /\ stack' = SubSeq(stack, 1, Len(stack) - 1)
    /\ running' = FALSE
    /\ UNCHANGED <<map, undone, edits, past, gaps>>

-----------------------------------------------------------------------------
\* Tools: register the change, then make it

\* The registrators of chunks and of area triggers.  A stroke
\* begun while the brush is turned joins the hidden action.
WithLatest(a, c) == [a EXCEPT !.pre = [@ EXCEPT ![c] = cells[c]]]  \* mutant
WithPre(a, c) ==
    IF a.pre[c] # None THEN a ELSE [a EXCEPT !.pre = [@ EXCEPT ![c] = cells[c]]]

EditCell(c, v) ==
    /\ running /\ edits < MaxEdits
    /\ SetCur(WithPre(Cur, c))
    /\ cells' = [cells EXCEPT ![c] = v]
    /\ astray' = IF Cur.hidden THEN astray \cup {c} ELSE astray
    /\ edits' = edits + 1
    /\ UNCHANGED <<placed, nextUid, undone, running, past, strays>>

\* The entry of an object, a new one if the action has none.
EntryOf(a, u) ==
    IF a.objs[u] # None THEN a.objs[u]
    ELSE [id |-> placed[u].id, added |-> None, from |-> None, to |-> None, removed |-> None]
WithEntry(a, u, e) == [a EXCEPT !.objs = [@ EXCEPT ![u] = e]]

\* The tools whose brush is turned in a hidden action edit no objects.
EditsObjects ==
    /\ running /\ ~Cur.hidden /\ edits < MaxEdits
    /\ edits' = edits + 1
    /\ UNCHANGED <<cells, undone, running, past, gaps>>

\* registerObjectAdded, from add_model_instance and add_wmo_instance.
AddObject(s) ==
    /\ EditsObjects
    /\ nextUid \in Uids
    /\ placed' = [placed EXCEPT ![nextUid] = [id |-> nextUid, spot |-> s]]
    /\ SetCur(WithEntry(Cur, nextUid, [id |-> nextUid, added |-> s, from |-> None,
                                       to |-> None, removed |-> None]))
    /\ nextUid' = nextUid + 1

\* registerObjectTransformed: the first of an action's moves is recorded.
MoveObject(u, s) ==
    /\ EditsObjects
    /\ placed[u] # None
    /\ LET e == EntryOf(Cur, u)
       IN  SetCur(WithEntry(Cur, u, IF e.from # None THEN e ELSE [e EXCEPT !.from = placed[u].spot]))
    /\ placed' = [placed EXCEPT ![u] = [@ EXCEPT !.spot = s]]
    /\ UNCHANGED nextUid

\* registerObjectRemoved, from delete_instance.
RemoveObject(u) ==
    /\ EditsObjects
    /\ placed[u] # None
    /\ SetCur(WithEntry(Cur, u, [EntryOf(Cur, u) EXCEPT !.removed = placed[u].spot]))
    /\ placed' = [placed EXCEPT ![u] = None]
    /\ UNCHANGED nextUid

-----------------------------------------------------------------------------
\* Undo and redo

\* The objects an action names, and those of them its undo or redo brings back
\* and deletes.
Named(a) == {u \in Uids : a.objs[u] # None}
BroughtBack(a, redo) ==
    {u \in Named(a) : (IF redo THEN a.objs[u].added ELSE a.objs[u].removed) # None}
Deleted(a, redo) ==
    {u \in Named(a) : (IF redo THEN a.objs[u].removed ELSE a.objs[u].added) # None}

\* The objects whose transform cannot be put back, there being no such object
\* or no image.  The action has no further use of their operations.
Lost(a, redo) ==
    {u \in Named(a) :
        /\ a.objs[u].from # None
        /\ \/ redo /\ a.objs[u].to = None
           \/ u \notin BroughtBack(a, redo) /\ placed[u] = None}

\* Where undo or redo puts an object.
SpotOf(e, redo) ==
    IF redo THEN IF e.to # None THEN e.to ELSE e.added
    ELSE IF e.from # None THEN e.from ELSE e.removed

\* The uids the objects brought back get, in no certain order.
NewUids(S) == {f \in [S -> nextUid .. nextUid + Cardinality(S) - 1] : IsInjective(f)}

\* The references of the action itself follow an object to its new uid.
Holders(a, f, redo, k) ==
    {u \in Named(a) \ Lost(a, redo) : k = IF u \in DOMAIN f THEN f[u] ELSE u}
RenamedNever(a, f, redo) == a  \* mutant
Renamed(a, f, redo) ==
    [a EXCEPT !.objs = [k \in Uids |->
        IF Holders(a, f, redo, k) = {} THEN None
        ELSE a.objs[CHOOSE u \in Holders(a, f, redo, k) : TRUE]]]

\* handleObjectAdded, handleObjectRemoved and handleObjectTransformed.
PlacedAfter(a, f, redo) ==
    [k \in Uids |->
        IF \E u \in DOMAIN f : f[u] = k
        THEN LET u == CHOOSE w \in DOMAIN f : f[w] = k
             IN  IF u \in Deleted(a, redo) \ Lost(a, redo) THEN None
                 ELSE [id |-> a.objs[u].id, spot |-> SpotOf(a.objs[u], redo)]
        ELSE IF k \in Named(a) \ (DOMAIN f \cup Lost(a, redo))
        THEN IF k \in Deleted(a, redo) THEN None
             ELSE [placed[k] EXCEPT !.spot = SpotOf(a.objs[k], redo)]
        ELSE placed[k]]

\* Action::undo, for the action at index i of the stack.  The other actions
\* keep the uids they have: an object they know is a stray once it has a new one.
Replay(i, redo) ==
    LET a == stack[i] IN
    \E f \in NewUids(BroughtBack(a, redo)) :
        /\ nextUid + Cardinality(DOMAIN f) <= MaxUid + 1
        /\ nextUid' = nextUid + Cardinality(DOMAIN f)
        /\ placed' = PlacedAfter(a, f, redo)
        /\ stack' = [stack EXCEPT ![i] = Renamed(a, f, redo)]
        /\ strays' = strays
              \cup {a.objs[u].id : u \in {w \in DOMAIN f :
                      \E j \in DOMAIN stack \ {i} : w \in Named(stack[j])}}
              \cup IF a.short THEN {a.objs[u].id : u \in Lost(a, redo)} ELSE {}

Overwrite(image) == [c \in Cells |-> IF image[c] # None THEN image[c] ELSE cells[c]]

\* undo.  The menu and the shortcuts do nothing while an action runs.  The
\* navigator undoes or redoes several, one after the other.
Undo ==
    /\ ~running
    /\ undone < Len(stack)
    /\ LET i == Len(stack) - undone
       IN  /\ cells' = Overwrite(stack[i].pre)
           /\ Replay(i, FALSE)
    /\ undone' = undone + 1
    /\ UNCHANGED <<running, edits, past, astray>>

\* redo.  A cell without its image stays as it is.
Redo ==
    /\ ~running
    /\ undone > 0
    /\ LET i == Len(stack) - undone + 1
           a == stack[i]
       IN  /\ cells' = Overwrite(a.post)
           /\ Replay(i, TRUE)
           /\ astray' = astray \cup {c \in Registered(a) : a.short \/ c \in NoRedo}
    /\ undone' = undone - 1
    /\ UNCHANGED <<running, edits, past>>

\* purge: after a save that left nothing behind, or before an operation on a
\* whole map or tile that cannot be undone.
Purge ==
    /\ ~running
    /\ stack' = <<>> /\ undone' = 0
    /\ \/ UNCHANGED <<cells, edits>>
       \/ /\ edits < MaxEdits /\ edits' = edits + 1
          /\ \E c \in Cells, v \in Values : cells' = [cells EXCEPT ![c] = v]
    /\ was' = <<cells'>> /\ wasAt' = <<Where(placed)>>
    /\ astray' = {}
    /\ UNCHANGED <<placed, nextUid, running, strays>>

Next ==
    \/ Begin \/ BeginHidden \/ End \/ EndFails \/ EndHidden
    \/ \E c \in Cells, v \in Values : EditCell(c, v)
    \/ \E s \in Spots : AddObject(s)
    \/ \E u \in Uids, s \in Spots : MoveObject(u, s)
    \/ \E u \in Uids : RemoveObject(u)
    \/ Undo \/ Redo \/ Purge

Spec == Init /\ [][Next]_vars

-----------------------------------------------------------------------------
\* Properties

\* Types.
TypeOK ==
    /\ cells \in [Cells -> Values]
    /\ placed \in [Uids -> Instance \cup {None}]
    /\ nextUid \in 1..(MaxUid + 1)
    /\ stack \in Seq(Action)
    /\ undone \in Nat
    /\ running \in BOOLEAN
    /\ edits \in 0..MaxEdits
    /\ was \in Seq([Cells -> Values])
    /\ wasAt \in Seq([Uids -> SUBSET Spots])
    /\ astray \subseteq Cells
    /\ strays \subseteq Uids

\* The actions that have ended.
Ended == IF running THEN Len(stack) - 1 ELSE Len(stack)

\* The stack, the count of undone actions and the limit agree.
StackOk ==
    /\ Len(was) = Ended + 1 /\ Len(wasAt) = Ended + 1
    /\ running => stack # <<>>
    /\ undone <= Ended /\ Ended <= Limit
    /\ running /\ ~Cur.hidden => undone = 0 /\ Ended < Limit

\* The images an action has kept of a cell agree with the map before and after.
ImagesOk ==
    \A i \in 1..Ended, c \in Cells \ astray :
        LET a == stack[i] IN
        /\ IF a.pre[c] = None THEN was[i][c] = was[i + 1][c] ELSE a.pre[c] = was[i][c]
        /\ IF a.post[c] = None THEN a.pre[c] = None \/ a.short \/ c \in NoRedo
           ELSE a.post[c] = was[i + 1][c]

\* The same of the action that runs; a hidden one changes no cell that counts.
RunningOk ==
    running => \A c \in Cells \ astray :
        IF Cur.hidden THEN cells[c] = was[Done][c]
        ELSE IF Cur.pre[c] = None THEN cells[c] = was[Len(stack)][c]
        ELSE Cur.pre[c] = was[Len(stack)][c]

\* Whatever was undone, redone, dropped at the limit or begun anew, the map is
\* as it was when the last of the actions still done had ended, or before the
\* first of them began.  Left out are the cells changed in a hidden action and
\* those a redo had no image of.
CellsAreRestored ==
    ~running => \A c \in Cells \ astray : cells[c] = was[Done + 1][c]

\* The objects too are as they were, each there at most once, whatever uids they
\* have by now.  Left out are those that got a new uid while another action of
\* the stack names the old one, and those a redo had no image of.
ObjectsAreRestored ==
    ~running => \A o \in Uids \ strays :
        /\ Where(placed)[o] = wasAt[Done + 1][o]
        /\ \A u, v \in Uids : placed[u] # None /\ placed[v] # None
                              /\ placed[u].id = o /\ placed[v].id = o => u = v

\* The uids an object is known by: the one it is stored under, and those it has
\* in the entries of the actions.
NamesOf(o) ==
    {u \in Uids : \/ placed[u] # None /\ placed[u].id = o
                  \/ \E i \in DOMAIN stack : u \in Named(stack[i]) /\ stack[i].objs[u].id = o}

\* Uids and ids are given out once, a uid is no more than one object's, and an
\* object that is no stray has no more than one.
NamesOk ==
    \A o \in Uids :
        LET names == NamesOf(o)
        IN  /\ names # {} => o < nextUid
            /\ \A u \in names : u < nextUid
            /\ \A p \in Uids \ {o} : names \cap NamesOf(p) = {}
            /\ o \notin strays => \A u, v \in names : u = v

\* What has no id yet was nowhere.
UnbornOk == \A i \in DOMAIN wasAt, o \in Uids : o >= nextUid => wasAt[i][o] = {}

\* Where an object was before the action that has such an entry of it, and where
\* it is after it.
Before(e) == IF e.added # None THEN {}
             ELSE IF e.from # None THEN {e.from} ELSE {e.removed}
After(e) == IF e.removed # None THEN {}
            ELSE IF e.from # None THEN {e.to} ELSE {e.added}

\* An entry agrees with where the object was and where it went: of a move cut
\* short only where it began is known.
Tells(e, b, c, short) ==
    /\ Before(e) = b
    /\ e.removed # None <=> c = {}
    /\ e.from = None => e.to = None
    /\ IF e.from # None /\ e.to = None THEN short ELSE After(e) = c

\* An action tells the way of an object from b to c.
Agrees(a, o, b, c, short) ==
    /\ (\A u \in Named(a) : a.objs[u].id # o) => b = c
    /\ \A u \in Named(a) : a.objs[u].id = o => Tells(a.objs[u], b, c, short)

\* The entries of the actions that have ended agree with what was.
EntriesOk ==
    \A i \in 1..Ended : \A o \in Uids \ strays :
        Agrees(stack[i], o, wasAt[i][o], wasAt[i + 1][o], stack[i].short)

\* And those of the action that runs, with no place to go to yet; a hidden one
\* has none.
RunningEntriesOk ==
    running =>
        /\ \A u \in Named(Cur) : Cur.objs[u].to = None
        /\ \A o \in Uids \ strays :
             IF Cur.hidden THEN Where(placed)[o] = wasAt[Done][o]
             ELSE Agrees(Cur, o, wasAt[Len(stack)][o], Where(placed)[o], TRUE)

\* The inductive invariant, of the cells and of the objects.
CellsInv == TypeOK /\ StackOk /\ ImagesOk /\ RunningOk /\ CellsAreRestored
ObjectsInv == NamesOk /\ UnbornOk /\ EntriesOk /\ RunningEntriesOk /\ ObjectsAreRestored
IInv == CellsInv /\ ObjectsInv
=============================================================================
