------------------------- MODULE AsyncLoaderProofs -------------------------
(* Proofs about AsyncLoader, for every set of objects, workers and clients. *)
EXTENDS AsyncLoader, TLAPS

ST == INSTANCE SequenceTheorems

-----------------------------------------------------------------------------
(* Lemmas about the queues *)

(* Taking the head of a queue without repetitions removes that element only. *)
LEMMA TailRemovesHead ==
  ASSUME NEW S, NEW q \in Seq(S), q # <<>>, IsInjective(q)
  PROVE  /\ Tail(q) \in Seq(S) /\ Head(q) \in S
         /\ IsInjective(Tail(q))
         /\ Contains(q, Head(q))
         /\ \A o : Contains(Tail(q), o) <=> Contains(q, o) /\ o # Head(q)
  <1>1. Len(q) \in Nat /\ Len(q) > 0 /\ Head(q) = q[1] /\ DOMAIN q = 1..Len(q)
    OBVIOUS
  <1>2. /\ Tail(q) \in Seq(S) /\ Len(Tail(q)) = Len(q) - 1
        /\ \A i \in 1..(Len(q) - 1) : Tail(q)[i] = q[i + 1]
        /\ DOMAIN Tail(q) = 1..(Len(q) - 1)
    OBVIOUS
  <1>3. \A i, j \in 1..Len(q) : q[i] = q[j] => i = j
    BY <1>1 DEF IsInjective
  <1>4. IsInjective(Tail(q))
    BY <1>1, <1>2, <1>3 DEF IsInjective
  <1>5. Contains(q, Head(q))
    BY <1>1 DEF Contains
  <1>6. ASSUME NEW o, Contains(Tail(q), o) PROVE Contains(q, o) /\ o # Head(q)
    BY <1>1, <1>2, <1>3, <1>6 DEF Contains
  <1>7. ASSUME NEW o, Contains(q, o), o # Head(q) PROVE Contains(Tail(q), o)
    <2>1. PICK i \in 1..Len(q) : q[i] = o
      BY <1>7 DEF Contains
    <2>2. i - 1 \in 1..(Len(q) - 1) /\ Tail(q)[i - 1] = o
      BY <2>1, <1>1, <1>2, <1>7
    <2>. QED BY <2>2, <1>2 DEF Contains
  <1>. QED BY <1>1, <1>2, <1>4, <1>5, <1>6, <1>7

(* Queueing an element that is not in the queue adds that element only. *)
LEMMA AppendAddsLast ==
  ASSUME NEW S, NEW q \in Seq(S), NEW e \in S, IsInjective(q), ~Contains(q, e)
  PROVE  /\ Append(q, e) \in Seq(S)
         /\ IsInjective(Append(q, e))
         /\ \A o : Contains(Append(q, e), o) <=> Contains(q, o) \/ o = e
  <1>1. /\ Len(q) \in Nat /\ DOMAIN q = 1..Len(q)
        /\ Append(q, e) \in Seq(S) /\ Len(Append(q, e)) = Len(q) + 1
        /\ \A i \in 1..Len(q) : Append(q, e)[i] = q[i]
        /\ Append(q, e)[Len(q) + 1] = e
        /\ DOMAIN Append(q, e) = 1..(Len(q) + 1)
    OBVIOUS
  <1>2. \A i, j \in 1..Len(q) : q[i] = q[j] => i = j
    BY <1>1 DEF IsInjective
  <1>3. IsInjective(Append(q, e))
    <2>1. \A i \in 1..Len(q) : q[i] # e
      BY DEF Contains
    <2>2. \A i \in 1..(Len(q) + 1) : i = Len(q) + 1 \/ i \in 1..Len(q)
      BY <1>1
    <2>. QED BY <1>1, <1>2, <2>1, <2>2 DEF IsInjective
  <1>4. \A o : Contains(Append(q, e), o) <=> Contains(q, o) \/ o = e
    BY <1>1 DEF Contains
  <1>. QED BY <1>1, <1>3, <1>4

(* Erasing one position of a queue without repetitions removes the element
   there and no other. *)
LEMMA RemoveAtRemovesOne ==
  ASSUME NEW S, NEW q \in Seq(S), NEW i \in 1..Len(q), IsInjective(q)
  PROVE  /\ RemoveAt(q, i) \in Seq(S)
         /\ IsInjective(RemoveAt(q, i))
         /\ \A o : Contains(RemoveAt(q, i), o) <=> Contains(q, o) /\ o # q[i]
  <1>. DEFINE r == RemoveAt(q, i)
  <1>1. Len(q) \in Nat /\ i \in Nat /\ 1 <= i /\ i <= Len(q) /\ DOMAIN q = 1..Len(q)
    OBVIOUS
  <1>. DEFINE n == Len(q)
              a == SubSeq(q, 1, i - 1)
              b == SubSeq(q, i + 1, n)
  <1>2. /\ a \in Seq(S) /\ Len(a) = i - 1
        /\ \A j \in 1..(i - 1) : a[j] = q[j]
    <2>1. \A j \in 1..(i - 1) : q[j] \in S
      BY <1>1
    <2>. QED BY <1>1, <2>1, ST!SubSeqProperties
  <1>3. b \in Seq(S) /\ Len(b) = n - i /\ \A j \in 1..(n - i) : b[j] = q[i + j]
    <2>1. i + 1 \in Int /\ n \in Int /\ \A j \in (i + 1)..n : q[j] \in S
      BY <1>1
    <2>2. b \in Seq(S) /\ Len(b) = IF i + 1 <= n THEN n - (i + 1) + 1 ELSE 0
      BY <2>1, ST!SubSeqProperties
    <2>3. \A j \in 1..(n - (i + 1) + 1) : b[j] = q[i + 1 + j - 1]
      BY <2>1, ST!SubSeqProperties
    <2>. HIDE DEF b, n
    <2>4. n - (i + 1) + 1 = n - i /\ \A j \in 1..(n - i) : i + 1 + j - 1 = i + j
      BY <1>1 DEF n
    <2>5. Len(b) = n - i
      <3>1. n \in Nat /\ i \in Nat /\ i <= n
        BY <1>1 DEF n
      <3>2. (IF i + 1 <= n THEN n - (i + 1) + 1 ELSE 0) = n - i
        BY ONLY <3>1
      <3>. QED BY ONLY <2>2, <3>2
    <2>6. \A j \in 1..(n - i) : b[j] = q[i + j]
      BY <2>3, <2>4
    <2>. QED BY <2>2, <2>5, <2>6
  <1>4. /\ r \in Seq(S) /\ Len(r) = n - 1
        /\ \A j \in 1..(n - 1) : r[j] = IF j < i THEN q[j] ELSE q[j + 1]
    <2>1. r = a \o b
      BY DEF RemoveAt
    <2>. HIDE DEF r, a, b, n
    <2>2. r \in Seq(S) /\ Len(r) = Len(a) + Len(b)
      BY <1>2, <1>3, <2>1, ST!ConcatProperties
    <2>3. \A j \in 1..(Len(a) + Len(b)) : r[j] = IF j <= Len(a) THEN a[j] ELSE b[j - Len(a)]
      BY <1>2, <1>3, <2>1, ST!ConcatProperties
    <2>4. i - 1 + (n - i) = n - 1
      BY <1>1 DEF n
    <2>5. \A j \in 1..(n - 1) : r[j] = IF j <= i - 1 THEN a[j] ELSE b[j - (i - 1)]
      BY <1>2, <1>3, <2>3, <2>4
    <2>6. ASSUME NEW j \in 1..(n - 1), j < i PROVE r[j] = q[j]
      <3>1. j \in 1..(i - 1) /\ j <= i - 1
        BY <1>1, <2>6 DEF n
      <3>. QED BY <1>2, <2>5, <3>1
    <2>7. ASSUME NEW j \in 1..(n - 1), ~(j < i) PROVE r[j] = q[j + 1]
      <3>1. j - (i - 1) \in 1..(n - i) /\ ~(j <= i - 1) /\ i + (j - (i - 1)) = j + 1
        BY <1>1, <2>7 DEF n
      <3>. QED BY <1>3, <2>5, <3>1
    <2>. QED BY <1>2, <1>3, <2>2, <2>4, <2>6, <2>7
  <1>5. \A j, k \in 1..Len(q) : q[j] = q[k] => j = k
    BY <1>1 DEF IsInjective
  <1>6. IsInjective(r)
    BY <1>1, <1>4, <1>5 DEF IsInjective
  <1>7. ASSUME NEW o, Contains(r, o) PROVE Contains(q, o) /\ o # q[i]
    BY <1>1, <1>4, <1>5, <1>7 DEF Contains
  <1>8. ASSUME NEW o, Contains(q, o), o # q[i] PROVE Contains(r, o)
    <2>1. PICK k \in 1..Len(q) : q[k] = o
      BY <1>8 DEF Contains
    <2>2. CASE k < i
      BY <2>1, <2>2, <1>1, <1>4 DEF Contains
    <2>3. CASE k > i
      <3>1. k - 1 \in 1..(Len(q) - 1) /\ r[k - 1] = o
        BY <2>1, <2>3, <1>1, <1>4
      <3>. QED BY <3>1, <1>4 DEF Contains
    <2>. QED BY <2>1, <2>2, <2>3, <1>1, <1>8
  <1>. QED BY <1>4, <1>6, <1>7, <1>8

-----------------------------------------------------------------------------
(* Type correctness *)

(* Waking threads moves them to the location their wait loops back to. *)
LEMMA WokenTypes ==
  ASSUME TypeOK, NEW W
  PROVE  /\ WokenWorkers(W) \in [Workers -> WorkerLocations]
         /\ WokenClients(W) \in [Clients -> ClientLocations]
  BY DEF TypeOK, WokenWorkers, WokenClients, WorkerLocations, ClientLocations

(* Every step keeps every variable in its type. *)
LEMMA TypeStep == IInv /\ [Next]_vars => TypeOK'
  <1>. SUFFICES ASSUME IInv, [Next]_vars PROVE TypeOK'
    OBVIOUS
  <1>. TypeOK
    BY DEF IInv
  <1>. USE PriorityAssumption, ThreadAssumption, SubsetAssumption, BoundAssumption
       DEF TypeOK, Priorities, loaderVars, objectVars
  <1>1. ASSUME NEW w \in Workers, Take(w) PROVE TypeOK'
    <2>1. PICK p \in Priorities :
            /\ toLoad[p] # <<>>
            /\ wobj' = [wobj EXCEPT ![w] = Head(toLoad[p])]
            /\ loading' = loading \cup {Head(toLoad[p])}
            /\ toLoad' = [toLoad EXCEPT ![p] = Tail(toLoad[p])]
      BY <1>1 DEF Take
    <2>2. toLoad[p] \in Seq(Objects) /\ Head(toLoad[p]) \in Objects /\ Tail(toLoad[p]) \in Seq(Objects)
      BY <2>1
    <2>3. /\ toLoad' \in [Priorities -> Seq(Objects)]
          /\ loading' \subseteq Objects
          /\ wobj' \in [Workers -> Objects \cup {NoObject}]
      BY <2>1, <2>2
    <2>. QED BY <1>1, <2>3 DEF Take, WorkerLocations
  <1>2. ASSUME NEW w \in Workers, Sleep(w) \/ Exit(w) \/ FinishStore(w) \/ Fail(w) \/ FailReport(w)
        PROVE  TypeOK'
    BY <1>2 DEF Sleep, Exit, FinishStore, Fail, FailReport, WorkerLocations
  <1>3. ASSUME NEW w \in Workers, FinishNotify(w) \/ FailNotify(w) PROVE TypeOK'
    <2>1. cpc' \in [Clients -> ClientLocations]
      BY <1>3 DEF FinishNotify, FailNotify, WakeWaiters, ClientLocations
    <2>2. wpc' \in [Workers -> WorkerLocations]
      BY <1>3 DEF FinishNotify, FailNotify, WorkerLocations
    <2>. QED BY <1>3, <2>1, <2>2 DEF FinishNotify, FailNotify
  <1>4. ASSUME NEW w \in Workers, Report(w) PROVE TypeOK'
    <2>1. /\ WokenWorkers(LoaderSleepers) \in [Workers -> WorkerLocations]
          /\ WokenClients(LoaderSleepers) \in [Clients -> ClientLocations]
      BY WokenTypes
    <2>2. "idle" \in WorkerLocations
      BY DEF WorkerLocations
    <2>3. /\ wpc' \in [Workers -> WorkerLocations]
          /\ cpc' \in [Clients -> ClientLocations]
      BY <1>4, <2>1, <2>2 DEF Report
    <2>. QED BY <1>4, <2>3 DEF Report
  <1>5. ASSUME NEW t \in Workers \cup Clients, NEW o \in Objects, QueueForLoad(t, o) PROVE TypeOK'
    <2>1. toLoad' \in [Priorities -> Seq(Objects)]
      BY <1>5 DEF QueueForLoad
    <2>2. wpc' \in [Workers -> WorkerLocations] /\ cpc' \in [Clients -> ClientLocations]
      <3>1. CASE LoaderSleepers = {}
        BY <1>5, <3>1 DEF QueueForLoad, NotifyOne
      <3>2. CASE LoaderSleepers # {}
        <4>1. PICK s \in LoaderSleepers : wpc' = WokenWorkers({s}) /\ cpc' = WokenClients({s})
          BY <1>5, <3>2 DEF QueueForLoad, NotifyOne
        <4>. QED BY <4>1, WokenTypes
      <3>. QED BY <3>1, <3>2
    <2>3. created' \in 0..MaxCreated
      BY <1>5 DEF QueueForLoad
    <2>. QED BY <1>5, <2>1, <2>2, <2>3 DEF QueueForLoad
  <1>6. ASSUME NEW c \in Clients, EnsureUnqueue(c) PROVE TypeOK'
    <2>1. cobj[c] \in Objects /\ Priority[cobj[c]] \in Priorities
      BY <1>6 DEF EnsureUnqueue, IInv, ClientInv, Ensuring
    <2>2. PICK i \in 1..Len(QueueOf(cobj[c])) :
            toLoad' = [toLoad EXCEPT ![Priority[cobj[c]]] = RemoveAt(QueueOf(cobj[c]), i)]
      BY <1>6 DEF EnsureUnqueue
    <2>3. QueueOf(cobj[c]) \in Seq(Objects) /\ IsInjective(QueueOf(cobj[c]))
      BY <2>1 DEF QueueOf, IInv, QueueInv
    <2>4. toLoad' \in [Priorities -> Seq(Objects)]
      BY <2>1, <2>2, <2>3, RemoveAtRemovesOne
    <2>. QED BY <1>6, <2>4 DEF EnsureUnqueue, ClientLocations
  <1>7. ASSUME NEW c \in Clients,
               \/ WaitReturn(c) \/ WaitUnmet(c) \/ WaitSleep(c)
               \/ EnsureReturn(c) \/ EnsureSleep(c) \/ Delete(c) \/ SaveReset(c)
        PROVE  TypeOK'
    BY <1>7 DEF WaitReturn, WaitUnmet, WaitSleep, EnsureReturn, EnsureSleep, Delete, SaveReset,
                ClientLocations
  <1>8. ASSUME NEW c \in Clients, ClientCall(c) PROVE TypeOK'
    BY <1>8 DEF ClientCall, WaitUntilLoaded, EnsureDeletable, SaveCheck, ClientLocations
  <1>9. ASSUME Shutdown PROVE TypeOK'
    BY <1>9, WokenTypes DEF Shutdown
  <1>10. ASSUME UNCHANGED vars PROVE TypeOK'
    BY <1>10 DEF vars, threadVars
  <1>. QED BY <1>1, <1>2, <1>3, <1>4, <1>5, <1>6, <1>7, <1>8, <1>9, <1>10
           DEF Next, Process, ClientStep

-----------------------------------------------------------------------------
(* The parts of the inductive invariant, one lemma for what each step may do
   to one part *)

(* A notification moves threads out of the loader's wait and nothing else. *)
LEMMA WokenLocations ==
  ASSUME TypeOK, NEW W, W \subseteq LoaderSleepers
  PROVE  /\ \A w \in Workers : \/ WokenWorkers(W)[w] = wpc[w]
                               \/ wpc[w] = "asleep" /\ WokenWorkers(W)[w] = "idle"
         /\ \A c \in Clients : \/ WokenClients(W)[c] = cpc[c]
                               \/ cpc[c] = "ensureAsleep" /\ WokenClients(W)[c] = "ensuring"
  BY ThreadAssumption DEF TypeOK, LoaderSleepers, WokenWorkers, WokenClients

(* queue_for_load wakes at most one thread. *)
LEMMA NotifyOneLocations ==
  ASSUME TypeOK, NotifyOne
  PROVE  /\ \A w \in Workers : wpc'[w] = wpc[w] \/ (wpc[w] = "asleep" /\ wpc'[w] = "idle")
         /\ \A c \in Clients : cpc'[c] = cpc[c] \/ (cpc[c] = "ensureAsleep" /\ cpc'[c] = "ensuring")
  <1>1. CASE LoaderSleepers = {}
    <2>1. wpc' = wpc /\ cpc' = cpc
      BY <1>1 DEF NotifyOne
    <2>. QED BY <2>1
  <1>2. CASE LoaderSleepers # {}
    <2>1. PICK t \in LoaderSleepers : wpc' = WokenWorkers({t}) /\ cpc' = WokenClients({t})
      BY <1>2 DEF NotifyOne
    <2>2. /\ \A w \in Workers : WokenWorkers({t})[w] = wpc[w]
                \/ (wpc[w] = "asleep" /\ WokenWorkers({t})[w] = "idle")
          /\ \A c \in Clients : WokenClients({t})[c] = cpc[c]
                \/ (cpc[c] = "ensureAsleep" /\ WokenClients({t})[c] = "ensuring")
      <3>1. {t} \subseteq LoaderSleepers
        BY <2>1
      <3>. QED BY <3>1, WokenLocations, Zenon
    <2>. QED BY <2>1, <2>2, Zenon
  <1>. QED BY <1>1, <1>2

(* What a worker at work holds, in the form the other lemmas use. *)
LEMMA BusyFacts ==
  ASSUME IInv, NEW w \in Workers, wpc[w] \in Busy
  PROVE  /\ wobj[w] \in Objects /\ wobj[w] \in loading /\ wobj[w] \in alive
         /\ finished[wobj[w]] <=> wpc[w] # "loading"
         /\ \A v \in Workers : wobj[v] = wobj[w] => v = w
         /\ \A p \in Priorities : ~Contains(toLoad[p], wobj[w])
  BY ThreadAssumption DEF IInv, TypeOK, BusyInv, QueueInv

(* What is queued, taken, appended and erased keeps the queues in order. *)
LEMMA QueueStep == IInv /\ [Next]_vars => QueueInv'
  <1>. SUFFICES ASSUME IInv, [Next]_vars PROVE QueueInv'
    OBVIOUS
  <1>. TypeOK /\ QueueInv
    BY DEF IInv
  <1>. USE PriorityAssumption
  <1>1. ASSUME NEW w \in Workers, Take(w) PROVE QueueInv'
    <2>1. PICK p \in Priorities :
            /\ toLoad[p] # <<>>
            /\ loading' = loading \cup {Head(toLoad[p])}
            /\ toLoad' = [toLoad EXCEPT ![p] = Tail(toLoad[p])]
            /\ UNCHANGED <<alive, finished>>
      BY <1>1 DEF Take, objectVars
    <2>2. /\ toLoad[p] \in Seq(Objects) /\ IsInjective(toLoad[p])
          /\ IsInjective(Tail(toLoad[p])) /\ Head(toLoad[p]) \in Objects
          /\ Contains(toLoad[p], Head(toLoad[p]))
          /\ \A o : Contains(Tail(toLoad[p]), o) <=> Contains(toLoad[p], o) /\ o # Head(toLoad[p])
      BY <2>1, TailRemovesHead DEF TypeOK, QueueInv
    <2>3. ASSUME NEW q \in Priorities
          PROVE  /\ IsInjective(toLoad'[q])
                 /\ \A o \in Objects : Contains(toLoad'[q], o) =>
                      Contains(toLoad[q], o) /\ o # Head(toLoad[p])
      BY <2>1, <2>2 DEF TypeOK, QueueInv
    <2>. QED BY <2>1, <2>3 DEF QueueInv
  <1>2. ASSUME NEW w \in Workers, FinishStore(w) \/ Fail(w) PROVE QueueInv'
    <2>1. wpc[w] \in Busy
      BY <1>2 DEF FinishStore, Fail, Busy
    <2>2. UNCHANGED <<toLoad, loading, alive>> /\ finished' = [finished EXCEPT ![wobj[w]] = TRUE]
      BY <1>2 DEF FinishStore, Fail, loaderVars
    <2>3. \A p \in Priorities : ~Contains(toLoad[p], wobj[w])
      BY <2>1, BusyFacts
    <2>. QED BY <2>2, <2>3 DEF QueueInv, TypeOK
  <1>3. ASSUME NEW w \in Workers, Report(w) \/ FailReport(w) PROVE QueueInv'
    BY <1>3 DEF Report, FailReport, QueueInv, objectVars
  <1>4. ASSUME NEW t \in Workers \cup Clients, NEW o \in Objects, QueueForLoad(t, o) PROVE QueueInv'
    <2>1. o \notin alive /\ o \notin loading /\ \A p \in Priorities : ~Contains(toLoad[p], o)
      BY <1>4 DEF QueueForLoad, QueueInv, IInv, BusyInv
    <2>. DEFINE q == toLoad[Priority[o]]
    <2>2. /\ Priority[o] \in Priorities /\ q \in Seq(Objects) /\ IsInjective(q)
          /\ IsInjective(Append(q, o))
          /\ \A x : Contains(Append(q, o), x) <=> Contains(q, x) \/ x = o
      BY <2>1, AppendAddsLast DEF TypeOK, QueueInv
    <2>3. /\ toLoad' = [toLoad EXCEPT ![Priority[o]] = Append(q, o)]
          /\ loading' = loading /\ alive' = alive \cup {o}
          /\ finished' = [finished EXCEPT ![o] = FALSE]
      BY <1>4 DEF QueueForLoad
    <2>4. ASSUME NEW p \in Priorities
          PROVE  /\ IsInjective(toLoad'[p])
                 /\ \A x \in Objects : Contains(toLoad'[p], x) =>
                      Contains(toLoad[p], x) \/ (x = o /\ p = Priority[o])
      BY <2>2, <2>3 DEF TypeOK, QueueInv
    <2>5. ASSUME NEW p \in Priorities, NEW x \in Objects, Contains(toLoad'[p], x)
          PROVE  Priority[x] = p /\ x \in alive' /\ x \notin loading' /\ ~finished'[x]
      <3>1. CASE x = o
        BY <2>1, <2>3, <2>4, <2>5, <3>1 DEF TypeOK
      <3>2. CASE x # o
        BY <2>3, <2>4, <2>5, <3>2 DEF QueueInv, TypeOK
      <3>. QED BY <3>1, <3>2
    <2>. QED BY <2>4, <2>5 DEF QueueInv
  <1>5. ASSUME NEW c \in Clients, EnsureUnqueue(c) PROVE QueueInv'
    <2>. DEFINE p == Priority[cobj[c]]
    <2>1. cobj[c] \in Objects /\ p \in Priorities
      BY <1>5 DEF EnsureUnqueue, IInv, ClientInv, Ensuring, TypeOK
    <2>2. PICK i \in 1..Len(toLoad[p]) : toLoad' = [toLoad EXCEPT ![p] = RemoveAt(toLoad[p], i)]
      BY <1>5 DEF EnsureUnqueue, QueueOf
    <2>3. /\ IsInjective(RemoveAt(toLoad[p], i))
          /\ \A o : Contains(RemoveAt(toLoad[p], i), o) => Contains(toLoad[p], o)
      BY <2>1, RemoveAtRemovesOne DEF TypeOK, QueueInv
    <2>4. UNCHANGED <<loading, alive, finished>>
      BY <1>5 DEF EnsureUnqueue, objectVars
    <2>. QED BY <2>1, <2>2, <2>3, <2>4 DEF QueueInv, TypeOK
  <1>6. ASSUME NEW c \in Clients, Delete(c) PROVE QueueInv'
    <2>1. \A p \in Priorities : ~Contains(toLoad[p], cobj[c])
      BY <1>6 DEF Delete, IInv, DeletableIsReleased, IsQueued, QueueOf, QueueInv, TypeOK
    <2>. QED BY <1>6, <2>1 DEF Delete, QueueInv, loaderVars
  <1>7. ASSUME UNCHANGED <<toLoad, loading, alive, finished>> PROVE QueueInv'
    BY <1>7 DEF QueueInv
  <1>8. ASSUME NEW w \in Workers, Sleep(w) \/ Exit(w) \/ FinishNotify(w) \/ FailNotify(w)
        PROVE  UNCHANGED <<toLoad, loading, alive, finished>>
    BY <1>8 DEF Sleep, Exit, FinishNotify, FailNotify, loaderVars, objectVars
  <1>9. ASSUME NEW c \in Clients,
               \/ WaitReturn(c) \/ WaitUnmet(c) \/ WaitSleep(c)
               \/ EnsureReturn(c) \/ EnsureSleep(c) \/ SaveReset(c) \/ ClientCall(c)
        PROVE  UNCHANGED <<toLoad, loading, alive, finished>>
    BY <1>9 DEF WaitReturn, WaitUnmet, WaitSleep, EnsureReturn, EnsureSleep, SaveReset, ClientCall,
                WaitUntilLoaded, EnsureDeletable, SaveCheck, loaderVars, objectVars
  <1>10. Shutdown \/ UNCHANGED vars => UNCHANGED <<toLoad, loading, alive, finished>>
    BY DEF Shutdown, vars, loaderVars, objectVars
  <1>. QED BY <1>1, <1>2, <1>3, <1>4, <1>5, <1>6, <1>7, <1>8, <1>9, <1>10
           DEF Next, Process, ClientStep

(* What a step does to the part of the workers' state that the invariant is
   about, when it neither gives an object to a worker nor takes one from it. *)
LEMMA BusyFrame ==
  ASSUME IInv, UNCHANGED <<loading, wobj>>,
         \A w \in Workers : wpc'[w] = wpc[w] \/ (wpc[w] \notin Busy /\ wpc'[w] \notin Busy),
         loading \subseteq alive', \A o \in loading : finished'[o] = finished[o]
  PROVE  BusyInv'
  BY DEF IInv, BusyInv

(* _currently_loading stays what the workers hold. *)
LEMMA BusyStep == IInv /\ [Next]_vars => BusyInv'
  <1>. SUFFICES ASSUME IInv, [Next]_vars PROVE BusyInv'
    OBVIOUS
  <1>. TypeOK /\ BusyInv
    BY DEF IInv
  <1>. USE ThreadAssumption
  <1>1. ASSUME NEW w \in Workers, Take(w) PROVE BusyInv'
    <2>1. PICK p \in Priorities :
            /\ toLoad[p] # <<>>
            /\ wobj' = [wobj EXCEPT ![w] = Head(toLoad[p])]
            /\ loading' = loading \cup {Head(toLoad[p])}
      BY <1>1 DEF Take
    <2>. DEFINE o == Head(toLoad[p])
    <2>2. o \in Objects /\ Contains(toLoad[p], o)
      BY <2>1, TailRemovesHead DEF TypeOK, IInv, QueueInv
    <2>3. o \in alive /\ o \notin loading /\ ~finished[o]
      BY <2>2 DEF IInv, QueueInv
    <2>4. wpc[w] \notin Busy /\ wpc' = [wpc EXCEPT ![w] = "loading"] /\ "loading" \in Busy
          /\ UNCHANGED <<alive, finished>>
      BY <1>1 DEF Take, Busy, objectVars
    <2>5. /\ wpc'[w] = "loading" /\ wobj'[w] = o
          /\ \A v \in Workers : v # w => wpc'[v] = wpc[v] /\ wobj'[v] = wobj[v]
      BY <2>1, <2>4 DEF TypeOK
    <2>. HIDE DEF o
    <2>6. loading' \subseteq alive'
      BY <2>1, <2>3, <2>4 DEF BusyInv, o
    <2>7. \A x \in loading' : \E v \in Workers : wpc'[v] \in Busy /\ wobj'[v] = x
      BY <2>1, <2>4, <2>5 DEF BusyInv, o
    <2>8. \A v \in Workers : v # w /\ wpc[v] \in Busy => wobj[v] \in loading /\ wobj[v] # o
      BY <2>3 DEF BusyInv
    <2>9. \A v \in Workers : v # w /\ wpc[v] \notin Busy => wobj[v] = NoObject
      BY DEF BusyInv
    <2>10. ASSUME NEW v \in Workers
           PROVE  IF wpc'[v] \in Busy
                  THEN /\ wobj'[v] \in loading'
                       /\ finished'[wobj'[v]] <=> wpc'[v] # "loading"
                       /\ \A u \in Workers : wpc'[u] \in Busy /\ wobj'[u] = wobj'[v] => u = v
                  ELSE wobj'[v] = NoObject
      <3>1. CASE v = w
        <4>1. o \in loading' /\ \A u \in Workers : u # w => wobj[u] # o
          BY <2>1, <2>2, <2>8, <2>9 DEF o
        <4>. QED BY <2>3, <2>4, <2>5, <3>1, <4>1
      <3>2. CASE v # w
        <4>1. wpc'[v] = wpc[v] /\ wobj'[v] = wobj[v] /\ finished' = finished /\ loading \subseteq loading'
          BY <2>1, <2>4, <2>5, <3>2
        <4>2. CASE wpc[v] \in Busy
          BY <2>4, <2>5, <2>8, <3>2, <4>1, <4>2 DEF BusyInv
        <4>3. CASE wpc[v] \notin Busy
          BY <2>9, <3>2, <4>1, <4>3
        <4>. QED BY <4>2, <4>3
      <3>. QED BY <3>1, <3>2
    <2>. QED BY <2>6, <2>7, <2>10 DEF BusyInv
  <1>2. ASSUME NEW w \in Workers, FinishStore(w) \/ Fail(w) PROVE BusyInv'
    <2>1. /\ wpc[w] = "loading" /\ UNCHANGED <<loading, alive, wobj>>
          /\ finished' = [finished EXCEPT ![wobj[w]] = TRUE]
          /\ \E l \in {"finishing", "failing"} : wpc' = [wpc EXCEPT ![w] = l]
      BY <1>2 DEF FinishStore, Fail, loaderVars
    <2>2. /\ wpc[w] \in Busy /\ wpc'[w] \in Busy /\ wpc'[w] # "loading"
          /\ \A v \in Workers : v # w => wpc'[v] = wpc[v]
      BY <2>1 DEF TypeOK, Busy
    <2>3. wobj[w] \in Objects /\ \A v \in Workers : v # w => wobj[v] # wobj[w]
      BY <2>2, BusyFacts
    <2>4. \A v \in Workers : wpc'[v] \in Busy <=> wpc[v] \in Busy
      BY <2>2
    <2>5. /\ finished'[wobj[w]]
          /\ \A v \in Workers : v # w /\ wpc[v] \in Busy => finished'[wobj[v]] = finished[wobj[v]]
      <3>1. finished \in [Objects -> BOOLEAN] /\ loading \subseteq Objects
            /\ \A v \in Workers : wpc[v] \in Busy => wobj[v] \in loading
        BY DEF TypeOK, BusyInv
      <3>. QED BY <2>1, <2>3, <3>1
    <2>. QED BY <2>1, <2>2, <2>3, <2>4, <2>5 DEF BusyInv
  <1>3. ASSUME NEW w \in Workers, FinishNotify(w) \/ FailNotify(w) PROVE BusyInv'
    <2>1. /\ UNCHANGED <<loading, alive, wobj, finished>>
          /\ wpc[w] \in {"finishing", "failing"}
          /\ \E l \in {"reporting", "excusing"} : wpc' = [wpc EXCEPT ![w] = l]
      BY <1>3 DEF FinishNotify, FailNotify, loaderVars, objectVars
    <2>2. \A v \in Workers : /\ wpc'[v] \in Busy <=> wpc[v] \in Busy
                             /\ wpc'[v] = "loading" <=> wpc[v] = "loading"
      BY <2>1 DEF TypeOK, Busy
    <2>. QED BY <2>1, <2>2 DEF BusyInv
  <1>4. ASSUME NEW w \in Workers, Report(w) \/ FailReport(w) PROVE BusyInv'
    <2>1. /\ UNCHANGED <<alive, finished>> /\ wpc[w] \in Busy
          /\ loading' = loading \ {wobj[w]} /\ wobj' = [wobj EXCEPT ![w] = NoObject]
      BY <1>4 DEF Report, FailReport, objectVars, Busy
    <2>2. wpc'[w] = "idle"
          /\ \A v \in Workers : v # w =>
               wpc'[v] = wpc[v] \/ (wpc[v] = "asleep" /\ wpc'[v] = "idle")
      <3>1. CASE Report(w)
        <4>1. wpc' = [WokenWorkers(LoaderSleepers) EXCEPT ![w] = "idle"]
          BY <3>1 DEF Report
        <4>. QED BY <4>1, WokenTypes, WokenLocations
      <3>2. CASE FailReport(w)
        BY <3>2 DEF FailReport, TypeOK
      <3>. QED BY <1>4, <3>1, <3>2
    <2>3. \A v \in Workers : v # w => (wpc'[v] \in Busy <=> wpc[v] \in Busy)
                                       /\ (wpc'[v] \in Busy => wpc'[v] = wpc[v])
      BY <2>2 DEF Busy
    <2>4. /\ wpc'[w] \notin Busy /\ wobj'[w] = NoObject
          /\ \A v \in Workers : v # w => wobj'[v] = wobj[v]
      BY <2>1, <2>2 DEF Busy, TypeOK
    <2>5. \A v \in Workers : v # w => wobj[v] # wobj[w]
      BY <2>1, BusyFacts
    <2>6. loading' \subseteq alive'
          /\ \A x \in loading' : \E v \in Workers : v # w /\ wpc[v] \in Busy /\ wobj[v] = x
      BY <2>1 DEF BusyInv
    <2>7. \A x \in loading' : \E v \in Workers : wpc'[v] \in Busy /\ wobj'[v] = x
      BY <2>3, <2>4, <2>6
    <2>8. ASSUME NEW v \in Workers, v # w
          PROVE  IF wpc'[v] \in Busy
                 THEN /\ wobj'[v] \in loading'
                      /\ finished'[wobj'[v]] <=> wpc'[v] # "loading"
                      /\ \A u \in Workers : wpc'[u] \in Busy /\ wobj'[u] = wobj'[v] => u = v
                 ELSE wobj'[v] = NoObject
      <3>1. CASE wpc[v] \in Busy
        BY <2>1, <2>3, <2>4, <2>5, <2>8, <3>1 DEF BusyInv
      <3>2. CASE wpc[v] \notin Busy
        BY <2>3, <2>4, <2>8, <3>2 DEF BusyInv
      <3>. QED BY <3>1, <3>2
    <2>. QED BY <2>4, <2>6, <2>7, <2>8 DEF BusyInv
  <1>5. ASSUME NEW t \in Workers \cup Clients, NEW o \in Objects, QueueForLoad(t, o) PROVE BusyInv'
    <2>1. /\ UNCHANGED <<loading, wobj>> /\ alive' = alive \cup {o} /\ o \notin alive
          /\ finished' = [finished EXCEPT ![o] = FALSE] /\ NotifyOne
      BY <1>5 DEF QueueForLoad
    <2>2. \A w \in Workers : wpc'[w] = wpc[w] \/ (wpc[w] \notin Busy /\ wpc'[w] \notin Busy)
      BY <2>1, NotifyOneLocations DEF Busy
    <2>3. loading \subseteq alive' /\ \A x \in loading : finished'[x] = finished[x]
      <3>1. finished \in [Objects -> BOOLEAN] /\ loading \subseteq Objects /\ loading \subseteq alive
        BY DEF TypeOK, BusyInv
      <3>. QED BY <2>1, <3>1
    <2>. QED BY <2>1, <2>2, <2>3, BusyFrame
  <1>6. ASSUME NEW w \in Workers, Sleep(w) \/ Exit(w) PROVE BusyInv'
    <2>1. /\ UNCHANGED <<loading, wobj, alive, finished>> /\ wpc[w] = "idle"
          /\ \E l \in {"asleep", "exited"} : wpc' = [wpc EXCEPT ![w] = l]
      BY <1>6 DEF Sleep, Exit, loaderVars, objectVars
    <2>2. \A v \in Workers : wpc'[v] = wpc[v] \/ (wpc[v] \notin Busy /\ wpc'[v] \notin Busy)
      BY <2>1 DEF TypeOK, Busy
    <2>. QED BY <2>1, <2>2, BusyFrame DEF BusyInv
  <1>7. ASSUME Shutdown PROVE BusyInv'
    <2>1. /\ UNCHANGED <<loading, wobj, alive, finished>> /\ wpc' = WokenWorkers(LoaderSleepers)
      BY <1>7 DEF Shutdown, objectVars
    <2>2. \A v \in Workers : wpc'[v] = wpc[v] \/ (wpc[v] \notin Busy /\ wpc'[v] \notin Busy)
      BY <2>1, WokenLocations DEF Busy
    <2>. QED BY <2>1, <2>2, BusyFrame DEF BusyInv
  <1>8. ASSUME NEW c \in Clients, Delete(c) PROVE BusyInv'
    <2>1. UNCHANGED <<loading, wobj, wpc, finished>> /\ alive' = alive \ {cobj[c]} /\ cpc[c] = "deletable"
      BY <1>8 DEF Delete, loaderVars
    <2>2. cobj[c] \notin loading
      BY <2>1 DEF IInv, DeletableIsReleased, BusyInv
    <2>. QED BY <2>1, <2>2, BusyFrame DEF BusyInv
  <1>9. ASSUME UNCHANGED <<loading, wobj, wpc, alive, finished>> PROVE BusyInv'
    BY <1>9, BusyFrame DEF BusyInv
  <1>10. ASSUME NEW c \in Clients,
                \/ WaitReturn(c) \/ WaitUnmet(c) \/ WaitSleep(c) \/ EnsureUnqueue(c)
                \/ EnsureReturn(c) \/ EnsureSleep(c) \/ SaveReset(c) \/ ClientCall(c)
         PROVE  UNCHANGED <<loading, wobj, wpc, alive, finished>>
    BY <1>10 DEF WaitReturn, WaitUnmet, WaitSleep, EnsureUnqueue, EnsureReturn, EnsureSleep,
                 SaveReset, ClientCall, WaitUntilLoaded, EnsureDeletable, SaveCheck,
                 loaderVars, objectVars
  <1>11. UNCHANGED vars => UNCHANGED <<loading, wobj, wpc, alive, finished>>
    BY DEF vars, loaderVars, objectVars, threadVars
  <1>. QED BY <1>1, <1>2, <1>3, <1>4, <1>5, <1>6, <1>7, <1>8, <1>9, <1>10, <1>11
           DEF Next, Process, ClientStep

(* _guard is taken and given back by the handlers only. *)
LEMMA GuardStep == IInv /\ [Next]_vars => GuardInv'
  <1>. SUFFICES ASSUME IInv, [Next]_vars PROVE GuardInv'
    OBVIOUS
  <1>. TypeOK /\ GuardInv
    BY DEF IInv
  <1>. DEFINE H == {"failing", "excusing"}
  <1>. USE ThreadAssumption
  <1>1. ASSUME guard' = guard, \A w \in Workers : wpc'[w] = wpc[w] \/ (wpc[w] \notin H /\ wpc'[w] \notin H)
        PROVE  GuardInv'
    BY <1>1 DEF GuardInv
  <1>2. ASSUME NEW w \in Workers,
               Take(w) \/ Sleep(w) \/ Exit(w) \/ FinishStore(w) \/ FinishNotify(w)
        PROVE  GuardInv'
    <2>1. guard' = guard /\ wpc[w] \notin H
          /\ \E l \in {"loading", "asleep", "exited", "finishing", "reporting"} :
               wpc' = [wpc EXCEPT ![w] = l]
      BY <1>2 DEF Take, Sleep, Exit, FinishStore, FinishNotify, loaderVars
    <2>. QED BY <1>1, <2>1 DEF TypeOK
  <1>3. ASSUME NEW w \in Workers, Report(w) PROVE GuardInv'
    <2>1. guard' = guard /\ wpc[w] = "reporting"
          /\ wpc' = [WokenWorkers(LoaderSleepers) EXCEPT ![w] = "idle"]
      BY <1>3 DEF Report
    <2>2. \A v \in Workers : v # w => wpc'[v] = wpc[v] \/ (wpc[v] = "asleep" /\ wpc'[v] = "idle")
      BY <2>1, WokenTypes, WokenLocations
    <2>3. wpc'[w] = "idle"
      BY <2>1, WokenTypes
    <2>. QED BY <1>1, <2>1, <2>2, <2>3
  <1>4. ASSUME NEW w \in Workers, Fail(w) PROVE GuardInv'
    BY <1>4 DEF Fail, GuardInv, TypeOK
  <1>5. ASSUME NEW w \in Workers, FailNotify(w) PROVE GuardInv'
    <2>1. guard' = guard /\ wpc[w] = "failing" /\ wpc' = [wpc EXCEPT ![w] = "excusing"]
      BY <1>5 DEF FailNotify, loaderVars
    <2>. QED BY <2>1 DEF GuardInv, TypeOK
  <1>6. ASSUME NEW w \in Workers, FailReport(w) PROVE GuardInv'
    <2>1. guard' = NoThread /\ wpc[w] = "excusing" /\ wpc' = [wpc EXCEPT ![w] = "idle"]
      BY <1>6 DEF FailReport
    <2>2. guard = w
      BY <2>1 DEF GuardInv
    <2>. QED BY <2>1, <2>2 DEF GuardInv, TypeOK
  <1>7. ASSUME NEW t \in Workers \cup Clients, NEW o \in Objects, QueueForLoad(t, o) PROVE GuardInv'
    <2>1. guard' = guard /\ NotifyOne
      BY <1>7 DEF QueueForLoad
    <2>. QED BY <1>1, <2>1, NotifyOneLocations
  <1>8. ASSUME Shutdown PROVE GuardInv'
    <2>1. guard' = guard /\ wpc' = WokenWorkers(LoaderSleepers)
      BY <1>8 DEF Shutdown
    <2>. QED BY <1>1, <2>1, WokenLocations
  <1>9. ASSUME NEW c \in Clients, ClientStep(c) \/ ClientCall(c) PROVE guard' = guard /\ wpc' = wpc
    BY <1>9 DEF ClientStep, WaitReturn, WaitUnmet, WaitSleep, EnsureUnqueue, EnsureReturn,
                EnsureSleep, Delete, SaveReset, ClientCall, WaitUntilLoaded, EnsureDeletable,
                SaveCheck, loaderVars
  <1>10. UNCHANGED vars => guard' = guard /\ wpc' = wpc
    BY DEF vars, loaderVars, threadVars
  <1>. QED BY <1>1, <1>2, <1>3, <1>4, <1>5, <1>6, <1>7, <1>8, <1>9, <1>10 DEF Next, Process

(* A step that leaves every client in the same kind of call keeps ClientInv. *)
LEMMA ClientFrame ==
  ASSUME IInv, cobj' = cobj, alive \subseteq alive',
         \A c \in Clients : /\ cpc'[c] \in Ensuring <=> cpc[c] \in Ensuring
                            /\ cpc'[c] \in Waiting <=> cpc[c] \in Waiting
  PROVE  ClientInv'
  BY DEF IInv, ClientInv

(* Nobody uses an object whose owner is deleting it. *)
LEMMA ClientsStep == IInv /\ [Next]_vars => ClientInv'
  <1>. SUFFICES ASSUME IInv, [Next]_vars PROVE ClientInv'
    OBVIOUS
  <1>. TypeOK /\ ClientInv
    BY DEF IInv
  <1>. USE ThreadAssumption
  <1>1. ASSUME NEW w \in Workers,
               Take(w) \/ Sleep(w) \/ Exit(w) \/ FinishStore(w) \/ Fail(w) \/ FailReport(w)
        PROVE  UNCHANGED <<cpc, cobj, alive>>
    BY <1>1 DEF Take, Sleep, Exit, FinishStore, Fail, FailReport, objectVars
  <1>2. ASSUME NEW w \in Workers, FinishNotify(w) \/ FailNotify(w) PROVE ClientInv'
    <2>1. UNCHANGED <<cobj, alive>> /\ WakeWaiters(wobj[w])
      BY <1>2 DEF FinishNotify, FailNotify, objectVars
    <2>2. \A c \in Clients : cpc'[c] = cpc[c] \/ (cpc[c] = "waitAsleep" /\ cpc'[c] = "waiting")
      BY <2>1 DEF WakeWaiters, ObjectSleepers, TypeOK
    <2>. QED BY <2>1, <2>2, ClientFrame DEF Ensuring, Waiting
  <1>3. ASSUME NEW w \in Workers, Report(w) PROVE ClientInv'
    <2>1. UNCHANGED <<cobj, alive>> /\ cpc' = WokenClients(LoaderSleepers)
      BY <1>3 DEF Report, objectVars
    <2>2. \A c \in Clients : cpc'[c] = cpc[c] \/ (cpc[c] = "ensureAsleep" /\ cpc'[c] = "ensuring")
      BY <2>1, WokenLocations
    <2>. QED BY <2>1, <2>2, ClientFrame DEF Ensuring, Waiting
  <1>4. ASSUME NEW t \in Workers \cup Clients, NEW o \in Objects, QueueForLoad(t, o) PROVE ClientInv'
    <2>1. cobj' = cobj /\ alive' = alive \cup {o} /\ NotifyOne
      BY <1>4 DEF QueueForLoad
    <2>2. \A c \in Clients : cpc'[c] = cpc[c] \/ (cpc[c] = "ensureAsleep" /\ cpc'[c] = "ensuring")
      BY <2>1, NotifyOneLocations
    <2>. QED BY <2>1, <2>2, ClientFrame DEF Ensuring, Waiting
  <1>5. ASSUME NEW c \in Clients, WaitUnmet(c) \/ WaitSleep(c) \/ EnsureUnqueue(c)
                                  \/ EnsureReturn(c) \/ EnsureSleep(c)
        PROVE  ClientInv'
    <2>1. /\ UNCHANGED <<cobj, alive>>
          /\ \/ /\ cpc[c] \in Waiting
                /\ \E l \in Waiting : cpc' = [cpc EXCEPT ![c] = l]
             \/ /\ cpc[c] \in Ensuring
                /\ \E l \in Ensuring : cpc' = [cpc EXCEPT ![c] = l]
      BY <1>5 DEF WaitUnmet, WaitSleep, EnsureUnqueue, EnsureReturn, EnsureSleep, Waiting, Ensuring,
                  objectVars
    <2>. QED BY <2>1, ClientFrame DEF Ensuring, Waiting, TypeOK
  <1>6. ASSUME NEW c \in Clients, WaitReturn(c) \/ Delete(c) PROVE ClientInv'
    <2>1. /\ cobj' = [cobj EXCEPT ![c] = NoObject] /\ cpc' = [cpc EXCEPT ![c] = "idle"]
          /\ \/ alive' = alive
             \/ cpc[c] \in Ensuring /\ alive' = alive \ {cobj[c]}
      BY <1>6 DEF WaitReturn, Delete, objectVars, Ensuring
    <2>2. /\ cobj'[c] = NoObject /\ cpc'[c] = "idle" /\ "idle" \notin Ensuring \cup Waiting
          /\ \A d \in Clients : d # c => cobj'[d] = cobj[d] /\ cpc'[d] = cpc[d]
      BY <2>1 DEF TypeOK, Ensuring, Waiting
    <2>3. \A d \in Clients : d # c /\ cpc[d] \in Ensuring \cup Waiting => cobj[d] \in alive'
      BY <2>1 DEF ClientInv
    <2>4. NoObject \notin alive
      BY DEF TypeOK
    <2>. QED BY <2>2, <2>3, <2>4 DEF ClientInv
  <1>7. ASSUME NEW c \in Clients, NEW o \in Objects, WaitUntilLoaded(c, o) \/ EnsureDeletable(c, o)
        PROVE  ClientInv'
    <2>1. /\ cobj' = [cobj EXCEPT ![c] = o] /\ alive' = alive /\ o \in alive /\ cpc[c] = "idle"
          /\ \/ ~Using(o) /\ cpc' = [cpc EXCEPT ![c] = "ensuring"]
             \/ ~Deleting(o) /\ cpc' = [cpc EXCEPT ![c] = "waiting"]
      BY <1>7 DEF WaitUntilLoaded, EnsureDeletable, objectVars
    <2>2. /\ cobj'[c] = o
          /\ \A d \in Clients : d # c => cobj'[d] = cobj[d] /\ cpc'[d] = cpc[d]
          /\ \/ ~Using(o) /\ cpc'[c] = "ensuring"
             \/ ~Deleting(o) /\ cpc'[c] = "waiting"
      BY <2>1 DEF TypeOK
    <2>3. \A d \in Clients : d # c /\ cpc[d] \in Ensuring => cobj[d] # o
      BY <2>2 DEF Using, Deleting, Ensuring
    <2>4. cpc'[c] \in Ensuring => \A d \in Clients : d # c => cobj[d] # o
      BY <2>2 DEF Using, Ensuring
    <2>. QED BY <2>1, <2>2, <2>3, <2>4 DEF ClientInv, Ensuring, Waiting
  <1>8. ASSUME NEW c \in Clients, SaveCheck(c) \/ SaveReset(c) PROVE ClientInv'
    <2>1. /\ UNCHANGED <<cobj, alive>>
          /\ \/ cpc' = cpc
             \/ cpc[c] \notin Ensuring \cup Waiting /\ cpc' = [cpc EXCEPT ![c] = "saving"]
             \/ cpc[c] \notin Ensuring \cup Waiting /\ cpc' = [cpc EXCEPT ![c] = "idle"]
      BY <1>8 DEF SaveCheck, SaveReset, objectVars, Ensuring, Waiting
    <2>. QED BY <2>1, ClientFrame DEF TypeOK, Ensuring, Waiting
  <1>9. Shutdown \/ UNCHANGED vars => UNCHANGED <<cpc, cobj, alive>>
    BY DEF Shutdown, vars, threadVars, objectVars
  <1>10. UNCHANGED <<cpc, cobj, alive>> => ClientInv'
    BY DEF ClientInv
  <1>. QED BY <1>1, <1>2, <1>3, <1>4, <1>5, <1>6, <1>7, <1>8, <1>9, <1>10
           DEF Next, Process, ClientStep, ClientCall

(* Steps that give out no object and make no object deletable leave the
   released objects released. *)
LEMMA ReleasedFrame ==
  ASSUME IInv, cobj' = cobj, alive \subseteq alive',
         \A c \in Clients : cpc'[c] = "deletable" => cpc[c] = "deletable",
         \A o \in alive : IsQueued(o)' => IsQueued(o),
         \A w \in Workers : wobj'[w] = wobj[w] \/ wobj'[w] = NoObject \/ IsQueued(wobj'[w])
  PROVE  DeletableIsReleased'
  BY ThreadAssumption DEF IInv, TypeOK, DeletableIsReleased

(* What ensure_deletable has released stays released until it is deleted. *)
LEMMA ReleasedStep == IInv /\ [Next]_vars => DeletableIsReleased'
  <1>. SUFFICES ASSUME IInv, [Next]_vars PROVE DeletableIsReleased'
    OBVIOUS
  <1>. TypeOK /\ QueueInv /\ BusyInv /\ ClientInv /\ DeletableIsReleased
    BY DEF IInv
  <1>. USE ThreadAssumption, PriorityAssumption
  <1>1. ASSUME NEW w \in Workers, Take(w) PROVE DeletableIsReleased'
    <2>1. PICK p \in Priorities :
            /\ toLoad[p] # <<>>
            /\ wobj' = [wobj EXCEPT ![w] = Head(toLoad[p])]
            /\ toLoad' = [toLoad EXCEPT ![p] = Tail(toLoad[p])]
            /\ UNCHANGED <<cpc, cobj, alive>>
      BY <1>1 DEF Take, objectVars
    <2>2. /\ Head(toLoad[p]) \in Objects /\ Contains(toLoad[p], Head(toLoad[p]))
          /\ \A o : Contains(Tail(toLoad[p]), o) => Contains(toLoad[p], o)
      BY <2>1, TailRemovesHead DEF TypeOK, QueueInv
    <2>3. IsQueued(Head(toLoad[p]))
      BY <2>2 DEF QueueInv, IsQueued, QueueOf
    <2>4. \A o \in alive : IsQueued(o)' => IsQueued(o)
      BY <2>1, <2>2 DEF IsQueued, QueueOf, TypeOK
    <2>5. \A v \in Workers : wobj'[v] = wobj[v] \/ IsQueued(wobj'[v])
      BY <2>1, <2>3 DEF TypeOK
    <2>. QED BY <2>1, <2>4, <2>5, ReleasedFrame
  <1>2. ASSUME UNCHANGED <<toLoad, cobj>>, alive \subseteq alive',
               \A c \in Clients : cpc'[c] = "deletable" => cpc[c] = "deletable",
               \A w \in Workers : wobj'[w] = wobj[w] \/ wobj'[w] = NoObject
        PROVE  DeletableIsReleased'
    <2>1. \A o \in alive : IsQueued(o)' => IsQueued(o)
      BY <1>2 DEF IsQueued, QueueOf
    <2>. QED BY <1>2, <2>1, ReleasedFrame
  <1>3. ASSUME NEW w \in Workers,
               Sleep(w) \/ Exit(w) \/ FinishStore(w) \/ Fail(w) \/ FailReport(w)
        PROVE  DeletableIsReleased'
    <2>1. UNCHANGED <<toLoad, cobj, cpc, alive>>
      BY <1>3 DEF Sleep, Exit, FinishStore, Fail, FailReport, loaderVars, objectVars
    <2>2. \A v \in Workers : wobj'[v] = wobj[v] \/ wobj'[v] = NoObject
      BY <1>3 DEF Sleep, Exit, FinishStore, Fail, FailReport, TypeOK
    <2>. QED BY <1>2, <2>1, <2>2
  <1>4. ASSUME NEW w \in Workers, FinishNotify(w) \/ FailNotify(w) PROVE DeletableIsReleased'
    <2>1. UNCHANGED <<toLoad, cobj, wobj, alive>> /\ WakeWaiters(wobj[w])
      BY <1>4 DEF FinishNotify, FailNotify, loaderVars, objectVars
    <2>2. \A c \in Clients : cpc'[c] = "deletable" => cpc[c] = "deletable"
      BY <2>1 DEF WakeWaiters, ObjectSleepers
    <2>. QED BY <1>2, <2>1, <2>2
  <1>5. ASSUME NEW w \in Workers, Report(w) PROVE DeletableIsReleased'
    <2>1. /\ UNCHANGED <<toLoad, cobj, alive>> /\ cpc' = WokenClients(LoaderSleepers)
          /\ wobj' = [wobj EXCEPT ![w] = NoObject]
      BY <1>5 DEF Report, objectVars
    <2>2. \A c \in Clients : cpc'[c] = "deletable" => cpc[c] = "deletable"
      BY <2>1, WokenLocations
    <2>. QED BY <1>2, <2>1, <2>2 DEF TypeOK
  <1>6. ASSUME NEW t \in Workers \cup Clients, NEW o \in Objects, QueueForLoad(t, o)
        PROVE  DeletableIsReleased'
    <2>1. /\ UNCHANGED <<cobj, wobj>> /\ alive' = alive \cup {o} /\ o \notin alive /\ NotifyOne
          /\ toLoad' = [toLoad EXCEPT ![Priority[o]] = Append(toLoad[Priority[o]], o)]
      BY <1>6 DEF QueueForLoad
    <2>2. /\ Priority[o] \in Priorities /\ toLoad[Priority[o]] \in Seq(Objects)
          /\ IsInjective(toLoad[Priority[o]]) /\ ~Contains(toLoad[Priority[o]], o)
      BY <2>1 DEF TypeOK, QueueInv
    <2>3. \A x : Contains(Append(toLoad[Priority[o]], o), x) => Contains(toLoad[Priority[o]], x) \/ x = o
      BY <2>2, AppendAddsLast
    <2>4. \A x \in alive : IsQueued(x)' => IsQueued(x)
      BY <2>1, <2>2, <2>3 DEF IsQueued, QueueOf, TypeOK
    <2>5. \A c \in Clients : cpc'[c] = "deletable" => cpc[c] = "deletable"
      BY <2>1, NotifyOneLocations
    <2>. QED BY <2>1, <2>4, <2>5, ReleasedFrame
  <1>7. ASSUME NEW c \in Clients, EnsureUnqueue(c) PROVE DeletableIsReleased'
    <2>. DEFINE o == cobj[c]
                q == QueueOf(o)
    <2>1. o \in Objects /\ o \in alive /\ Priority[o] \in Priorities
      BY <1>7 DEF EnsureUnqueue, ClientInv, Ensuring, TypeOK
    <2>2. PICK i \in 1..Len(q) : q[i] = o /\ toLoad' = [toLoad EXCEPT ![Priority[o]] = RemoveAt(q, i)]
      BY <1>7 DEF EnsureUnqueue
    <2>3. /\ q \in Seq(Objects) /\ IsInjective(q) /\ Contains(q, o)
          /\ \A x : Contains(RemoveAt(q, i), x) <=> Contains(q, x) /\ x # o
      <3>1. q \in Seq(Objects) /\ IsInjective(q)
        BY <2>1 DEF QueueOf, TypeOK, QueueInv
      <3>2. Contains(q, o)
        BY <2>2 DEF Contains
      <3>3. \A x : Contains(RemoveAt(q, i), x) <=> Contains(q, x) /\ x # q[i]
        <4>. HIDE DEF q
        <4>. QED BY <3>1, RemoveAtRemovesOne
      <3>. QED BY <2>2, <3>1, <3>2, <3>3
    <2>4. o \notin loading
      BY <2>1, <2>3 DEF QueueOf, QueueInv
    <2>5. \A w \in Workers : wobj[w] # o
      BY <2>1, <2>4 DEF BusyInv
    <2>6. UNCHANGED <<cobj, wobj, alive>> /\ cpc' = [cpc EXCEPT ![c] = "deletable"]
      BY <1>7 DEF EnsureUnqueue, objectVars
    <2>7. \A x \in Objects : IsQueued(x)' => IsQueued(x) /\ x # o
      <3>1. ASSUME NEW x \in Objects, IsQueued(x)' PROVE IsQueued(x) /\ x # o
        <4>1. Contains(toLoad'[Priority[x]], x) /\ Priority[x] \in Priorities
          BY <3>1 DEF IsQueued, QueueOf
        <4>2. CASE Priority[x] = Priority[o]
          BY <2>1, <2>2, <2>3, <4>1, <4>2 DEF IsQueued, QueueOf, TypeOK
        <4>3. CASE Priority[x] # Priority[o]
          BY <2>1, <2>2, <4>1, <4>3 DEF IsQueued, QueueOf, TypeOK
        <4>. QED BY <4>2, <4>3
      <3>. QED BY <3>1
    <2>. HIDE DEF q
    <2>8. ASSUME NEW d \in Clients, cpc'[d] = "deletable"
          PROVE  cobj'[d] \in alive' /\ ~IsQueued(cobj[d])' /\ \A w \in Workers : wobj'[w] # cobj'[d]
      <3>1. CASE d = c
        BY <2>1, <2>5, <2>6, <2>7, <3>1 DEF TypeOK
      <3>2. CASE d # c
        <4>1. cpc[d] = "deletable" /\ cobj[d] \in alive /\ ~IsQueued(cobj[d])
              /\ \A w \in Workers : wobj[w] # cobj[d]
          BY <2>6, <2>8, <3>2 DEF TypeOK, DeletableIsReleased
        <4>2. cobj[d] \in Objects
          BY <4>1 DEF TypeOK
        <4>. QED BY <2>6, <2>7, <4>1, <4>2
      <3>. QED BY <3>1, <3>2
    <2>. QED BY <2>8 DEF DeletableIsReleased
  <1>8. ASSUME NEW c \in Clients, EnsureReturn(c) PROVE DeletableIsReleased'
    <2>1. /\ UNCHANGED <<toLoad, cobj, wobj, alive>> /\ cpc' = [cpc EXCEPT ![c] = "deletable"]
          /\ cpc[c] = "ensuring" /\ ~IsQueued(cobj[c]) /\ cobj[c] \notin loading
      BY <1>8 DEF EnsureReturn, objectVars, loaderVars
    <2>2. cobj[c] \in alive
      BY <2>1 DEF ClientInv, Ensuring
    <2>3. \A w \in Workers : wobj[w] # cobj[c]
      BY <2>1, <2>2 DEF BusyInv, TypeOK
    <2>4. \A o : IsQueued(o)' <=> IsQueued(o)
      BY <2>1 DEF IsQueued, QueueOf
    <2>. QED BY <2>1, <2>2, <2>3, <2>4 DEF DeletableIsReleased, TypeOK
  <1>9. ASSUME NEW c \in Clients, Delete(c) PROVE DeletableIsReleased'
    <2>1. /\ UNCHANGED <<toLoad, wobj>> /\ alive' = alive \ {cobj[c]} /\ cpc[c] = "deletable"
          /\ cpc' = [cpc EXCEPT ![c] = "idle"] /\ cobj' = [cobj EXCEPT ![c] = NoObject]
      BY <1>9 DEF Delete, loaderVars
    <2>2. \A d \in Clients : d # c /\ cpc[d] = "deletable" => cobj[d] # cobj[c]
      BY <2>1 DEF ClientInv, Ensuring
    <2>3. cpc'[c] = "idle" /\ \A d \in Clients : d # c => cpc'[d] = cpc[d] /\ cobj'[d] = cobj[d]
      BY <2>1 DEF TypeOK
    <2>4. \A o : IsQueued(o)' <=> IsQueued(o)
      BY <2>1 DEF IsQueued, QueueOf
    <2>. QED BY <2>1, <2>2, <2>3, <2>4 DEF DeletableIsReleased
  <1>10. ASSUME NEW c \in Clients, NEW o \in Objects, WaitUntilLoaded(c, o) \/ EnsureDeletable(c, o)
         PROVE  DeletableIsReleased'
    <2>1. /\ UNCHANGED <<toLoad, wobj, alive>> /\ cobj' = [cobj EXCEPT ![c] = o]
          /\ \E l \in {"waiting", "ensuring"} : cpc' = [cpc EXCEPT ![c] = l]
      BY <1>10 DEF WaitUntilLoaded, EnsureDeletable, loaderVars, objectVars
    <2>2. cpc'[c] # "deletable" /\ \A d \in Clients : d # c => cpc'[d] = cpc[d] /\ cobj'[d] = cobj[d]
      BY <2>1 DEF TypeOK
    <2>3. \A x : IsQueued(x)' <=> IsQueued(x)
      BY <2>1 DEF IsQueued, QueueOf
    <2>. QED BY <2>1, <2>2, <2>3 DEF DeletableIsReleased
  <1>11. ASSUME NEW c \in Clients, WaitReturn(c) PROVE DeletableIsReleased'
    <2>1. /\ UNCHANGED <<toLoad, wobj, alive>> /\ cobj' = [cobj EXCEPT ![c] = NoObject]
          /\ cpc' = [cpc EXCEPT ![c] = "idle"]
      BY <1>11 DEF WaitReturn, loaderVars, objectVars
    <2>2. cpc'[c] # "deletable" /\ \A d \in Clients : d # c => cpc'[d] = cpc[d] /\ cobj'[d] = cobj[d]
      BY <2>1 DEF TypeOK
    <2>3. \A x : IsQueued(x)' <=> IsQueued(x)
      BY <2>1 DEF IsQueued, QueueOf
    <2>. QED BY <2>1, <2>2, <2>3 DEF DeletableIsReleased
  <1>12. ASSUME NEW c \in Clients,
                \/ WaitUnmet(c) \/ WaitSleep(c) \/ EnsureSleep(c) \/ SaveCheck(c) \/ SaveReset(c)
         PROVE  DeletableIsReleased'
    <2>1. /\ UNCHANGED <<toLoad, wobj, cobj, alive>>
          /\ \/ cpc' = cpc
             \/ \E l \in ClientLocations \ {"deletable"} : cpc' = [cpc EXCEPT ![c] = l]
      BY <1>12 DEF WaitUnmet, WaitSleep, EnsureSleep, SaveCheck, SaveReset, loaderVars, objectVars,
                   ClientLocations
    <2>2. \A d \in Clients : cpc'[d] = "deletable" => cpc[d] = "deletable"
      BY <2>1 DEF TypeOK
    <2>. QED BY <1>2, <2>1, <2>2
  <1>13. ASSUME Shutdown \/ UNCHANGED vars PROVE DeletableIsReleased'
    BY <1>2, <1>13 DEF Shutdown, vars, loaderVars, threadVars, objectVars
  <1>. QED BY <1>1, <1>3, <1>4, <1>5, <1>6, <1>7, <1>8, <1>9, <1>10, <1>11, <1>12, <1>13
           DEF Next, Process, ClientStep, ClientCall

-----------------------------------------------------------------------------
(* The theorems *)

(* The invariant holds of a loader that was just created. *)
LEMMA InitIInv == Init => IInv
  <1>. SUFFICES ASSUME Init PROVE IInv
    OBVIOUS
  <1>1. TypeOK
    <2>1. <<>> \in Seq(Objects)
      OBVIOUS
    <2>2. toLoad \in [Priorities -> Seq(Objects)]
      BY <2>1 DEF Init
    <2>3. created \in 0..MaxCreated
      BY BoundAssumption DEF Init
    <2>. QED BY <2>2, <2>3 DEF Init, TypeOK, WorkerLocations, ClientLocations
  <1>2. QueueInv
    <2>1. \A p \in Priorities : toLoad[p] = <<>>
      BY DEF Init
    <2>2. IsInjective(<<>>) /\ \A o : ~Contains(<<>>, o)
      BY DEF IsInjective, Contains
    <2>. QED BY <2>1, <2>2 DEF QueueInv
  <1>3. BusyInv
    BY DEF Init, BusyInv, Busy
  <1>4. GuardInv
    BY ThreadAssumption DEF Init, GuardInv
  <1>5. ClientInv
    BY DEF Init, ClientInv, Ensuring, Waiting
  <1>6. DeletableIsReleased
    BY DEF Init, DeletableIsReleased
  <1>. QED BY <1>1, <1>2, <1>3, <1>4, <1>5, <1>6 DEF IInv

(* The inductive invariant holds in every state of the loader. *)
THEOREM Invariance == Spec => []IInv
  <1>1. IInv /\ [Next]_vars => IInv'
    BY TypeStep, QueueStep, BusyStep, GuardStep, ClientsStep, ReleasedStep DEF IInv
  <1>. QED BY <1>1, InitIInv, PTL DEF Spec

(* The loader's variables keep their types. *)
THEOREM TypeCorrect == Spec => []TypeOK
  BY Invariance, PTL DEF IInv

(* After ensure_deletable, neither a queue nor a worker holds the object. *)
THEOREM Released == Spec => []DeletableIsReleased
  BY Invariance, PTL DEF IInv

-----------------------------------------------------------------------------
(* The loader implements its contract *)

(* The status of one object. *)
LEMMA StatusOf ==
  ASSUME NEW o \in Objects
  PROVE  status[o] = IF o \notin alive THEN "absent"
                     ELSE IF IsQueued(o) THEN "queued"
                     ELSE IF o \in loading THEN "loading"
                     ELSE IF finished[o] THEN "done" ELSE "dropped"
  BY DEF status

(* A step that changes one object's status from "old" to "new" is Become. *)
LEMMA OneBecomes ==
  ASSUME NEW o \in Objects, NEW old, NEW new, status[o] = old, status'[o] = new,
         \A x \in Objects : x # o => status'[x] = status[x]
  PROVE  Contract!Become(o, old, new)
  <1>1. status' = [x \in Objects |-> status'[x]]
    BY DEF status
  <1>2. [status EXCEPT ![o] = new] = [x \in Objects |-> IF x = o THEN new ELSE status[x]]
    BY DEF status
  <1>. HIDE DEF status
  <1>. QED BY <1>1, <1>2 DEF Contract!Become

(* An object keeps its status while nothing it depends on changes. *)
LEMMA StatusKept ==
  ASSUME NEW x \in Objects, IsQueued(x)' <=> IsQueued(x), x \in loading' <=> x \in loading,
         x \in alive' <=> x \in alive,
         x \notin loading => finished'[x] = finished[x]
  PROVE  status'[x] = status[x]
  BY DEF status

(* When the contract's variable is left alone, the step is a stutter. *)
LEMMA AllKept ==
  ASSUME \A x \in Objects : status'[x] = status[x]
  PROVE  status' = status
  <1>1. status' = [x \in Objects |-> status'[x]] /\ status = [x \in Objects |-> status[x]]
    BY DEF status
  <1>. HIDE DEF status
  <1>. QED BY <1>1

(* A worker may start the object it takes. *)
LEMMA TakeStarts ==
  ASSUME IInv, IInv', NEW w \in Workers, Take(w)
  PROVE  \E o \in Objects : Contract!Start(o)
  <1>. TypeOK /\ QueueInv /\ QueueInv'
    BY DEF IInv
  <1>. USE PriorityAssumption
  <1>1. PICK p \in Priorities :
          /\ toLoad[p] # <<>>
          /\ \A q \in Priorities : q < p => toLoad[q] = <<>>
          /\ loading' = loading \cup {Head(toLoad[p])}
          /\ toLoad' = [toLoad EXCEPT ![p] = Tail(toLoad[p])]
          /\ UNCHANGED <<alive, finished>>
    BY DEF Take, objectVars
  <1>2. PICK o \in Objects :
          /\ o = Head(toLoad[p]) /\ Contains(toLoad[p], o)
          /\ \A x : Contains(Tail(toLoad[p]), x) <=> Contains(toLoad[p], x) /\ x # o
    BY <1>1, TailRemovesHead DEF TypeOK, QueueInv
  <1>3. Priority[o] = p /\ o \in alive /\ IsQueued(o)
    BY <1>2 DEF QueueInv, IsQueued, QueueOf
  <1>4. o \in loading' /\ ~IsQueued(o)' /\ o \in alive'
    <2>1. o \in loading' /\ o \in alive'
      BY <1>1, <1>2, <1>3
    <2>2. ~Contains(toLoad'[Priority[o]], o)
      BY <1>2, <2>1 DEF QueueInv
    <2>. QED BY <2>1, <2>2 DEF IsQueued, QueueOf
  <1>5. ASSUME NEW x \in Objects, x # o PROVE status'[x] = status[x]
    <2>1. Priority[x] \in Priorities
      OBVIOUS
    <2>2. IsQueued(x)' <=> IsQueued(x)
      BY <1>1, <1>2, <1>5, <2>1 DEF IsQueued, QueueOf, TypeOK
    <2>3. x \in loading' <=> x \in loading
      BY <1>1, <1>2, <1>5
    <2>. QED BY <1>1, <2>2, <2>3, StatusKept
  <1>6. status[o] = "queued" /\ status'[o] = "loading"
    BY <1>2, <1>3, <1>4 DEF status
  <1>7. ASSUME NEW x \in Objects, status[x] = "queued" PROVE Priority[x] >= Priority[o]
    <2>1. Contains(toLoad[Priority[x]], x)
      BY <1>7 DEF status, IsQueued, QueueOf
    <2>2. toLoad[Priority[x]] # <<>>
      BY <2>1 DEF Contains
    <2>3. ~(Priority[x] < p)
      BY <1>1, <2>2
    <2>. QED BY <1>3, <2>3 DEF Priorities
  <1>8. Contract!Become(o, "queued", "loading")
    BY <1>2, <1>5, <1>6, OneBecomes
  <1>. QED BY <1>2, <1>7, <1>8 DEF Contract!Start

(* Every step of the loader is a step of the contract or leaves it alone. *)
LEMMA ContractStep == IInv /\ IInv' /\ [Next]_vars => [Contract!Next]_status
  <1>. SUFFICES ASSUME IInv, IInv', [Next]_vars PROVE Contract!Next \/ status' = status
    OBVIOUS
  <1>. TypeOK /\ QueueInv /\ BusyInv /\ ClientInv /\ DeletableIsReleased
    BY DEF IInv
  <1>. USE PriorityAssumption, ThreadAssumption
  <1>1. ASSUME NEW w \in Workers, Take(w) PROVE Contract!Next
    BY <1>1, TakeStarts DEF Contract!Next
  <1>2. ASSUME UNCHANGED <<toLoad, loading, alive>>,
               \A x \in Objects : x \notin loading => finished'[x] = finished[x]
        PROVE  status' = status
    <2>1. \A x \in Objects : IsQueued(x)' <=> IsQueued(x)
      BY <1>2 DEF IsQueued, QueueOf
    <2>2. \A x \in Objects : status'[x] = status[x]
      BY <1>2, <2>1, StatusKept
    <2>. QED BY <2>2, AllKept
  <1>3. ASSUME NEW w \in Workers, FinishStore(w) \/ Fail(w) PROVE status' = status
    <2>1. /\ UNCHANGED <<toLoad, loading, alive>> /\ wpc[w] \in Busy
          /\ finished' = [finished EXCEPT ![wobj[w]] = TRUE]
      BY <1>3 DEF FinishStore, Fail, loaderVars, Busy
    <2>2. wobj[w] \in loading
      BY <2>1, BusyFacts
    <2>3. \A x \in Objects : x \notin loading => finished'[x] = finished[x]
      BY <2>1, <2>2 DEF TypeOK
    <2>. QED BY <1>2, <2>1, <2>3
  <1>4. ASSUME NEW w \in Workers, Sleep(w) \/ Exit(w) \/ FinishNotify(w) \/ FailNotify(w)
        PROVE  status' = status
    BY <1>2, <1>4 DEF Sleep, Exit, FinishNotify, FailNotify, loaderVars, objectVars
  <1>5. ASSUME NEW w \in Workers, Report(w) \/ FailReport(w) PROVE Contract!Next
    <2>. DEFINE o == wobj[w]
    <2>1. /\ UNCHANGED <<toLoad, alive, finished>> /\ loading' = loading \ {o}
          /\ wpc[w] \in Busy \ {"loading"}
      BY <1>5 DEF Report, FailReport, objectVars, Busy
    <2>2. /\ o \in Objects /\ o \in loading /\ o \in alive /\ finished[o]
          /\ \A p \in Priorities : ~Contains(toLoad[p], o)
      BY <2>1, BusyFacts
    <2>. HIDE DEF o
    <2>3. \A x \in Objects : IsQueued(x)' <=> IsQueued(x)
      BY <2>1 DEF IsQueued, QueueOf
    <2>4. ~IsQueued(o)
      BY <2>2 DEF IsQueued, QueueOf
    <2>5. status[o] = "loading" /\ status'[o] = "done"
      BY <2>1, <2>2, <2>3, <2>4 DEF status
    <2>6. \A x \in Objects : x # o => status'[x] = status[x]
      BY <2>1, <2>3, StatusKept
    <2>7. Contract!Become(o, "loading", "done")
      BY <2>2, <2>5, <2>6, OneBecomes
    <2>. QED BY <2>2, <2>7 DEF Contract!Next, Contract!Finish
  <1>6. ASSUME NEW t \in Workers \cup Clients, NEW o \in Objects, QueueForLoad(t, o)
        PROVE  Contract!Next
    <2>1. /\ UNCHANGED loading /\ alive' = alive \cup {o} /\ o \notin alive
          /\ finished' = [finished EXCEPT ![o] = FALSE]
          /\ toLoad' = [toLoad EXCEPT ![Priority[o]] = Append(toLoad[Priority[o]], o)]
      BY <1>6 DEF QueueForLoad
    <2>2. /\ Priority[o] \in Priorities /\ toLoad[Priority[o]] \in Seq(Objects)
          /\ IsInjective(toLoad[Priority[o]]) /\ ~Contains(toLoad[Priority[o]], o)
      BY <2>1 DEF TypeOK, QueueInv
    <2>3. \A x : Contains(Append(toLoad[Priority[o]], o), x) <=> Contains(toLoad[Priority[o]], x) \/ x = o
      BY <2>2, AppendAddsLast
    <2>4. IsQueued(o)'
      BY <2>1, <2>2, <2>3 DEF IsQueued, QueueOf, TypeOK
    <2>5. ASSUME NEW x \in Objects, x # o PROVE status'[x] = status[x]
      <3>1. IsQueued(x)' <=> IsQueued(x)
        BY <2>1, <2>2, <2>3, <2>5 DEF IsQueued, QueueOf, TypeOK
      <3>2. finished'[x] = finished[x]
        BY <2>1, <2>5 DEF TypeOK
      <3>. QED BY <2>1, <2>5, <3>1, <3>2, StatusKept
    <2>6. status[o] = "absent" /\ status'[o] = "queued"
      BY <2>1, <2>4 DEF status
    <2>7. Contract!Become(o, "absent", "queued")
      BY <2>5, <2>6, OneBecomes
    <2>. QED BY <2>7 DEF Contract!Next, Contract!Queue
  <1>7. ASSUME NEW c \in Clients, EnsureUnqueue(c) PROVE Contract!Next
    <2>1. PICK o \in Objects : o = cobj[c] /\ o \in alive /\ Priority[o] \in Priorities
      BY <1>7 DEF EnsureUnqueue, ClientInv, Ensuring, TypeOK
    <2>. DEFINE q == QueueOf(o)
    <2>2. PICK i \in 1..Len(q) : q[i] = o /\ toLoad' = [toLoad EXCEPT ![Priority[o]] = RemoveAt(q, i)]
      BY <1>7, <2>1 DEF EnsureUnqueue
    <2>3. q \in Seq(Objects) /\ IsInjective(q)
      BY <2>1 DEF QueueOf, TypeOK, QueueInv
    <2>4. q = toLoad[Priority[o]] /\ UNCHANGED <<loading, alive, finished>>
      BY <1>7 DEF EnsureUnqueue, objectVars, QueueOf
    <2>. HIDE DEF q
    <2>5. /\ Contains(q, o)
          /\ \A x : Contains(RemoveAt(q, i), x) <=> Contains(q, x) /\ x # o
      <3>1. Contains(q, o)
        BY <2>2 DEF Contains
      <3>2. \A x : Contains(RemoveAt(q, i), x) <=> Contains(q, x) /\ x # q[i]
        BY <2>3, RemoveAtRemovesOne
      <3>. QED BY <2>2, <3>1, <3>2
    <2>6. o \notin loading /\ ~finished[o] /\ IsQueued(o)
      BY <2>1, <2>4, <2>5 DEF QueueInv, IsQueued, QueueOf
    <2>7. toLoad'[Priority[o]] = RemoveAt(q, i)
          /\ \A p \in Priorities : p # Priority[o] => toLoad'[p] = toLoad[p]
      BY <2>1, <2>2 DEF TypeOK
    <2>8. ~IsQueued(o)'
      BY <2>5, <2>7 DEF IsQueued, QueueOf
    <2>9. ASSUME NEW x \in Objects, x # o PROVE status'[x] = status[x]
      <3>1. IsQueued(x)' <=> IsQueued(x)
        <4>1. CASE Priority[x] = Priority[o]
          BY <2>4, <2>5, <2>7, <2>9, <4>1 DEF IsQueued, QueueOf
        <4>2. CASE Priority[x] # Priority[o]
          BY <2>7, <4>2 DEF IsQueued, QueueOf
        <4>. QED BY <4>1, <4>2
      <3>. QED BY <2>4, <2>9, <3>1, StatusKept
    <2>10. status[o] = "queued" /\ status'[o] = "dropped"
      BY <2>1, <2>4, <2>6, <2>8 DEF status
    <2>11. Contract!Become(o, "queued", "dropped")
      BY <2>1, <2>9, <2>10, OneBecomes
    <2>. QED BY <2>1, <2>11 DEF Contract!Next, Contract!Drop
  <1>8. ASSUME NEW c \in Clients, Delete(c) PROVE Contract!Next
    <2>. DEFINE o == cobj[c]
    <2>1. /\ UNCHANGED <<toLoad, loading, finished>> /\ alive' = alive \ {o} /\ cpc[c] = "deletable"
      BY <1>8 DEF Delete, loaderVars
    <2>2. o \in alive /\ ~IsQueued(o) /\ \A w \in Workers : wobj[w] # o
      BY <2>1 DEF DeletableIsReleased
    <2>3. o \in Objects /\ o \notin loading
      BY <2>2 DEF BusyInv, TypeOK
    <2>. HIDE DEF o
    <2>4. \A x \in Objects : IsQueued(x)' <=> IsQueued(x)
      BY <2>1 DEF IsQueued, QueueOf
    <2>5. \A x \in Objects : x # o => status'[x] = status[x]
      BY <2>1, <2>4, StatusKept
    <2>6. status'[o] = "absent" /\ (status[o] = "done" \/ status[o] = "dropped")
      BY <2>1, <2>2, <2>3 DEF status
    <2>7. Contract!Become(o, "done", "absent") \/ Contract!Become(o, "dropped", "absent")
      BY <2>3, <2>5, <2>6, OneBecomes
    <2>. QED BY <2>3, <2>7 DEF Contract!Next, Contract!Destroy
  <1>9. ASSUME NEW c \in Clients,
               \/ WaitReturn(c) \/ WaitUnmet(c) \/ WaitSleep(c)
               \/ EnsureReturn(c) \/ EnsureSleep(c) \/ SaveReset(c) \/ ClientCall(c)
        PROVE  UNCHANGED <<toLoad, loading, alive, finished>>
    BY <1>9 DEF WaitReturn, WaitUnmet, WaitSleep, EnsureReturn, EnsureSleep, SaveReset, ClientCall,
                WaitUntilLoaded, EnsureDeletable, SaveCheck, loaderVars, objectVars
  <1>10. Shutdown \/ UNCHANGED vars => UNCHANGED <<toLoad, loading, alive, finished>>
    BY DEF Shutdown, vars, loaderVars, objectVars
  <1>. QED BY <1>1, <1>2, <1>3, <1>4, <1>5, <1>6, <1>7, <1>8, <1>9, <1>10
           DEF Next, Process, ClientStep

(* Every behaviour of the loader, whatever its threads and clients do, is one
   its contract allows: an object is loaded at most once, in the order of
   urgency, and is destroyed only when the loader has let go of it. *)
THEOREM Implementation == Spec => KeepsContract
  <1>1. Init => Contract!Init
    BY DEF Init, Contract!Init, status
  <1>. QED BY <1>1, ContractStep, Invariance, PTL DEF Spec, KeepsContract, Contract!Spec

=============================================================================
