-------------------------- MODULE RpcDispatchProofs --------------------------
(***************************************************************************)
(* For all methods, receivers, threads and user methods: the types of      *)
(* RpcDispatch, that the queue of worker threads can always serve a packet *)
(* of a worker method, and that receivers destroyed in the thread of the   *)
(* EleaphRpc object are unregistered.                                      *)
(***************************************************************************)
EXTENDS RpcDispatch, TLAPS

\* The two parts need each other: Head(queueWorkerThreads) is a thread because
\* the queue is not empty when a worker pass begins.
IInv == TypeOK /\ WorkersAreQueued

-----------------------------------------------------------------------------
(* Sequences.                                                              *)

Elements(s) == {s[i] : i \in 1 .. Len(s)}
Distinct(s) == \A i, j \in 1 .. Len(s) : s[i] = s[j] => i = j

\* Putting the first element at the end keeps the elements and their number.
LEMMA Rotation ==
  ASSUME NEW S, NEW q \in Seq(S), q # << >>
  PROVE  /\ Append(Tail(q), Head(q)) \in Seq(S)
         /\ Append(Tail(q), Head(q)) # << >>
         /\ Elements(Append(Tail(q), Head(q))) = Elements(q)
         /\ Distinct(q) => Distinct(Append(Tail(q), Head(q)))
<1> DEFINE n == Len(q)
           r == Append(Tail(q), Head(q))
<1>1. n \in Nat /\ n >= 1
  OBVIOUS
<1>2. Tail(q) \in Seq(S) /\ Len(Tail(q)) = n - 1 /\ Head(q) \in S /\ Head(q) = q[1]
  OBVIOUS
<1>3. \A i \in 1 .. n - 1 : Tail(q)[i] = q[i + 1]
  OBVIOUS
<1>4. r \in Seq(S) /\ Len(r) = n /\ r[n] = q[1] /\ \A i \in 1 .. n - 1 : r[i] = q[i + 1]
  BY <1>1, <1>2, <1>3
<1> HIDE DEF n, r
<1>5. {r[i] : i \in 1 .. n} \subseteq {q[i] : i \in 1 .. n}
  <2> SUFFICES ASSUME NEW i \in 1 .. n PROVE \E k \in 1 .. n : r[i] = q[k]
    OBVIOUS
  <2>1. CASE i = n
    BY <1>1, <1>4, <2>1
  <2>2. CASE i # n
    <3>1. i \in 1 .. n - 1 /\ i + 1 \in 1 .. n
      BY <1>1, <2>2
    <3> QED
      BY <1>4, <3>1
  <2> QED
    BY <2>1, <2>2
<1>6. {q[i] : i \in 1 .. n} \subseteq {r[i] : i \in 1 .. n}
  <2> SUFFICES ASSUME NEW i \in 1 .. n PROVE \E k \in 1 .. n : q[i] = r[k]
    OBVIOUS
  <2>1. CASE i = 1
    BY <1>1, <1>4, <2>1
  <2>2. CASE i # 1
    <3>1. i - 1 \in 1 .. n - 1 /\ i - 1 \in 1 .. n /\ (i - 1) + 1 = i
      BY <1>1, <2>2
    <3> QED
      BY <1>4, <3>1
  <2> QED
    BY <2>1, <2>2
<1>7. ASSUME \A i, j \in 1 .. n : q[i] = q[j] => i = j
      PROVE  \A i, j \in 1 .. n : r[i] = r[j] => i = j
  <2> SUFFICES ASSUME NEW i \in 1 .. n, NEW j \in 1 .. n, r[i] = r[j] PROVE i = j
    OBVIOUS
  <2> DEFINE From(k) == IF k = n THEN 1 ELSE k + 1
  <2>1. \A k \in 1 .. n : From(k) \in 1 .. n /\ r[k] = q[From(k)]
    BY <1>1, <1>4
  <2>2. From(i) \in 1 .. n /\ From(j) \in 1 .. n /\ q[From(i)] = q[From(j)]
    BY <2>1
  <2>3. From(i) = From(j)
    <3> HIDE DEF From
    <3> QED
      BY <1>7, <2>2
  <2> QED
    BY <1>1, <2>3
<1>8. r # << >>
  BY <1>1, <1>4
<1>9. {r[i] : i \in 1 .. n} = {q[i] : i \in 1 .. n}
  BY <1>5, <1>6
<1>10. Len(q) = n /\ Len(r) = n /\ r \in Seq(S)
  BY <1>4 DEF n
<1>11. Elements(r) = Elements(q)
  BY <1>9, <1>10 DEF Elements
<1>12. Distinct(q) => Distinct(r)
  BY <1>7, <1>10 DEF Distinct
<1> QED
  BY <1>8, <1>10, <1>11, <1>12 DEF r

\* Putting a new element at the end.
LEMMA Enqueue ==
  ASSUME NEW S, NEW q \in Seq(S), NEW t \in S
  PROVE  /\ Append(q, t) \in Seq(S)
         /\ Append(q, t) # << >>
         /\ Elements(Append(q, t)) = Elements(q) \cup {t}
         /\ (t \notin Elements(q) /\ Distinct(q)) => Distinct(Append(q, t))
<1> DEFINE n == Len(q)
           r == Append(q, t)
<1>1. /\ n \in Nat
      /\ r \in Seq(S) /\ Len(r) = n + 1
      /\ r[n + 1] = t
      /\ \A i \in 1 .. n : r[i] = q[i]
  OBVIOUS
<1> HIDE DEF n, r
<1>2. \A i \in 1 .. n + 1 : i \in 1 .. n \/ i = n + 1
  BY <1>1
<1>3. 1 .. n \subseteq 1 .. n + 1 /\ n + 1 \in 1 .. n + 1
  BY <1>1
<1>4. {r[i] : i \in 1 .. n + 1} = {q[i] : i \in 1 .. n} \cup {t}
  BY <1>1, <1>2, <1>3
<1>5. r # << >>
  BY <1>1
<1>6. Elements(r) = Elements(q) \cup {t}
  BY <1>1, <1>4 DEF n, Elements
<1>7. ASSUME t \notin Elements(q), Distinct(q) PROVE Distinct(r)
  <2>1. \A i \in 1 .. n : q[i] # t
    BY <1>7 DEF n, Elements
  <2>2. \A i, j \in 1 .. n : q[i] = q[j] => i = j
    BY <1>7 DEF n, Distinct
  <2>3. \A i, j \in 1 .. n + 1 : r[i] = r[j] => i = j
    BY <1>1, <1>2, <2>1, <2>2
  <2> QED
    BY <1>1, <2>3 DEF Distinct
<1> QED
  BY <1>1, <1>5, <1>6, <1>7 DEF r

\* The innermost dispatch and those around it.
LEMMA Stack ==
  ASSUME NEW S, NEW s \in Seq(S), s # << >>
  PROVE  /\ s[Len(s)] \in S
         /\ SubSeq(s, 1, Len(s) - 1) \in Seq(S)
<1>1. Len(s) \in Nat /\ Len(s) >= 1
  OBVIOUS
<1>2. \A i \in 1 .. Len(s) : s[i] \in S
  OBVIOUS
<1> QED
  BY <1>1, <1>2

-----------------------------------------------------------------------------
(* The queue.                                                              *)

\* Taking a thread in turn keeps the queue's threads.
LEMMA RotateKeepsQueue ==
  ASSUME IInv, container # {}, Rotate
  PROVE  /\ Head(queueWorkerThreads) \in Threads
         /\ queueWorkerThreads' \in Seq(Threads)
         /\ queueWorkerThreads' # << >>
         /\ Queued' = Queued
         /\ Distinct(queueWorkerThreads')
<1> DEFINE q == queueWorkerThreads
           r == queueWorkerThreads'
<1>1. q \in Seq(Threads) /\ q # << >> /\ Distinct(q)
  BY DEF IInv, TypeOK, WorkersAreQueued, Distinct
<1>2. r = Append(Tail(q), Head(q))
  BY DEF Rotate
<1>3. Queued = Elements(q) /\ Queued' = Elements(r)
  BY DEF Queued, Elements
<1>4. Head(q) \in Threads
  BY <1>1
<1> HIDE DEF q, r
<1>5. /\ r \in Seq(Threads) /\ r # << >>
      /\ Elements(r) = Elements(q)
      /\ Distinct(r)
  BY <1>1, <1>2, Rotation
<1> QED
  BY <1>3, <1>4, <1>5 DEF q, r

\* Registering a worker method queues the thread of its receiver, once.
LEMMA RegisteringQueues ==
  ASSUME IInv,
         NEW m \in Methods, NEW o \in Objects, NEW slot \in Slots, NEW single \in BOOLEAN,
         registerRpcMethodWorker(m, o, slot, single)
  PROVE  /\ queueWorkerThreads' \in Seq(Threads)
         /\ queueWorkerThreads' # << >>
         /\ Queued' = Queued \cup {ThreadOf[o]}
         /\ Distinct(queueWorkerThreads')
<1> DEFINE q == queueWorkerThreads
           r == queueWorkerThreads'
           t == ThreadOf[o]
<1>1. q \in Seq(Threads) /\ Distinct(q)
  BY DEF IInv, TypeOK, WorkersAreQueued, Distinct
<1>2. r = IF t \in Queued THEN q ELSE Append(q, t)
  BY DEF registerRpcMethodWorker
<1>3. Queued = Elements(q) /\ Queued' = Elements(r)
  BY DEF Queued, Elements
<1>4. t \in Threads
  BY DispatchAssumption
<1> HIDE DEF q, r, t
<1>5. CASE t \in Queued
  <2>1. q # << >>
    <3>1. PICK i \in 1 .. Len(q) : t = q[i]
      BY <1>3, <1>5 DEF Elements
    <3> QED
      BY <1>1, <3>1
  <2> QED
    BY <1>1, <1>2, <1>3, <1>5, <2>1 DEF q, r, t
<1>6. CASE t \notin Queued
  <2>1. r = Append(q, t) /\ t \notin Elements(q)
    BY <1>2, <1>3, <1>6
  <2>2. /\ r \in Seq(Threads) /\ r # << >>
        /\ Elements(r) = Elements(q) \cup {t}
        /\ Distinct(r)
    BY <1>1, <1>4, <2>1, Enqueue
  <2> QED
    BY <1>3, <2>2 DEF q, r, t
<1> QED
  BY <1>5, <1>6

\* Unregistering keeps it: the delegates and their containers go together.
LEMMA Unregistering ==
  ASSUME IInv,
         \A m \in Methods : worker'[m] \subseteq worker[m],
         \A m \in Methods : worker'[m] # {} => m \in container',
         container' \subseteq container,
         UNCHANGED queueWorkerThreads
  PROVE  WorkersAreQueued'
<1>1. Queued' = Queued
  BY DEF Queued
<1>2. \A m \in Methods : \A g \in worker'[m] : ThreadOf[g.object] \in Queued'
  BY <1>1 DEF IInv, WorkersAreQueued
<1>3. container' # {} => queueWorkerThreads' # << >>
  BY DEF IInv, WorkersAreQueued
<1>4. \A i, j \in 1 .. Len(queueWorkerThreads') :
        queueWorkerThreads'[i] = queueWorkerThreads'[j] => i = j
  BY DEF IInv, WorkersAreQueued
<1> QED
  BY <1>2, <1>3, <1>4 DEF WorkersAreQueued

\* Taking a thread in turn keeps it.
LEMMA Rotating ==
  ASSUME IInv, container # {}, Rotate, UNCHANGED <<worker, container>>
  PROVE  WorkersAreQueued'
<1>1. /\ Queued' = Queued /\ queueWorkerThreads' # << >>
      /\ Distinct(queueWorkerThreads')
  BY RotateKeepsQueue
<1>2. \A m \in Methods : \A g \in worker'[m] : ThreadOf[g.object] \in Queued'
  BY <1>1 DEF IInv, WorkersAreQueued
<1>3. \A m \in Methods : worker'[m] # {} => m \in container'
  BY DEF IInv, WorkersAreQueued
<1> QED
  BY <1>1, <1>2, <1>3 DEF WorkersAreQueued, Distinct

-----------------------------------------------------------------------------
(* Types.                                                                  *)

\* The dispatches in progress.
LEMMA CallsType ==
  ASSUME TypeOK, calls # << >>
  PROVE  Top \in Call /\ Rest \in Seq(Call)
BY Stack DEF TypeOK, Top, Rest

LEMMA CallsGrow ==
  ASSUME NEW s \in Seq(Call), NEW c \in Call
  PROVE  Append(s, c) \in Seq(Call)
OBVIOUS

\* A new registration.
LEMMA NewDelegateType ==
  ASSUME TypeOK, NEW o \in Objects, NEW slot \in Slots, NEW single \in BOOLEAN
  PROVE  NewDelegate(o, slot, single) \in Delegate
BY DEF TypeOK, NewDelegate, Delegate

LEMMA WorkersWithoutType ==
  ASSUME TypeOK, NEW ms \in SUBSET Methods, NEW o, NEW slots
  PROVE  /\ WorkersWithout(ms, o, slots) \in [Methods -> SUBSET Delegate]
         /\ \A m \in Methods : WorkersWithout(ms, o, slots)[m] \subseteq worker[m]
         /\ ContainersWithout(ms, o, slots) \subseteq container
         /\ WorkersAreQueued => \A m \in Methods :
              WorkersWithout(ms, o, slots)[m] # {} => m \in ContainersWithout(ms, o, slots)
<1> DEFINE W == WorkersWithout(ms, o, slots)
<1>1. W = [m \in Methods |-> IF m \in ms THEN Without(worker[m], o, slots) ELSE worker[m]]
  BY DEF WorkersWithout
<1>2. \A m \in Methods : Without(worker[m], o, slots) \subseteq worker[m]
  BY DEF Without
<1>3. worker \in [Methods -> SUBSET Delegate]
  BY DEF TypeOK
<1>4. \A m \in Methods :
        W[m] = IF m \in ms THEN Without(worker[m], o, slots) ELSE worker[m]
  BY <1>1
<1>5. \A m \in Methods : W[m] \subseteq worker[m]
  BY <1>2, <1>4
<1>6. W \in [Methods -> SUBSET Delegate]
  BY <1>1, <1>2, <1>3
<1>7. ContainersWithout(ms, o, slots) \subseteq container
  BY DEF ContainersWithout
<1>8. ASSUME WorkersAreQueued, NEW m \in Methods, W[m] # {}
      PROVE  m \in ContainersWithout(ms, o, slots)
  <2>1. m \in container
    BY <1>5, <1>8 DEF WorkersAreQueued
  <2>2. m \in ms => Without(worker[m], o, slots) # {}
    BY <1>4, <1>8
  <2> QED
    BY <2>1, <2>2 DEF ContainersWithout
<1> QED
  BY <1>5, <1>6, <1>7, <1>8

-----------------------------------------------------------------------------
(* Every operation keeps IInv.                                             *)

LEMMA RegisterBase ==
  ASSUME IInv, NEW m \in Methods, NEW o \in Objects, NEW slot \in Slots,
         NEW single \in BOOLEAN, registerRpcMethod(m, o, slot, single)
  PROVE  IInv'
<1>1. base' \in [Methods -> SUBSET Delegate] /\ made' \in Nat
  <2>1. NewDelegate(o, slot, single) \in Delegate
    BY NewDelegateType DEF IInv
  <2> QED
    BY <2>1 DEF IInv, TypeOK, registerRpcMethod
<1>2. TypeOK'
  BY <1>1 DEF IInv, TypeOK, registerRpcMethod
<1>3. WorkersAreQueued'
  BY Unregistering DEF IInv, WorkersAreQueued, registerRpcMethod
<1> QED
  BY <1>2, <1>3 DEF IInv

LEMMA RegisterWorker ==
  ASSUME IInv, NEW m \in Methods, NEW o \in Objects, NEW slot \in Slots,
         NEW single \in BOOLEAN, registerRpcMethodWorker(m, o, slot, single)
  PROVE  IInv'
<1> DEFINE g == NewDelegate(o, slot, single)
<1>1. g \in Delegate /\ g.object = o
  BY NewDelegateType DEF IInv, NewDelegate
<1>2. /\ queueWorkerThreads' \in Seq(Threads) /\ queueWorkerThreads' # << >>
      /\ Queued' = Queued \cup {ThreadOf[o]} /\ Distinct(queueWorkerThreads')
  BY RegisteringQueues
<1>3. worker' = [worker EXCEPT ![m] = @ \cup {g}] /\ container' = container \cup {m}
  BY DEF registerRpcMethodWorker
<1>4. worker \in [Methods -> SUBSET Delegate] /\ container \subseteq Methods
  BY DEF IInv, TypeOK
<1> HIDE DEF g
<1>5. TypeOK'
  <2>1. worker' \in [Methods -> SUBSET Delegate] /\ container' \subseteq Methods
    BY <1>1, <1>3, <1>4
  <2>2. made' \in Nat /\ watched' \subseteq Objects
    BY DEF IInv, TypeOK, registerRpcMethodWorker
  <2> QED
    BY <1>2, <2>1, <2>2 DEF IInv, TypeOK, registerRpcMethodWorker
<1>6. \A k \in Methods : worker'[k] = IF k = m THEN worker[k] \cup {g} ELSE worker[k]
  BY <1>3, <1>4
<1>7. \A k \in Methods : \A h \in worker'[k] : ThreadOf[h.object] \in Queued'
  <2> SUFFICES ASSUME NEW k \in Methods, NEW h \in worker'[k]
               PROVE  ThreadOf[h.object] \in Queued'
    OBVIOUS
  <2>1. CASE h \in worker[k]
    BY <1>2, <2>1 DEF IInv, WorkersAreQueued
  <2>2. CASE h = g
    BY <1>1, <1>2, <2>2
  <2> QED
    BY <1>6, <2>1, <2>2
<1>8. \A k \in Methods : worker'[k] # {} => k \in container'
  BY <1>3, <1>6 DEF IInv, WorkersAreQueued
<1>9. WorkersAreQueued'
  BY <1>2, <1>7, <1>8 DEF WorkersAreQueued, Distinct
<1> QED
  BY <1>5, <1>9 DEF IInv

LEMMA UnregisterBase ==
  ASSUME IInv,
         base' \in [Methods -> SUBSET Delegate],
         UNCHANGED <<worker, container, queueWorkerThreads, watched, living, made, calls, spent, fault>>
  PROVE  IInv'
<1>1. TypeOK'
  BY DEF IInv, TypeOK
<1>2. WorkersAreQueued'
  BY Unregistering DEF IInv, WorkersAreQueued
<1> QED
  BY <1>1, <1>2 DEF IInv

\* All ways of taking worker delegates away.
LEMMA UnregisterWorkers ==
  ASSUME IInv,
         base' \in [Methods -> SUBSET Delegate],
         worker' \in [Methods -> SUBSET Delegate],
         \A m \in Methods : worker'[m] \subseteq worker[m],
         \A m \in Methods : worker'[m] # {} => m \in container',
         container' \subseteq container,
         living' \subseteq Objects,
         calls' \in Seq(Call),
         spent' \subseteq Nat,
         fault' \in {"none", "nullDereference", "useAfterFree"},
         UNCHANGED <<queueWorkerThreads, watched, made>>
  PROVE  IInv'
<1>1. TypeOK'
  BY DEF IInv, TypeOK
<1>2. WorkersAreQueued'
  BY Unregistering
<1> QED
  BY <1>1, <1>2 DEF IInv

LEMMA UnregisterMethods ==
  ASSUME IInv, NEW m \in Methods,
         unregisterRpcMethod(m) \/ unregisterRpcMethodWorker(m)
  PROVE  IInv'
<1>1. CASE unregisterRpcMethod(m)
  <2>1. base' \in [Methods -> SUBSET Delegate]
    BY <1>1 DEF IInv, TypeOK, unregisterRpcMethod
  <2> QED
    BY <1>1, <2>1, UnregisterBase DEF unregisterRpcMethod
<1>2. CASE unregisterRpcMethodWorker(m)
  <2>1. worker \in [Methods -> SUBSET Delegate] /\ base' \in [Methods -> SUBSET Delegate]
    BY <1>2 DEF IInv, TypeOK, unregisterRpcMethodWorker
  <2>2. worker' = [worker EXCEPT ![m] = {}] /\ container' = container \ {m}
    BY <1>2 DEF unregisterRpcMethodWorker
  <2>3. \A k \in Methods : worker'[k] = IF k = m THEN {} ELSE worker[k]
    BY <2>1, <2>2
  <2>4. worker' \in [Methods -> SUBSET Delegate]
    BY <2>1, <2>2
  <2>5. \A k \in Methods : worker'[k] # {} => k \in container'
    BY <2>2, <2>3 DEF IInv, WorkersAreQueued
  <2>6. /\ living' \subseteq Objects /\ calls' \in Seq(Call) /\ spent' \subseteq Nat
        /\ fault' \in {"none", "nullDereference", "useAfterFree"}
    BY <1>2 DEF IInv, TypeOK, unregisterRpcMethodWorker
  <2> QED
    BY <1>2, <2>1, <2>2, <2>3, <2>4, <2>5, <2>6, UnregisterWorkers
    DEF unregisterRpcMethodWorker
<1> QED
  BY <1>1, <1>2

LEMMA UnregisterReceivers ==
  ASSUME IInv, NEW m \in Methods, NEW o \in Objects, NEW slots,
         \/ unregisterReceiver({m}, o, slots)
         \/ unregisterReceiver(Methods, o, slots)
         \/ unregisterReceiverWorker(m, o, slots)
         \/ unregisterReceiverWorkers(o, slots)
  PROVE  IInv'
<1>1. ASSUME NEW ms, unregisterReceiver(ms, o, slots) PROVE IInv'
  <2>1. \A k \in Methods : Without(base[k], o, slots) \subseteq base[k]
    BY DEF Without
  <2>2. base' \in [Methods -> SUBSET Delegate]
    BY <1>1, <2>1 DEF IInv, TypeOK, unregisterReceiver
  <2> QED
    BY <1>1, <2>2, UnregisterBase DEF unregisterReceiver
<1>2. ASSUME NEW ms \in SUBSET Methods,
             worker' = WorkersWithout(ms, o, slots),
             container' = ContainersWithout(ms, o, slots),
             UNCHANGED <<base, queueWorkerThreads, watched, living, made, calls, spent, fault>>
      PROVE  IInv'
  <2>1. /\ base' \in [Methods -> SUBSET Delegate]
        /\ living' \subseteq Objects /\ calls' \in Seq(Call) /\ spent' \subseteq Nat
        /\ fault' \in {"none", "nullDereference", "useAfterFree"}
    BY <1>2 DEF IInv, TypeOK
  <2>2. /\ worker' \in [Methods -> SUBSET Delegate]
        /\ \A k \in Methods : worker'[k] \subseteq worker[k]
        /\ container' \subseteq container
        /\ \A k \in Methods : worker'[k] # {} => k \in container'
    BY <1>2, WorkersWithoutType DEF IInv
  <2> QED
    BY <1>2, <2>1, <2>2, UnregisterWorkers
<1>3. CASE unregisterReceiverWorker(m, o, slots)
  <2>1. CASE m \in container
    BY <1>2, <1>3, <2>1 DEF unregisterReceiverWorker
  <2>2. CASE m \notin container
    <3>1. UNCHANGED <<base, worker, container, queueWorkerThreads, watched, living, made, calls, spent>>
      BY <1>3, <2>2 DEF unregisterReceiverWorker
    <3>2. fault' = "nullDereference"
      BY <1>3, <2>2 DEF unregisterReceiverWorker
    <3>3. /\ base' \in [Methods -> SUBSET Delegate] /\ worker' \in [Methods -> SUBSET Delegate]
          /\ living' \subseteq Objects /\ calls' \in Seq(Call) /\ spent' \subseteq Nat
      BY <3>1 DEF IInv, TypeOK
    <3>4. \A k \in Methods : worker'[k] # {} => k \in container'
      BY <3>1 DEF IInv, WorkersAreQueued
    <3> QED
      BY <3>1, <3>2, <3>3, <3>4, UnregisterWorkers
  <2> QED
    BY <2>1, <2>2
<1>4. CASE unregisterReceiverWorkers(o, slots)
  <2>1. container \in SUBSET Methods
    BY DEF IInv, TypeOK
  <2> QED
    BY <1>2, <1>4, <2>1 DEF unregisterReceiverWorkers
<1> QED
  BY <1>1, <1>3, <1>4

LEMMA DestroyedWorkerType ==
  ASSUME IInv, NEW o \in Objects, DestroyedWorker(o)
  PROVE  /\ worker' \in [Methods -> SUBSET Delegate]
         /\ \A k \in Methods : worker'[k] \subseteq worker[k]
         /\ container' \subseteq container
         /\ \A k \in Methods : worker'[k] # {} => k \in container'
<1>1. container \in SUBSET Methods
  BY DEF IInv, TypeOK
<1>2. CASE o \in watched
  <2>1. worker' = WorkersWithout(container, o, Slots) /\ container' = ContainersWithout(container, o, Slots)
    BY <1>2 DEF DestroyedWorker
  <2> QED
    BY <1>1, <2>1, WorkersWithoutType DEF IInv
<1>3. CASE o \notin watched
  <2>1. worker' = worker /\ container' = container
    BY <1>3 DEF DestroyedWorker
  <2> QED
    BY <2>1 DEF IInv, TypeOK, WorkersAreQueued
<1> QED
  BY <1>2, <1>3

LEMMA Destroying ==
  ASSUME IInv, NEW o \in Objects, destroy(o)
  PROVE  IInv'
<1>1. /\ living' \subseteq Objects /\ calls' \in Seq(Call) /\ spent' \subseteq Nat
      /\ fault' \in {"none", "nullDereference", "useAfterFree"}
      /\ UNCHANGED <<queueWorkerThreads, watched, made, spent>>
  BY DEF IInv, TypeOK, destroy
<1>2. CASE ThreadOf[o] = Main
  <2>1. base' = [m \in Methods |-> Without(base[m], o, Slots)] /\ DestroyedWorker(o)
    BY <1>2 DEF destroy
  <2>2. \A k \in Methods : Without(base[k], o, Slots) \subseteq base[k]
    BY DEF Without
  <2>3. base' \in [Methods -> SUBSET Delegate]
    BY <2>1, <2>2 DEF IInv, TypeOK
  <2>4. /\ worker' \in [Methods -> SUBSET Delegate]
        /\ \A k \in Methods : worker'[k] \subseteq worker[k]
        /\ container' \subseteq container
        /\ \A k \in Methods : worker'[k] # {} => k \in container'
    BY <2>1, DestroyedWorkerType
  <2> QED
    BY <1>1, <2>3, <2>4, UnregisterWorkers
<1>3. CASE ThreadOf[o] # Main
  <2>1. UNCHANGED <<base, worker, container>>
    BY <1>3 DEF destroy
  <2>2. base' \in [Methods -> SUBSET Delegate] /\ worker' \in [Methods -> SUBSET Delegate]
    BY <2>1 DEF IInv, TypeOK
  <2>3. \A k \in Methods : worker'[k] # {} => k \in container'
    BY <2>1 DEF IInv, WorkersAreQueued
  <2> QED
    BY <1>1, <2>1, <2>2, <2>3, UnregisterWorkers
<1> QED
  BY <1>2, <1>3

\* The worker pass finds a thread.
LEMMA WorkerPassType ==
  ASSUME IInv, NEW m \in Methods
  PROVE  WorkerPass(m) \in Call
<1>1. {g \in worker[m] : ThreadOf[g.object] = Head(queueWorkerThreads)} \in SUBSET Delegate
  BY DEF IInv, TypeOK
<1>2. spent \in SUBSET Nat /\ living \in SUBSET Objects
  BY DEF IInv, TypeOK
<1> QED
  BY <1>1, <1>2 DEF WorkerPass, Dispatch, Call

\* What a dispatch leaves alone.
LEMMA DispatchSteps ==
  ASSUME IInv, calls' \in Seq(Call),
         (container # {} /\ Rotate) \/ UNCHANGED queueWorkerThreads,
         UNCHANGED <<base, worker, container, watched, living, made, spent, fault>>
  PROVE  IInv'
<1>1. queueWorkerThreads' \in Seq(Threads)
  BY RotateKeepsQueue DEF IInv, TypeOK
<1>2. TypeOK'
  BY <1>1 DEF IInv, TypeOK
<1>3. WorkersAreQueued'
  <2>1. CASE container # {} /\ Rotate
    BY <2>1, Rotating
  <2>2. CASE UNCHANGED queueWorkerThreads
    BY <2>2, Unregistering DEF IInv, WorkersAreQueued
  <2> QED
    BY <2>1, <2>2
<1> QED
  BY <1>2, <1>3 DEF IInv

LEMMA Dispatching ==
  ASSUME IInv, NEW m \in Methods, newDataPacketReceived(m)
  PROVE  IInv'
<1>1. CASE base[m] # {} /\ calls' = Append(calls, Dispatch(m, "base", base[m]))
           /\ UNCHANGED queueWorkerThreads
  <2>1. Dispatch(m, "base", base[m]) \in Call
    <3>1. base[m] \in SUBSET Delegate /\ spent \in SUBSET Nat /\ living \in SUBSET Objects
      BY DEF IInv, TypeOK
    <3> QED
      BY <3>1 DEF Dispatch, Call
  <2>2. calls' \in Seq(Call)
    BY <1>1, <2>1, CallsGrow DEF IInv, TypeOK
  <2> QED
    BY <1>1, <2>2, DispatchSteps DEF newDataPacketReceived
<1>2. CASE m \in container /\ calls' = Append(calls, WorkerPass(m)) /\ Rotate
  <2>1. calls' \in Seq(Call)
    BY <1>2, WorkerPassType, CallsGrow DEF IInv, TypeOK
  <2> QED
    BY <1>2, <2>1, DispatchSteps DEF newDataPacketReceived
<1> QED
  BY <1>1, <1>2 DEF newDataPacketReceived

LEMMA Processing ==
  ASSUME IInv, processPacket
  PROVE  IInv'
<1>1. Top \in Call /\ Rest \in Seq(Call)
  BY CallsType DEF IInv, processPacket
<1>2. PICK g \in Top.todo :
        /\ calls' = Append(Rest, [Top EXCEPT !.todo = @ \ {g}, !.running = {g}])
        /\ fault' = IF g.object \in living THEN fault ELSE "useAfterFree"
  BY DEF processPacket
<1>3. g \in Delegate
  BY <1>1 DEF Call
<1>4. calls' \in Seq(Call)
  <2>1. [Top EXCEPT !.todo = @ \ {g}, !.running = {g}] \in Call
    BY <1>1, <1>3 DEF Call
  <2> QED
    BY <1>1, <1>2, <2>1, CallsGrow
<1>7. fault' \in {"none", "nullDereference", "useAfterFree"}
  BY <1>2 DEF IInv, TypeOK
<1>8. UNCHANGED <<registry, spent>>
  BY DEF processPacket
<1>9. TypeOK'
  BY <1>4, <1>7, <1>8 DEF IInv, TypeOK, registry
<1>10. WorkersAreQueued'
  BY <1>8, Unregistering DEF IInv, WorkersAreQueued, registry
<1> QED
  BY <1>9, <1>10 DEF IInv

LEMMA Returning ==
  ASSUME IInv, MethodReturns
  PROVE  IInv'
<1> DEFINE shots == {g \in Top.running : g.singleShot}
<1>1. calls # << >>
  BY DEF MethodReturns, InMethod
<1>2. Top \in Call /\ Rest \in Seq(Call)
  BY <1>1, CallsType DEF IInv
<1>3. calls' \in Seq(Call)
  <2>1. [Top EXCEPT !.running = {}] \in Call
    BY <1>2 DEF Call
  <2> QED
    BY <1>2, <2>1, CallsGrow DEF MethodReturns
<1>4. base \in [Methods -> SUBSET Delegate] /\ worker \in [Methods -> SUBSET Delegate]
  BY DEF IInv, TypeOK
<1>5. UNCHANGED <<container, queueWorkerThreads, watched, living, made>>
  BY DEF MethodReturns
<1>6. living' \subseteq Objects /\ spent' \subseteq Nat
  <2>1. Top.running \subseteq Delegate
    BY <1>2 DEF Call
  <2>2. Shots \subseteq Nat
    BY <2>1 DEF Shots, Delegate
  <2> QED
    BY <1>5, <2>2 DEF IInv, TypeOK, MethodReturns
<1>7. CASE Top.pass = "base"
  <2>1. /\ base' = [base EXCEPT ![Top.method] = @ \ shots]
        /\ UNCHANGED <<worker, fault>>
    BY <1>7 DEF MethodReturns
  <2>2. base' \in [Methods -> SUBSET Delegate]
    BY <1>4, <2>1
  <2>3. \A k \in Methods : worker'[k] # {} => k \in container'
    BY <1>5, <2>1 DEF IInv, WorkersAreQueued
  <2>4. worker' \in [Methods -> SUBSET Delegate] /\ fault' \in {"none", "nullDereference", "useAfterFree"}
    BY <2>1 DEF IInv, TypeOK
  <2> QED
    BY <1>3, <1>5, <1>6, <2>1, <2>2, <2>3, <2>4, UnregisterWorkers
<1>8. CASE Top.pass # "base"
  <2>1. /\ worker' = [worker EXCEPT ![Top.method] = @ \ shots]
        /\ UNCHANGED base
    BY <1>8 DEF MethodReturns
  <2>2. worker' \in [Methods -> SUBSET Delegate] /\ base' \in [Methods -> SUBSET Delegate]
    BY <1>4, <2>1
  <2>3. \A k \in Methods : worker'[k] \subseteq worker[k]
    BY <1>4, <2>1
  <2>4. \A k \in Methods : worker'[k] # {} => k \in container'
    BY <1>5, <2>3 DEF IInv, WorkersAreQueued
  <2>5. fault' \in {"none", "nullDereference", "useAfterFree"}
    BY <1>8 DEF IInv, TypeOK, MethodReturns
  <2> QED
    BY <1>3, <1>5, <1>6, <2>2, <2>3, <2>4, <2>5, UnregisterWorkers
<1> QED
  BY <1>7, <1>8

LEMMA EndingPass ==
  ASSUME IInv, SecondPass \/ PacketDone
  PROVE  IInv'
<1>1. Top \in Call /\ Rest \in Seq(Call)
  BY CallsType DEF IInv, SecondPass, PacketDone, PassDone
<1>2. CASE SecondPass
  <2>1. Top.method \in Methods /\ Top.method \in container
    BY <1>1, <1>2 DEF SecondPass, Call
  <2>2. calls' \in Seq(Call)
    BY <1>1, <1>2, <2>1, WorkerPassType, CallsGrow DEF SecondPass
  <2> QED
    BY <1>2, <2>1, <2>2, DispatchSteps DEF SecondPass
<1>3. CASE PacketDone
  BY <1>1, <1>3, DispatchSteps DEF PacketDone, registry
<1> QED
  BY <1>2, <1>3

LEMMA Stuttering ==
  ASSUME IInv, UNCHANGED vars
  PROVE  IInv'
<1>1. TypeOK'
  BY DEF IInv, TypeOK, vars, registry
<1>2. WorkersAreQueued'
  BY Unregistering DEF IInv, WorkersAreQueued, vars, registry
<1> QED
  BY <1>1, <1>2 DEF IInv

-----------------------------------------------------------------------------
\* IInv is inductive.
THEOREM Invariance == Spec => []IInv
<1>1. Init => IInv
  <2> SUFFICES ASSUME Init PROVE IInv
    OBVIOUS
  <2>1. TypeOK
    <3>1. queueWorkerThreads \in Seq(Threads) /\ calls \in Seq(Call)
      BY DEF Init
    <3> QED
      BY <3>1 DEF Init, TypeOK
  <2>2. WorkersAreQueued
    <3>1. queueWorkerThreads = << >> /\ container = {} /\ \A m \in Methods : worker[m] = {}
      BY DEF Init
    <3>2. 1 .. Len(queueWorkerThreads) = {}
      BY <3>1
    <3> QED
      BY <3>1, <3>2 DEF WorkersAreQueued
  <2> QED
    BY <2>1, <2>2 DEF IInv
<1>2. IInv /\ [Next]_vars => IInv'
  <2> SUFFICES ASSUME IInv, [Next]_vars PROVE IInv'
    OBVIOUS
  <2>1. ASSUME NEW m \in Methods, NEW o \in Objects, NEW slot \in Slots, NEW single \in BOOLEAN,
               \/ registerRpcMethod(m, o, slot, single)
               \/ registerRpcMethodWorker(m, o, slot, single)
        PROVE  IInv'
    BY <2>1, RegisterBase, RegisterWorker
  <2>2. CASE Registering
    BY <2>1, <2>2, UnregisterReceivers DEF Registering
  <2>3. ASSUME NEW m \in Methods,
               \/ unregisterRpcMethod(m) \/ unregisterRpcMethodWorker(m)
               \/ newDataPacketReceived(m)
        PROVE  IInv'
    BY <2>3, UnregisterMethods, Dispatching
  <2>4. ASSUME NEW o \in Objects, destroy(o) PROVE IInv'
    BY <2>4, Destroying
  <2>5. CASE processPacket \/ MethodReturns \/ SecondPass \/ PacketDone
    BY <2>5, Processing, Returning, EndingPass
  <2>6. CASE UNCHANGED vars
    BY <2>6, Stuttering
  <2> QED
    BY <2>2, <2>3, <2>4, <2>5, <2>6 DEF Next
<1> QED
  BY <1>1, <1>2, PTL DEF Spec

\* The variables keep their types.
THEOREM TypeCorrect == Spec => []TypeOK
<1>1. IInv => TypeOK
  BY DEF IInv
<1> QED
  BY <1>1, Invariance, PTL

\* However methods are registered, unregistered, destroyed and dispatched, also
\* from inside of user methods, newDataPacketReceived finds a thread in the queue
\* for a packet of a worker method.
THEOREM QueueServes == Spec => []WorkersAreQueued
<1>1. IInv => WorkersAreQueued
  BY DEF IInv
<1> QED
  BY <1>1, Invariance, PTL

-----------------------------------------------------------------------------
(* Destroyed receivers.                                                    *)

\* Registered receivers of the thread Main live; those of worker delegates are
\* watched, so that nothing of them stays when they are destroyed; and the
\* immortal ones live.
Attended ==
  /\ \A m \in Methods : \A g \in base[m] \cup worker[m] :
       ThreadOf[g.object] = Main => g.object \in living
  /\ \A m \in Methods : \A g \in worker[m] : g.object \in watched
  /\ Objects \ Mortal \subseteq living

\* Nothing becomes registered, and the receivers stay.
LEMMA FewerDelegates ==
  ASSUME Attended,
         \A m \in Methods : base'[m] \subseteq base[m],
         \A m \in Methods : worker'[m] \subseteq worker[m],
         UNCHANGED <<watched, living>>
  PROVE  Attended'
BY DEF Attended

LEMMA RegisteringLives ==
  ASSUME IInv, Attended,
         NEW m \in Methods, NEW o \in Objects, NEW slot \in Slots, NEW single \in BOOLEAN,
         \/ registerRpcMethod(m, o, slot, single)
         \/ registerRpcMethodWorker(m, o, slot, single)
  PROVE  Attended'
<1> DEFINE g == NewDelegate(o, slot, single)
<1>1. g.object = o /\ o \in living /\ living' = living
  BY DEF NewDelegate, registerRpcMethod, registerRpcMethodWorker
<1>2. base \in [Methods -> SUBSET Delegate] /\ worker \in [Methods -> SUBSET Delegate]
  BY DEF IInv, TypeOK
<1> HIDE DEF g
<1>3. CASE registerRpcMethod(m, o, slot, single)
  <2>1. base' = [base EXCEPT ![m] = @ \cup {g}] /\ worker' = worker /\ watched' = watched
    BY <1>3 DEF registerRpcMethod, g
  <2>2. \A k \in Methods : base'[k] \subseteq base[k] \cup {g}
    BY <1>2, <2>1
  <2> QED
    BY <1>1, <2>1, <2>2 DEF Attended
<1>4. CASE registerRpcMethodWorker(m, o, slot, single)
  <2>1. worker' = [worker EXCEPT ![m] = @ \cup {g}] /\ base' = base /\ watched' = watched \cup {o}
    BY <1>4 DEF registerRpcMethodWorker, g
  <2>2. \A k \in Methods : worker'[k] \subseteq worker[k] \cup {g}
    BY <1>2, <2>1
  <2> QED
    BY <1>1, <2>1, <2>2 DEF Attended
<1> QED
  BY <1>3, <1>4

\* destroyed() of a receiver in the same thread removes all its delegates:
\* those of worker methods are found because they lie in containers, and
\* looked for because the receiver is watched.
LEMMA DestroyingUnregisters ==
  ASSUME IInv, Attended, NEW o \in Objects, destroy(o), ThreadOf[o] = Main
  PROVE  Attended'
<1>1. /\ living' = living \ {o} /\ watched' = watched
      /\ base' = [m \in Methods |-> Without(base[m], o, Slots)]
      /\ DestroyedWorker(o)
  BY DEF destroy
<1>2. \A m \in Methods : base[m] \subseteq Delegate /\ worker[m] \subseteq Delegate
  BY DEF IInv, TypeOK
<1>3. ASSUME NEW m \in Methods
      PROVE  /\ \A g \in Without(base[m], o, Slots) : g \in base[m] /\ g.object # o
             /\ \A g \in Without(worker[m], o, Slots) : g \in worker[m] /\ g.object # o
  BY <1>2 DEF Without, Delegate
<1>4. ASSUME NEW m \in Methods, NEW g \in worker'[m]
      PROVE  g \in worker[m] /\ g.object # o
  <2>1. CASE o \in watched
    <3>1. worker' = WorkersWithout(container, o, Slots)
      BY <1>1, <2>1 DEF DestroyedWorker
    <3>2. worker'[m] = IF m \in container THEN Without(worker[m], o, Slots) ELSE worker[m]
      BY <3>1 DEF WorkersWithout
    <3>3. m \notin container => worker[m] = {}
      BY DEF IInv, WorkersAreQueued
    <3> QED
      BY <1>3, <1>4, <3>2, <3>3
  <2>2. CASE o \notin watched
    <3>1. worker' = worker
      BY <1>1, <2>2 DEF DestroyedWorker
    <3> QED
      BY <1>4, <2>2, <3>1 DEF Attended
  <2> QED
    BY <2>1, <2>2
<1>5. ASSUME NEW m \in Methods, NEW g \in base'[m]
      PROVE  g \in base[m] /\ g.object # o
  BY <1>1, <1>3, <1>5
<1>6. Objects \ Mortal \subseteq living'
  BY <1>1 DEF Attended, destroy
<1>7. ASSUME NEW m \in Methods, NEW g \in base'[m] \cup worker'[m], ThreadOf[g.object] = Main
      PROVE  g.object \in living'
  BY <1>1, <1>4, <1>5, <1>7 DEF Attended
<1>8. \A m \in Methods : \A g \in worker'[m] : g.object \in watched'
  BY <1>1, <1>4 DEF Attended
<1> QED
  BY <1>6, <1>7, <1>8 DEF Attended

\* One in another thread is not of Main.
LEMMA DestroyingElsewhere ==
  ASSUME Attended, NEW o \in Objects, destroy(o), ThreadOf[o] # Main
  PROVE  Attended'
<1>1. living' = living \ {o} /\ UNCHANGED <<watched, base, worker>>
  BY DEF destroy
<1>2. Objects \ Mortal \subseteq living'
  BY <1>1 DEF Attended, destroy
<1> QED
  BY <1>1, <1>2 DEF Attended

LEMMA UnregisteringShrinks ==
  ASSUME IInv, NEW m \in Methods, NEW o \in Objects, NEW slots,
         \/ unregisterReceiver({m}, o, slots)
         \/ unregisterReceiver(Methods, o, slots)
         \/ unregisterReceiverWorker(m, o, slots)
         \/ unregisterReceiverWorkers(o, slots)
  PROVE  /\ \A k \in Methods : base'[k] \subseteq base[k]
         /\ \A k \in Methods : worker'[k] \subseteq worker[k]
         /\ UNCHANGED <<watched, living>>
<1>1. base \in [Methods -> SUBSET Delegate] /\ worker \in [Methods -> SUBSET Delegate]
      /\ container \in SUBSET Methods /\ TypeOK
  BY DEF IInv, TypeOK
<1>2. ASSUME NEW ms, unregisterReceiver(ms, o, slots)
      PROVE  /\ \A k \in Methods : base'[k] \subseteq base[k]
             /\ UNCHANGED <<worker, watched, living>>
  BY <1>2 DEF unregisterReceiver, Without
<1>3. ASSUME unregisterReceiverWorker(m, o, slots) \/ unregisterReceiverWorkers(o, slots)
      PROVE  /\ \A k \in Methods : worker'[k] \subseteq worker[k]
             /\ UNCHANGED <<base, watched, living>>
  BY <1>1, <1>3, WorkersWithoutType DEF unregisterReceiverWorker, unregisterReceiverWorkers
<1> QED
  BY <1>2, <1>3

LEMMA DispatchingShrinks ==
  ASSUME IInv,
         \/ \E m \in Methods : newDataPacketReceived(m)
         \/ processPacket \/ MethodReturns \/ SecondPass \/ PacketDone \/ UNCHANGED vars
  PROVE  /\ \A k \in Methods : base'[k] \subseteq base[k]
         /\ \A k \in Methods : worker'[k] \subseteq worker[k]
         /\ UNCHANGED <<watched, living>>
<1>1. base \in [Methods -> SUBSET Delegate] /\ worker \in [Methods -> SUBSET Delegate]
  BY DEF IInv, TypeOK
<1>2. CASE MethodReturns
  BY <1>1, <1>2 DEF MethodReturns
<1>3. CASE ~MethodReturns
  BY <1>3 DEF newDataPacketReceived, processPacket, SecondPass, PacketDone, vars, registry
<1> QED
  BY <1>2, <1>3

\* Receivers of this thread leave no delegate behind, whoever else is destroyed
\* and whatever user methods do.
THEOREM Attendance == Spec => []Attended
<1>1. Init => Attended
  BY DEF Init, Attended
<1>2. IInv /\ Attended /\ [Next]_vars => Attended'
  <2> SUFFICES ASSUME IInv, Attended, [Next]_vars
               PROVE  Attended'
    OBVIOUS
  <2>1. ASSUME NEW m \in Methods, NEW o \in Objects, NEW slot \in Slots, NEW single \in BOOLEAN,
               \/ registerRpcMethod(m, o, slot, single)
               \/ registerRpcMethodWorker(m, o, slot, single)
        PROVE  Attended'
    BY <2>1, RegisteringLives
  <2>2. ASSUME NEW m \in Methods, NEW o \in Objects, NEW slots,
               \/ unregisterReceiver({m}, o, slots)
               \/ unregisterReceiver(Methods, o, slots)
               \/ unregisterReceiverWorker(m, o, slots)
               \/ unregisterReceiverWorkers(o, slots)
        PROVE  Attended'
    <3>1. /\ \A k \in Methods : base'[k] \subseteq base[k]
          /\ \A k \in Methods : worker'[k] \subseteq worker[k]
          /\ UNCHANGED <<watched, living>>
      BY <2>2, UnregisteringShrinks
    <3> QED
      BY <3>1, FewerDelegates
  <2>3. CASE Registering
    BY <2>1, <2>2, <2>3 DEF Registering
  <2>4. ASSUME NEW m \in Methods, unregisterRpcMethod(m) \/ unregisterRpcMethodWorker(m)
        PROVE  Attended'
    <3>1. /\ \A k \in Methods : base'[k] \subseteq base[k]
          /\ \A k \in Methods : worker'[k] \subseteq worker[k]
          /\ UNCHANGED <<watched, living>>
      BY <2>4 DEF IInv, TypeOK, unregisterRpcMethod, unregisterRpcMethodWorker
    <3> QED
      BY <3>1, FewerDelegates
  <2>5. ASSUME NEW o \in Objects, destroy(o) PROVE Attended'
    BY <2>5, DestroyingUnregisters, DestroyingElsewhere
  <2>6. CASE \/ \E m \in Methods : newDataPacketReceived(m)
             \/ processPacket \/ MethodReturns \/ SecondPass \/ PacketDone \/ UNCHANGED vars
    BY <2>6, DispatchingShrinks, FewerDelegates
  <2> QED
    BY <2>3, <2>4, <2>5, <2>6 DEF Next
<1> QED
  BY <1>1, <1>2, Invariance, PTL DEF Spec

\* If only receivers living in the thread of the EleaphRpc object are
\* destroyed, no destroyed receiver has methods left, whatever user methods do.
THEOREM DestroyedAreGone ==
  ASSUME \A o \in Mortal : ThreadOf[o] = Main
  PROVE  Spec => []DestroyedIsUnregistered
<1>1. IInv /\ Attended => DestroyedIsUnregistered
  <2> SUFFICES ASSUME IInv, Attended, NEW m \in Methods, NEW g \in base[m] \cup worker[m]
               PROVE  g.object \in living
    BY DEF DestroyedIsUnregistered
  <2>1. g.object \in Objects
    BY DEF IInv, TypeOK, Delegate
  <2>2. CASE g.object \in Mortal
    BY <2>2 DEF Attended
  <2>3. CASE g.object \notin Mortal
    BY <2>1, <2>3 DEF Attended
  <2> QED
    BY <2>2, <2>3
<1> QED
  BY <1>1, Invariance, Attendance, PTL
==============================================================================
