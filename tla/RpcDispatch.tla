----------------------------- MODULE RpcDispatch -----------------------------
(***************************************************************************)
(* The RPC methods of an EleaphRpc object (src/eleaphrpc.cpp): registering *)
(* and unregistering base and worker methods, the destruction of           *)
(* receivers, and newDataPacketReceived, which gives a packet to every     *)
(* base method of its name and to the worker methods of one thread.        *)
(*                                                                         *)
(* Everything but the destruction of receivers of other threads runs in    *)
(* the thread of the EleaphRpc object, Main.  User methods are called in   *)
(* the middle of newDataPacketReceived and may register, unregister,       *)
(* destroy receivers or spin an event loop, which may dispatch another     *)
(* packet: calls is the stack of the dispatches in progress.               *)
(***************************************************************************)
EXTENDS Naturals, Sequences, FiniteSets

CONSTANTS
  Methods,       \* names of RPC methods
  Objects,       \* receivers
  Slots,         \* slots of the receivers
  Threads,       \* threads
  Main,          \* the thread of the EleaphRpc object
  ThreadOf,      \* the thread each receiver lives in
  Mortal,        \* receivers that get destroyed
  MethodOps,     \* what user methods do
  Unchecked,     \* worker methods are unregistered by name without being registered
  MaxDelegates,  \* bound: registrations
  MaxDepth       \* bound: dispatches in progress at the same time

ASSUME DispatchAssumption ==
  /\ Main \in Threads
  /\ ThreadOf \in [Objects -> Threads]
  /\ Mortal \subseteq Objects
  /\ MethodOps \subseteq {"register", "unregister", "unregisterWorker", "destroy", "wait"}
  /\ Unchecked \in BOOLEAN
  /\ MaxDelegates \in Nat
  /\ MaxDepth \in Nat

\* EleaphRpcDelegate; id, the age of the registration, stands for its address.
Delegate == [id : Nat, object : Objects, method : Slots, singleShot : BOOLEAN]

VARIABLES
  base,       \* mapRPCFunctions: the delegates of each method
  worker,     \* mapWorkerRpcFunctions: the delegates of each method, of all threads
  container,  \* the methods mapWorkerRpcFunctions has an entry for
  queueWorkerThreads,
  watched,    \* receivers whose destroyed() reaches unregisterRpcWorkerObject
  living,     \* receivers that exist
  calls,      \* dispatches in progress, innermost last
  made,       \* registrations so far
  spent,      \* history: single shot delegates whose method has returned
  fault       \* what went wrong with memory

registry == <<base, worker, container, queueWorkerThreads, watched, living, made>>
vars == <<registry, calls, spent, fault>>

Init ==
  /\ base = [m \in Methods |-> {}]
  /\ worker = [m \in Methods |-> {}]
  /\ container = {}
  /\ queueWorkerThreads = << >>
  /\ watched = {}
  /\ living = Objects
  /\ calls = << >>
  /\ made = 0
  /\ spent = {}
  /\ fault = "none"

Queued == {queueWorkerThreads[i] : i \in 1 .. Len(queueWorkerThreads)}

-----------------------------------------------------------------------------
(* Where user code runs.                                                   *)

Top == calls[Len(calls)]
Rest == SubSeq(calls, 1, Len(calls) - 1)

\* A user method is being called.
InMethod == IF calls = << >> THEN FALSE ELSE Top.running # {}

May(op) == calls = << >> \/ (InMethod /\ op \in MethodOps)

-----------------------------------------------------------------------------
(* Registering and unregistering.                                          *)

NewDelegate(o, slot, singleShot) ==
  [id |-> made + 1, object |-> o, method |-> slot, singleShot |-> singleShot]

registerRpcMethod(m, o, slot, singleShot) ==
  /\ May("register")
  /\ o \in living
  /\ made < MaxDelegates
  /\ base' = [base EXCEPT ![m] = @ \cup {NewDelegate(o, slot, singleShot)}]
  /\ made' = made + 1
  /\ UNCHANGED <<worker, container, queueWorkerThreads, watched, living, calls, spent, fault>>

\* Mutation: the receiver is queued, not its thread.
registerRpcMethodWorker_QueuesReceiver(m, o, slot, singleShot) ==
  /\ May("register")
  /\ o \in living
  /\ made < MaxDelegates
  /\ worker' = [worker EXCEPT ![m] = @ \cup {NewDelegate(o, slot, singleShot)}]
  /\ container' = container \cup {m}
  /\ queueWorkerThreads' = Append(queueWorkerThreads, o)
  /\ watched' = watched \cup {o}
  /\ made' = made + 1
  /\ UNCHANGED <<base, living, calls, spent, fault>>

registerRpcMethodWorker(m, o, slot, singleShot) ==
  /\ May("register")
  /\ o \in living
  /\ made < MaxDelegates
  /\ worker' = [worker EXCEPT ![m] = @ \cup {NewDelegate(o, slot, singleShot)}]
  /\ container' = container \cup {m}
  /\ queueWorkerThreads' = IF ThreadOf[o] \in Queued THEN queueWorkerThreads
                           ELSE Append(queueWorkerThreads, ThreadOf[o])
  /\ watched' = watched \cup {o}
  /\ made' = made + 1
  /\ UNCHANGED <<base, living, calls, spent, fault>>

\* Receiver and slots (all, or one) an unregistration is about.
Without(delegates, o, slots) ==
  {g \in delegates : ~(g.object = o /\ g.method \in slots)}

\* unregisterRpcMethod(strMethod): all delegates of the method.
unregisterRpcMethod(m) ==
  /\ May("unregister")
  /\ base' = [base EXCEPT ![m] = {}]
  /\ UNCHANGED <<worker, container, queueWorkerThreads, watched, living, made, calls, spent, fault>>

\* unregisterRpcMethod([strMethod,] receiver [, member])
unregisterReceiver(ms, o, slots) ==
  /\ May("unregister")
  /\ base' = [m \in Methods |-> IF m \in ms THEN Without(base[m], o, slots) ELSE base[m]]
  /\ UNCHANGED <<worker, container, queueWorkerThreads, watched, living, made, calls, spent, fault>>

unregisterRpcMethodWorker(m) ==
  /\ May("unregisterWorker")
  /\ worker' = [worker EXCEPT ![m] = {}]
  /\ container' = container \ {m}
  /\ UNCHANGED <<base, queueWorkerThreads, watched, living, made, calls, spent, fault>>

\* What unregisterRpcMethodWorker does for a receiver, for the methods ms:
\* containers it finds or leaves empty are removed.
WorkersWithout(ms, o, slots) ==
  [m \in Methods |-> IF m \in ms THEN Without(worker[m], o, slots) ELSE worker[m]]
ContainersWithout(ms, o, slots) ==
  {m \in container : m \in ms => Without(worker[m], o, slots) # {}}

\* The container of a method given by name need not be there.
unregisterReceiverWorker(m, o, slots) ==
  /\ May("unregisterWorker")
  /\ Unchecked \/ m \in container
  /\ IF m \in container
     THEN /\ worker' = WorkersWithout({m}, o, slots)
          /\ container' = ContainersWithout({m}, o, slots)
          /\ UNCHANGED fault
     ELSE /\ fault' = "nullDereference"
          /\ UNCHANGED <<worker, container>>
  /\ UNCHANGED <<base, queueWorkerThreads, watched, living, made, calls, spent>>

unregisterReceiverWorkers(o, slots) ==
  /\ May("unregisterWorker")
  /\ worker' = WorkersWithout(container, o, slots)
  /\ container' = ContainersWithout(container, o, slots)
  /\ UNCHANGED <<base, queueWorkerThreads, watched, living, made, calls, spent, fault>>

\* destroyed() of a receiver reaches unregisterRpcWorkerObject.
DestroyedWorker(o) ==
  IF o \in watched
  THEN /\ worker' = WorkersWithout(container, o, Slots)
       /\ container' = ContainersWithout(container, o, Slots)
  ELSE UNCHANGED <<worker, container>>

\* Mutation: destroyed() is only connected for worker methods.
destroy_BaseKept(o) ==
  /\ o \in living \cap Mortal
  /\ living' = living \ {o}
  /\ IF ThreadOf[o] = Main
     THEN May("destroy") /\ DestroyedWorker(o)
     ELSE UNCHANGED <<worker, container>>
  /\ UNCHANGED <<base, queueWorkerThreads, watched, made, calls, spent, fault>>

\* Mutation: destroyed() is only connected for base methods.
destroy_WorkersKept(o) ==
  /\ o \in living \cap Mortal
  /\ living' = living \ {o}
  /\ IF ThreadOf[o] = Main
     THEN /\ May("destroy")
          /\ base' = [m \in Methods |-> Without(base[m], o, Slots)]
     ELSE UNCHANGED base
  /\ UNCHANGED <<worker, container, queueWorkerThreads, watched, made, calls, spent, fault>>

\* A receiver is destroyed.  In the same thread destroyed() runs
\* unregisterRpcObject and unregisterRpcWorkerObject at once, whichever it is
\* connected to (a receiver without base methods has none to lose); from another
\* thread they run later, when sender() is 0, and do nothing.
destroy(o) ==
  /\ o \in living \cap Mortal
  /\ living' = living \ {o}
  /\ IF ThreadOf[o] = Main
     THEN /\ May("destroy")
          /\ base' = [m \in Methods |-> Without(base[m], o, Slots)]
          /\ DestroyedWorker(o)
     ELSE UNCHANGED <<base, worker, container>>
  /\ UNCHANGED <<queueWorkerThreads, watched, made, calls, spent, fault>>

-----------------------------------------------------------------------------
(* newDataPacketReceived.                                                  *)

\* The list of delegates is a copy; the call remembers what was spent and who
\* lived when it was made.
Dispatch(m, pass, delegates) ==
  [method |-> m, pass |-> pass, todo |-> delegates, running |-> {},
   spent |-> spent, living |-> living]

\* The worker pass takes the first thread of the queue, which goes to its end.
WorkerPass(m) ==
  Dispatch(m, "worker", {g \in worker[m] : ThreadOf[g.object] = Head(queueWorkerThreads)})
\* Mutation: the thread is not put back into the queue.
Rotate_Dequeues == queueWorkerThreads' = Tail(queueWorkerThreads)

Rotate == queueWorkerThreads' = Append(Tail(queueWorkerThreads), Head(queueWorkerThreads))

\* The first pass over a packet: base methods, else worker methods.  A packet
\* for a method nobody has registered changes nothing here (and is not deleted).
newDataPacketReceived(m) ==
  /\ calls = << >> \/ (InMethod /\ "wait" \in MethodOps /\ Len(calls) < MaxDepth)
  /\ \/ /\ base[m] # {}
        /\ calls' = Append(calls, Dispatch(m, "base", base[m]))
        /\ UNCHANGED queueWorkerThreads
     \/ /\ base[m] = {}
        /\ m \in container
        /\ calls' = Append(calls, WorkerPass(m))
        /\ Rotate
  /\ UNCHANGED <<base, worker, container, watched, living, made, spent, fault>>

\* processPacket is called for the next delegate, youngest first.
processPacket ==
  /\ calls # << >> /\ Top.running = {} /\ Top.todo # {}
  /\ \E g \in Top.todo :
       /\ \A h \in Top.todo : h.id <= g.id
       /\ calls' = Append(Rest, [Top EXCEPT !.todo = @ \ {g}, !.running = {g}])
       /\ fault' = IF g.object \in living THEN fault ELSE "useAfterFree"
  /\ UNCHANGED <<registry, spent>>

\* The ids of the single shot delegates being called.
Shots == {g.id : g \in {h \in Top.running : h.singleShot}}

\* Mutation: single shot worker delegates are looked for among the base ones.
MethodReturns_WorkersKept ==
  /\ InMethod
  /\ base' = [base EXCEPT ![Top.method] = @ \ {g \in Top.running : g.singleShot}]
  /\ calls' = Append(Rest, [Top EXCEPT !.running = {}])
  /\ spent' = spent \cup Shots
  /\ UNCHANGED <<worker, container, queueWorkerThreads, watched, living, made, fault>>

\* processPacket returns; a single shot delegate is removed now.
MethodReturns ==
  /\ InMethod
  /\ LET m == Top.method
         shots == {g \in Top.running : g.singleShot}
     IN  IF Top.pass = "base"
         THEN /\ base' = [base EXCEPT ![m] = @ \ shots]
              /\ UNCHANGED <<worker, fault>>
         ELSE /\ worker' = [worker EXCEPT ![m] = @ \ shots]
              /\ fault' = IF shots # {} /\ m \notin container THEN "nullDereference"
                          ELSE fault
              /\ UNCHANGED base
  /\ calls' = Append(Rest, [Top EXCEPT !.running = {}])
  /\ spent' = spent \cup Shots
  /\ UNCHANGED <<container, queueWorkerThreads, watched, living, made>>

PassDone == calls # << >> /\ Top.running = {} /\ Top.todo = {}

\* The second pass, if the first was for the base methods.
SecondPass ==
  /\ PassDone
  /\ Top.pass = "base" /\ Top.method \in container
  /\ calls' = Append(Rest, WorkerPass(Top.method))
  /\ Rotate
  /\ UNCHANGED <<base, worker, container, watched, living, made, spent, fault>>

PacketDone ==
  /\ PassDone
  /\ Top.pass = "worker" \/ Top.method \notin container
  /\ calls' = Rest
  /\ UNCHANGED <<registry, spent, fault>>

-----------------------------------------------------------------------------
\* The slots an unregistration may be about: one, or all if member is 0.
SlotChoices == {{slot} : slot \in Slots} \cup {Slots}

Registering ==
  \E m \in Methods, o \in Objects :
    \/ \E slot \in Slots, singleShot \in BOOLEAN :
         \/ registerRpcMethod(m, o, slot, singleShot)
         \/ registerRpcMethodWorker(m, o, slot, singleShot)
    \/ \E slots \in SlotChoices :
         \/ unregisterReceiver({m}, o, slots)
         \/ unregisterReceiver(Methods, o, slots)
         \/ unregisterReceiverWorker(m, o, slots)
         \/ unregisterReceiverWorkers(o, slots)

Next ==
  /\ fault = "none"
  /\ \/ Registering
     \/ \E m \in Methods :
          \/ unregisterRpcMethod(m) \/ unregisterRpcMethodWorker(m)
          \/ newDataPacketReceived(m)
     \/ \E o \in Objects : destroy(o)
     \/ processPacket \/ MethodReturns \/ SecondPass \/ PacketDone

Spec == Init /\ [][Next]_vars

-----------------------------------------------------------------------------
Call == [method : Methods, pass : {"base", "worker"},
         todo : SUBSET Delegate, running : SUBSET Delegate,
         spent : SUBSET Nat, living : SUBSET Objects]

TypeOK ==
  /\ base \in [Methods -> SUBSET Delegate]
  /\ worker \in [Methods -> SUBSET Delegate]
  /\ container \subseteq Methods
  /\ queueWorkerThreads \in Seq(Threads)
  /\ watched \subseteq Objects
  /\ living \subseteq Objects
  /\ calls \in Seq(Call)
  /\ made \in Nat
  /\ spent \subseteq Nat
  /\ fault \in {"none", "nullDereference", "useAfterFree"}

\* A thread is always there to be dequeued for a packet of a worker method:
\* the threads of all worker delegates are queued, each once, and delegates
\* are only kept in containers that are there.
WorkersAreQueued ==
  /\ \A m \in Methods : \A g \in worker[m] : ThreadOf[g.object] \in Queued
  /\ \A m \in Methods : worker[m] # {} => m \in container
  /\ container # {} => queueWorkerThreads # << >>
  /\ \A i, j \in 1 .. Len(queueWorkerThreads) :
       queueWorkerThreads[i] = queueWorkerThreads[j] => i = j

\* newDataPacketReceived calls no destroyed receiver and uses no container
\* that is gone.
NoMemoryFault == fault = "none"

\* A single shot method is called for one packet only: once it has returned, no
\* list of delegates copied later has it, whatever methods are registered,
\* unregistered or dispatched meanwhile.  (A packet dispatched while it runs, or
\* while it waits in a list copied before, may be given to it as well.)
SingleShotOnce ==
  \A i \in 1 .. Len(calls) : \A g \in calls[i].todo \cup calls[i].running :
    g.id \notin calls[i].spent

\* "if receiver was destroyed, remove it's rpc methods": no packet is given to a
\* receiver of this thread that was destroyed before its delegates were copied.
\* (One destroyed by a method of the same packet is called all the same.)
DestroyedIsNotCalled ==
  \A i \in 1 .. Len(calls) : \A g \in calls[i].todo \cup calls[i].running :
    ThreadOf[g.object] = Main => g.object \in calls[i].living

\* "if receiver was destroyed, remove it's rpc methods"
DestroyedIsUnregistered ==
  \A m \in Methods : \A g \in base[m] \cup worker[m] : g.object \in living

\* "only process if at least on worker thread is available": the pass over
\* the worker methods of a packet calls one if there is one.
WorkerPacketServed ==
  [][(queueWorkerThreads' # queueWorkerThreads /\ calls' # calls) =>
       LET call == calls'[Len(calls')]
       IN  worker[call.method] # {} => call.todo # {}]_vars
==============================================================================
