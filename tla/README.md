# eleaph-qt in TLA+

eleaph-qt is a packet handler for Qt: an application derives from `IEleaph`, gives
it devices (mostly TCP or SSL sockets), and gets the packets that arrive on them;
`EleaphRpc` routes the packets by a method name to slots of receivers.  This
directory holds TLA+ models of that code, TLC configurations that check them, and
TLAPS proofs.  Paths such as `ieleaph.cpp:91` are relative to `src/src/`.

Run a configuration with `tlc -config <cfg> <MC module>` and a proof with
`tlapm <module>`.  `PROJECT.json` lists every run, the property each mutant breaks,
the lines each definition models, findings, hazards and theorems.

## 1. The system

| component | state | operations | modelled in |
|---|---|---|---|
| Packet framing (`ieleaph.cpp:129-218`, `292-312`) | bytes buffered by the device, the packet cached in the property `PROPERTYNAME_PACKET`, the place in `dataHandler`'s loop | `sendDataPacket`, `dataHandler` | `PacketFraming`, abstractly `PacketChannel` |
| Device registry and life cycle (`ieleaph.cpp:40-124`) | `lstDevices`, the connections to each device's signals, its properties (packet, keep alive time, keep alive timer), the sockets' own state | `addDevice`, `removeDevice`, `dataHandler` as seen by the device, the keep alive slot, closing, disconnecting, deleting | `IEleaph`, abstractly `DeviceLife` |
| RPC methods (`eleaphrpc.cpp:15-205`, `278-350`, `371-395`) | `mapRPCFunctions`, `mapWorkerRpcFunctions`, `queueWorkerThreads` | `registerRpcMethod(Worker)`, `unregisterRpcMethod(Worker)`, `newDataPacketReceived`, `unregisterRpc(Worker)Object` | `RpcDispatch`; one delegate in `RpcPacket` |
| TCP server (`ieleaph.cpp:224-260`) | `serverTcp`, its pending connections, the replaced servers | `startTcpListening`, `newTcpHost` | `TcpServer` |
| SSL server (`ssltcpserver.cpp`) | sockets whose handshake runs | `incomingConnection`, `handleSocketEncryption`, `handleSSLError` | `TcpServer` |
| Meta events (`eleaphrpc_packethandler.cpp`, `eleaphrpc_packetmetaevent.cpp`, `eleaphrpc.cpp:65-88`) | the Before and After events of each handler | `processPacket`, `processEvent`, `handleEventResult`, the filter by thread | `RpcPacket` |
| Waiting for a packet (`eleaphrpc.cpp:255-269`, `eleaphrpc_asyncpacketwaiter.cpp`) | a stack of waits, their timeouts, event loops | `waitAsyncForPacket`, `packetReceived` | `AsyncWait`; what else goes on in a nested loop is in `IEleaph` and `RpcDispatch` |
| RPC header (`eleaphrpc.cpp:244-253`, `280-292`) | - | `constructRpcPacket`, the head of `newDataPacketReceived` | `RpcHeader`, used by `RpcPacket` |
| Packet data types (`ieleaph.h:49-98`, `eleaphrpc_packet.h`) | length, owner of the bytes | `move` | as a length and an owner, in `PacketFraming`, `IEleaph` and `RpcPacket` |
| Examples, build file, forwarding headers | - | - | not modelled: use and layout |

### How the parts meet

A socket's `readyRead` calls `dataHandler`, which calls `packetDownloadProcess` and
`newDataPacketReceived`: virtual functions, so user code runs in the middle of it.
In an `EleaphRpc` that user code is the dispatch, which calls the Before events, the
slot, and the After events of every delegate, synchronously (the `emit` at
`eleaphrpc.cpp:334` is a plain call of a slot).  All of this may close, remove or
delete the device, may (un)register methods, and may start an event loop
(`waitAsyncForPacket`), in which everything else goes on.  Closing a device emits
`aboutToClose` and, at once or when the last bytes are sent, `disconnected`; the
slots `addDevice` connected, `removeDevice` and `deleteLater`, run inside these
calls.  The keep alive timer closes a device from the event loop.  Receivers in
other threads may be destroyed at any time.

### What is hard, and what makes each part correct

* Framing: the stream is cut anywhere; `readyRead` is not repeated for bytes
  announced before, and not emitted while one of its slots runs; lengths are of 32
  bits, `bytesAvailable` of 64.  Correct: the packets come out as they were put in,
  once and in order, and none is slept on.
* Registry: cascades of signals inside `close()`, which run `removeDevice` under
  `dataHandler`; ownership of the cached packet between the two and the user;
  deferred deletion of devices and timers; event loops in handlers; an address that
  gets a new object.  Correct: memory is sound, a removal is complete and happens
  once, no destroyed device stays, silent devices are forgotten and only those,
  killed ones are destroyed.
* RPC methods: the dispatch works on a copy of the delegates while the methods it
  calls change the maps; receivers vanish; one queue of threads serves all methods.
  Correct: the queue never runs dry, no destroyed receiver is called, a single shot
  method is called once, a worker packet reaches a worker.
* Servers: one pending connection is taken per `newConnection`, by a slot that looks at
  the current server while an old one may emit; handshakes end in any order or never;
  a peer may be gone before its socket is registered.  Correct: nothing is left pending,
  no dead socket is registered, nothing outlives its replaced server.
* Waits: a wait is a nested event loop, so waits return innermost first, a timer outlives
  a wait on the caller's loop, and a handler that waits holds back its own device.
  Correct: a wait ends for a reason of its own, and does end.
* Events: answers of several events decide over one method; the thread check removes from
  the list it walks over.  Correct: the method runs exactly if all events before it agreed.
* Header: 16 bit length, Latin-1 out and UTF-8 in.  Correct: what was sent arrives.

## 2. The modules

### PacketChannel, PacketFraming, PacketFramingProofs

`PacketChannel` is the promise: a growing list of packets `sent`, and a receiver that
handles them one at a time: swallows the empty ones (keep alive pings), delivers
those up to `MaxDataLength`, refuses the first longer one by closing.  A removal may
void the contract (`intact`): a removal between header and content drops the cached
packet, so that parsing resumes in the middle of a frame
(`ieleaph.cpp:103-109`); the channel then promises nothing.

`PacketFraming` is the code.  Bytes are offsets into the stream: `written`, `arrived`
and `taken` count those the peer has written, those that have arrived, and those
`dataHandler` has read.  A header read where the peer wrote one gives its length,
and any value elsewhere (`HeaderAt`).  `dataHandler`'s loop has one action per way
through its body (`LeaveLoop`, `AwaitHeader`, `ReadHeader`, `EmptyPacket`, `Kill`,
`MoreContent`, `AwaitContent`, `ReadContent`, `CallbackReturns`), cut where user code is
called: at `packetDownloadProcess` (`pc` = `"progress"`) and at `newDataPacketReceived`
(`"callback"`), where bytes may arrive if the user code spins an event loop.  `Available`
narrows the number of bytes to `LenSpace`, as the assignment at `ieleaph.cpp:138` does;
`sampled` is `intAvailableDataLength` across `packetDownloadProcess`: line 193 compares what was
available before the call.  `Arrive` is Qt.  The history `unseen` counts the bytes that nothing
has announced and that no pass of the loop has counted (`Pass`) since: those that arrive before the
device is added, or during `packetDownloadProcess`.

### DeviceLife, IEleaph, IEleaphProofs, IEleaphMemoryProofs

`dev[d]` is the device at an address with what hangs on it: its socket state
(`alive`, `open`, `link`), its registration, the connections made for its forget
option (`wires`), the owner of the packet in its property (`pkt`), the keep alive
timer and time (`timer`, `seen`), the event loop level its old timer or itself is
to be deleted at (`dying`, `doomed`; 0 is never), and two history fields (`paired`,
`fault`).  Signals are direct calls, so the emission of `aboutToClose` and
`disconnected` and the slots they run are functions on device records
(`Close`, `Emit`, `RemoveDevice`, `DeleteLater`), composed as the calls nest.
`stack` holds the activations of `dataHandler` and the event loops user code has
started.  User code may act on devices where `May` says so: `OwnOps` is what it does
to the device whose handler calls it, `AppOps` what it does otherwise.  Like the code,
`removeDevice` takes any device, registered or not.

`fault` records a packet deleted twice or a device or packet used after its
deletion; the model then stops (`Next` requires `Sound`), as a program with
corrupted memory promises nothing.

`DeviceLife` is what all this promises an application whose forget options are bound to
disconnection: a device is forgotten in the step that loses its connection and is not
registered afterwards; it is condemned in that step if an option said so, registered still or
not; a sentence is never withdrawn; only a condemned device is destroyed, without a trace.
There are no signals, handlers, stacks, levels or timers in it.  `IEleaph` maps to it by five
sets of devices (`Life`): `lost` are the existing ones whose `link` is down, `mortal` those
with `dropKill` among their connections, `condemned` those with a level in `doomed`.

### RpcDispatch, RpcDispatchProofs, RpcCallProofs

`base` and `worker` are the two maps (a delegate has an `id`, the age of its
registration, in place of its address), `container` the methods for which
`mapWorkerRpcFunctions` has an inner map, `calls` the stack of dispatches in progress,
each with the copied list still `todo` and the delegate `running`, and, for the properties, with
the `spent` single shot delegates and the `living` receivers as of the time the list was copied.
`watched` are the receivers whose `destroyed()` reaches `unregisterRpcWorkerObject`
(`eleaphrpc.cpp:103`): that of a receiver of base methods only does not touch the worker maps.  Delegates are
called youngest first, the order of `QMultiHash::values`.  User methods may do what
`MethodOps` lists, `"wait"` being an event loop in which another packet is
dispatched.  `destroy` of a receiver of another thread does not unregister:
`destroyed()` is then queued and `sender()` is 0 when it is delivered
(`eleaphrpc.cpp:371-395`).

### TcpServer, TcpServerProofs

`server` holds the server objects: their `state` (a replaced server is `doomed` until the
event loop deletes it), whether they listen and the queue of `pending` connections; `conn`
follows the connection of each client through `at`: the kernel's backlog, the handshake,
pending, registered, doomed.  A signal runs its slots in the step that emits it:
`newTcpHost(s, k)` is applied to the servers and connections as they are at the `emit`,
which for `SslTcpServer` is after `addPendingConnection` (`ssltcpserver.cpp:40-44`), and, by
`QTcpServer`, once more after `incomingConnection`, when there is nothing new.
A registered socket's own life is the one of `IEleaph` with
`ForgetKillDeviceOnDisconnect`; here it is its disconnection and deletion.

### AsyncWait, AsyncWaitProofs

`stack` is the call stack of the thread: waits (each with its loop, of its own or the one
the caller passed, its timeout, `got` and `quit`) and activations of `dataHandler`.  Only
the top acts; packets arrive, timers fire and handlers start while the top is an event
loop.  A packet goes to the waits of its method, youngest first, and perhaps to a method of
the application between them (`newDataPacketReceived` splits at `k`), which may wait in
turn: the older waits, in `late`, get the packet when it returns, also if they were served
meanwhile, since the copied list still has them.  `stale` counts the timers that ended
waits have left on the caller's loop (`eleaphrpc.cpp:262`).

### RpcHeader, RpcPacket, RpcPacketProofs

`RpcHeader` has the codec as operators: a content is the number its first two bytes hold
and the bytes behind them, characters are classes (ASCII, the rest of Latin-1, all others),
a `qint16` is a number modulo `2 * Half`.  `RpcPacket` follows one delegate: the check
of its events' threads at registration (`CheckThread`, one index at a time, with a
`RemoveAt` that shifts those behind it), the packet it is given, and `processPacket` as a walk of
`next` over `lstEvents` in the phases `before`, the method, and `after`.  Contents
that no `constructRpcPacket` wrote arrive as well (`Foreign`).

### How the models fit together

`PacketFraming` gives the packets whose handling is `IEleaph`'s `PacketForUser`; the content of
one is what `RpcPacket` takes apart; `RpcDispatch` chooses the delegates one of which
`RpcPacket` follows, and `AsyncWait` the order in which those that are waits get it.
`TcpServer` ends where `IEleaph`'s `Accepted` begins.  They are not composed in one
state space: each interface is a call whose arguments the callee's model takes from all
possible ones.

### Mutations

An operator `X_Something` with the comment `Mutation:` stands before the definition
`X` it is a faulty variant of.  No specification uses it: `PROJECT.json` names, for
each property, the variant that violates it, which shows that the run would notice.

## 3. The runs

| run | instance | shows | states |
|---|---|---|---|
| `framing` | 3 packets of length 0, 1, 3 or 4, limit 3, header 2 | `TypeOK`, `Aligned`, `NeverSleepsOnPacket`; implements `PacketChannel`, and its liveness up to unseen bytes (`GetsRoundToEveryPacket`) | 339 000 |
| `device_safety` | 2 devices, the two Kill options, one nested loop anywhere, user code without restraint, oversized packets | `OnlyHandlersCorrupt`; `ForgottenIsClean`, `RemovedOnce`, `KillIsKept`, `TypeOK`, up to the first memory fault | 4.05 million |
| `device_nesting` | 2 devices, the two Disconnect options, one nested loop anywhere, user code without restraint, oversized packets | `NoDangling`, `RemovedOnce`, up to the first memory fault; implements `DeviceLife` | 1.25 million |
| `device_liveness` | 2 devices, the default option and the server's, under `FairSpec` | `SilentIsForgotten`, `KilledOnDisconnect`, `SparesTheLiving` | 29 000 |
| `rpc_safety` | 2 methods, a receiver of the main thread that may be destroyed and one of a worker, 3 registrations, methods that (un)register base methods | `NoMemoryFault`, `DestroyedIsUnregistered`, `TypeOK` | 130 000 |
| `rpc_nesting` | 2 methods, 3 receivers in 3 threads, 2 registrations, user methods that do everything, 2 dispatches deep | `WorkersAreQueued`, `SingleShotOnce`, `DestroyedIsNotCalled` | 390 000 |
| `server` | 3 clients, 2 server objects, 2 ports, plain and SSL, 2 pending connections, under `FairSpec` | `TypeOK`, `NoneStranded`, `RegisteredAreLive`, `PendingIsQueued`, `OwnersRemain`, `ReplacedIsGone` | 136 000 |
| `waits` | 2 devices, 2 methods, 2 waits at a time, 2 packets, one timer on the caller's loop, under `FairSpec` | `TypeOK`, `QuitForAReason`, `TimedWaitReturns`, `AnswerIsHeard` | 36 000 |
| `packet` | names of 6 classes, 3 data, 24 foreign contents, the 85 lists of up to 3 events of 4 kinds, `qint16` of 6 values | `TypeOK`, `OwnEventsKept`, `MethodIsGuarded`, `DeliveredAsSent` | 47 000 |

Runs that show where the code departs from its comments, each a counterexample:

| run | property | what happens |
|---|---|---|
| `device_kill` | `NoMemoryFault` | an oversized length closes the device, `removeDevice` runs in `close()` and deletes the cached packet, then `dataHandler` deletes it again (`ieleaph.cpp:212-216`) |
| `rpc_starved` | `WorkerPacketServed` | the thread whose turn it is has no delegate for the method, and the packet is dropped |
| `rpc_destroyed` | `DestroyedIsUnregistered` | a receiver destroyed in another thread stays registered |

### Bounds, and why they are enough

* Framing: the header is longer than the shortest packet and shorter than the longest
  allowed one; three packets put a packet of every kind before and after every other
  and all cuts of a header and a content occur.  `LenSpace` = 20 exceeds all bytes
  of three packets, so that narrowing does not bite in the run; that `Aligned` also
  holds when it does is proved.
* Devices: what `IEleaph` does to one device reads and writes that device only; two
  devices are needed for handlers of one that act on another and for a stack with
  both.  `MaxNesting` = 1 separates the level an object was asked to be deleted at
  from the level of the running loop.  Liveness is checked without nesting.
* RPC: two methods and three threads are needed for an unlucky queue, three
  registrations for one that is queued twice or removed in between.  `MaxDelegates`
  counts registrations over the whole run, not those at a time.
* Servers: two server objects make an old and a new one, and one that takes over a freed
  object; three clients put one connection into a handshake, one into a queue and one into
  the registry at once; two ports let a second server listen beside the first.
* Waits: two waits with a handler of each device between and above them make every order
  of a stack in which an inner one can keep an outer one from returning; one stale timer is
  enough for a timeout that hits the next wait.  The two packets may serve both waits, or
  one of them twice.
* Packet: `Half` = 3 gives names that fit, names that make the length negative, and names
  whose length wraps to a positive number; the foreign fields take every value.  Lists of three events have
  two neighbours of another thread with one behind them.
* Symmetry is used for the two devices in the safety runs only.
* Deadlock is not checked in `device_safety`, `device_nesting` and `rpc_nesting`: a program whose
  memory is corrupted, which these runs let happen, stops there.

### Why some runs restrain user code

`device_safety`, `device_nesting`, `rpc_nesting` and `framing` restrain nothing.  The code does
corrupt memory under some user code (below), and the model stops there, so these runs show what
holds until then, and `OnlyHandlersCorrupt` that nothing else corrupts it.  `device_safety` uses the
Kill options: with the plain Close option an address that dangles in `lstDevices` (below) may
be taken by a new device.  In `device_liveness` handlers only delete their device (what
`handleEventResult` does) and no packet is oversized, since promises about the future are void once
memory is corrupted; and the application removes no device, since the late timer of a removed device
would refute `SparesTheLiving` (below).  `rpc_safety`, which is about memory too, does not unregister
worker methods inside methods, since a container that is gone when a single shot method returns
is dereferenced (`eleaphrpc.cpp:345`), and destroys only a receiver of the main thread, outside of
methods (`rpc_destroyed` has the other).  In `waits` only the outermost wait may be without a timeout
(`UntimedInside` = FALSE): a wait inside another that never ends keeps that one from returning.

### Fairness

* Framing: what is written arrives, a handler that runs goes on and the user code it calls
  returns; nothing else is assumed of the application, so a device need not ever be registered.
* Devices: weak fairness for the return of user code; strong fairness for leaving the
  loop of `dataHandler` (a device has a finite number of bytes), for the timer slot and the
  deferred deletion.  Strong, because they are enabled only while
  an event loop runs, which handlers interrupt again and again: Qt delivers posted
  events and due timers on each turn of the loop and drops none.  No fairness is
  assumed for arriving data, for the peer, which need not take the last bytes of a socket that
  is being closed, or for calls of the application.
* Servers: weak fairness for posted deletions, of servers and of sockets, and for noticing
  that a peer has gone; none for handshakes, `accept`, peers or the application.
* Waits: strong fairness for due timers and for leaving a loop that was told to quit, for
  starting a handler for a device with data, and for the return of methods; weak for the
  loop of a running `dataHandler`.  Strong, because a loop is left and entered again while
  handlers and waits come and go above it; Qt forgets neither timers nor announced data.
  That a method returns is asked of the application, not more often than it calls it.

### Known disagreements without a run

These were met while modelling, and shown by TLC or read off the code; either no text of the
repository promises otherwise, or the run gave way to one that shows more.

* `addDevice` only connects `readyRead` (`ieleaph.cpp:46`): a packet that is already buffered waits for further
  data (`NeverSleepsOnPacket` counts such bytes as unseen).
* The number of available bytes at `ieleaph.cpp:193` was taken before `packetDownloadProcess` was called
  (line 190): if that spins an event loop in which the rest of a packet arrives, the handler returns with
  the whole packet buffered, and nobody is called until more data comes (unseen bytes again).
* `close()` of a socket with unsent bytes emits `disconnected` only when the peer has taken them
  (`ieleaph.cpp:71`): a device forgotten on disconnection whose silent peer does not read is closed by the
  keep alive timer and stays registered, and further timeouts change nothing (`SilentIsForgotten`
  excepts it; without the exception TLC refutes it).
* User code that closes the device whose packet it holds loses the packet: `removeDevice`
  deletes it under the user (`ieleaph.cpp:201`); in `packetDownloadProcess` the handler goes on with a
  packet that is gone (line 193).  These and the finding `device_kill` are all: `OnlyHandlersCorrupt`.
* The keep alive timer of a removed device is deleted later, not stopped: when due before
  that, it reads time 0 and closes the device, which may be registered again
  (`ieleaph.cpp:114`; `"removeDevice"` among `AppOps` refutes `SparesTheLiving`).
* A second `startTcpListening` on the same port cannot listen: the old server holds the port
  until the event loop deletes it (`ieleaph.cpp:254-260`).
* A socket whose handshake fails, or never ends, stays until its server is replaced
  (`ssltcpserver.cpp:49`); that it goes then is `ReplacedIsGone`.
* A wait on the caller's loop may come back empty because of an earlier wait's timer
  (`eleaphrpc.cpp:262`): `QuitForAReason` is about waits with a loop of their own.
* A method that waits for another packet of the device whose packet it handles does not get it: `readyRead` is
  not emitted while its slot runs (`AnswerIsHeard` excludes such devices), and, if it waits
  without a timeout, never returns; nor do the waits below it (`UntimedInside` = TRUE
  refutes `TimedWaitReturns`).
* The thread check passes over the event behind one it removes (`eleaphrpc.cpp:74-87`): of two
  events of another thread side by side the second stays (`OwnEventsKept` excludes that).
* Names that are not ASCII do not arrive (`toLatin1` at `eleaphrpc.cpp:251`, UTF-8 at 283), and the
  length of one with 32768 characters or more wraps; a foreign header with a length beyond
  the content makes `intPacktLength` differ from the size of the data (`eleaphrpc.cpp:282-293`).
* After a protocol violation the packets the device has already sent are still dispatched, until
  the event loop deletes it (`eleaphrpc_packethandler.cpp:74`).
* `sendDataPacket` to "the last registered device" takes an arbitrary element of a hash set
  (`ieleaph.cpp:276`).
* With `ForgetDeviceOnClose`, a device whose peer disconnects and which is then deleted
  is destroyed without `aboutToClose`: it stays in `lstDevices` (`NoDangling` fails for
  that option; no text of the repository promises otherwise).
* A single shot method that waits in an event loop is called again by a packet of its name that is
  dispatched there, since it is unregistered after its return (`eleaphrpc.cpp:337`); `SingleShotOnce` is about
  the packets after that.
* A single shot worker method that unregisters the worker methods of its name leaves a container that
  is dereferenced all the same (`eleaphrpc.cpp:345`).
* Methods of worker receivers run in the thread of the `EleaphRpc` object
  (`eleaphrpc.cpp:333` says otherwise).
* A packet for a method nobody has registered is not deleted (`eleaphrpc.cpp:285`).
* The delegates copied before a base method destroys the receiver of another are called
  nevertheless (`eleaphrpc.cpp:332`); packets that come later do not find them (`DestroyedIsNotCalled`).

## 4. Proofs

All proofs are for every value of the constants allowed by the assumptions of the
modules: `FramingAssumption`, `IEleaphAssumption`, `DispatchAssumption`, `TcpServerAssumption`,
`AsyncWaitAssumption`, `HeaderAssumption` and `PacketAssumption`.

`PacketFramingProofs`.  `Aligned` is not inductive: that the bytes behind a header are a
content needs to know where headers are.  `IInv` adds `Directory` (the frames are a
gapless row; headers are `HeaderSize` apart at least, so that an offset names one
frame) and `Bounds` (nothing is read before it arrives; the cached length is within the
limit).  `HeaderIsNext` and `ContentIsNext` say what a read finds.  From these:

* `TypeCorrect`, `Alignment`: `Spec => []TypeOK`, `Spec => []Aligned`;
* `NoSleep`: `Spec => []NeverSleepsOnPacket`, by the further invariant `Rested`, without a condition
  on when bytes arrive;
* `Refinement`: `Spec => ImplementsChannel`: initial states map to initial states and
  each step to a step of the channel or a stutter.

`RpcDispatchProofs`.  `IInv` is `TypeOK` and `WorkersAreQueued`, which need each other:
the head of the queue is a thread only if the queue is not empty.
`WorkersAreQueued` itself has the parts that make it inductive: the queue has the thread
of every delegate, delegates only lie in containers that exist, a queue with a
container is not empty, and no thread is queued twice.  `Rotation` and `Enqueue` are
the two facts about sequences it rests on, `Unregistering`, `Rotating` and
`RegisterWorker` the three ways in which operations touch it.  Results:

* `TypeCorrect`: `Spec => []TypeOK`, `QueueServes`: `Spec => []WorkersAreQueued`;
* `DestroyedAreGone`: `Spec => []DestroyedIsUnregistered` if all receivers that are
  destroyed live in the thread `Main`.  The step that matters is `DestroyingUnregisters`:
  the removal walks over `container`, so it finds all worker delegates only because
  `WorkersAreQueued` puts each into a container, and it runs only because `Attended` has the receivers of
  all worker delegates watched.  `Attendance` (`Spec => []Attended`) needs no assumption: registered
  receivers of the thread `Main` live.  Without the assumption the run `rpc_destroyed` refutes the theorem.

`IEleaphProofs`.  The invariant `IInv` says of each device record that it is `Fine`:
typed; `Paired`, that is what is connected to `removeDevice` is registered (which makes
`RemovedOnce` inductive); and, when every option has the disconnect flag (`Tethered`),
`Held`: a registered device exists, is not disconnected and will be forgotten when it is
(which makes `NoDangling` inductive).  Signals nest as functions on records, so there is one
lemma for each of these functions (`RemoveDeviceFine`, `EmitFine`, `CloseFine`,
`DestroyFine`, ...), and an action is `Fine` because the functions it is composed of are.
The second part, `LevelOK`, bounds the number of event loops on the stack by
`MaxNesting`; its lemmas (`Push`, `Pop`, ...) count frames with `Cardinality`.  Results:

* `TypeCorrect`: `Spec => []TypeOK`, `OnceRemoved`: `Spec => []RemovedOnce`;
* `NoneDangles`: `Spec => []NoDangling` if every option contains `dropForget`.  With
  the plain Close option it fails, see the disagreements above.

None of the three restrains user code, oversized packets or nesting.

On `IInv` rests a second invariant, `Ongoing`, which says of each record that it is `Lasting`:
`Kept` (a device past the signal of its Kill option is doomed), `Clocked` (a timer belongs to
a registered device, and the time it reads is valid), `Rested` (if the application removes
nothing, the left over timer of a forgotten device is on one whose connection is closed) and
`Leashed` (with `Tethered`, nothing is connected to closing; a destroyed device has nothing).
`Follows` says what every call and signal leaves alone, so that these are carried through the
nested functions.  Results:

* `KillLasts`: `Spec => []KillIsKept`, for all options, user code and nesting: the safety half of
  `KilledOnDisconnect`, and, unlike that, of the Close options too;
* `LivingAreSpared`: `Spec => SparesTheLiving` if neither `OwnOps` nor `AppOps` has
  `"removeDevice"`.  With it TLC refutes the property (see the disagreements above);
* `LivesAsPromised`: `Spec => ImplementsDeviceLife` if every option contains `dropForget`.  A
  change of one record is `Alike` to what `DeviceLife` sees, or `Loses` the connection, or is one
  of its other steps: the five sets after a change are given by `Mapped`, the cascade of a close or a
  disconnection is one `Lose` (`CloseLoses`, `DisconnectedLoses`), and there is one lemma for each
  group of actions (`AddingRefines`, `RemovingRefines`, `DoomingRefines`, ...).  With the Close
  options a device may lose its connection and stay registered, so the hypothesis is needed.

`IEleaphMemoryProofs`.  Whatever user code does, who owns the packet of a device is tied to the
stack.  `Owned` says that a device has at most one handler, and that only the innermost is not in
user code (`Shaped`); that a cached packet belongs to a registered device (`Holds`); and, as long as memory is
sound, that the packet of a device is where its handler has left it, or gone with the registration or the
device (`Owner`): the user owns it during the callback only, and a handler between two calls of
user code has a registered device.  Signals and calls leave a device registered as it was, or remove it
(`Outcome`), or destroy it (`Ends`), function by function; every way in which the stack changes keeps
`Owned` (`StackOwned`, `OutsideOwned`, ...).  Results, for all forget options, user code, packet sizes and nesting:

* `NothingIsKept`: `Spec => []ForgottenIsClean`; `HandlersAloneCorrupt`: `Spec => OnlyHandlersCorrupt`.

`RpcCallProofs`.  Dispatches may be nested to any depth.  `Orderly` says that an id names one
delegate in one place of the two maps and that spent ones are in neither (`Identified`), and of every
dispatch in progress that it is `Fine`: its delegates were neither spent nor without their receiver when it
copied them, and are found where it has found them, if anywhere.  The step that matters is
`ReturningOrderly`: the delegate is removed in one place, and because of `Fine` no other has it.  A list
copied afterwards is fine because the maps are (`FreshCall`, which takes from `Attended` that the
receivers live).  Results, without restraint of user methods:

* `OneShot`: `Spec => []SingleShotOnce`; `NoneCalledDestroyed`: `Spec => []DestroyedIsNotCalled`.

`TcpServerProofs`.  `IInv` is `TypeOK`, `NoneStranded`, `RegisteredAreLive`, and that nothing in a
backlog is down.  The step that matters is `AddAndTake`: a connection is added to some server's
queue and `newTcpHost` takes one from the current server's, which is the same one, or none.
`Orderly` builds on it (`AddsOrRegisters`: the connection is added to a replaced server's queue, or
registered with all queues as they were): the queues are exact, the current server is the one in use,
and whoever listens or owns a socket exists (`Owned`, without which a server object that is used
again could inherit sockets or queue entries).  Results:

* `TypeCorrect`, `NoneIsStranded`, `OnlyTheLive`: `Spec => []TypeOK`, `[]NoneStranded`, `[]RegisteredAreLive`;
* `QueuesAreExact`: `Spec => []PendingIsQueued`; `NobodyIsLeft`: `Spec => []OwnersRemain`, the safety
  half of `ReplacedIsGone`.

`AsyncWaitProofs`.  `IInv` says of the stack that it is `Sound`: every element is a wait or a handler;
a wait on its own loop that was told to quit has a reason; and what a handler keeps for
`late` are waits below it, so that a position never names another wait than the one it was
taken for.  `Push`, `Pop` and `TopChanged` are the three ways in which the stack changes.
Results: `TypeCorrect`, `EndsForAReason`.

`RpcPacketProofs`.  `ReadIsWritten`: for every name that can be carried and all data, the head of
`newDataPacketReceived` gets from the output of `constructRpcPacket` what went into it.  For any other
content `NameIsRead` shows that a name is read: the first NUL is the least of a set of numbers, which
`LeastNatural` takes from the well-foundedness of the naturals.  The thread check and the walk over
the events are steps, so that lists of any length need no induction over the list:

* `Delivery`: `Spec => []DeliveredAsSent`; `TypeCorrect`: `Spec => []TypeOK`;
* `OwnAreKept`: `Spec => []OwnEventsKept`.  `Checked` says that the events that are left stand in
  increasing places of the list given (`Placed`), all own ones among them, those the check has not come
  to being the end of the list; and, if no two of another thread are neighbours (`Apart`), that what
  lies behind the check is own;
* `GuardHolds`: `Spec => []MethodIsGuarded`.  `Guarding` adds where the walk is: what was called is of its
  type and has a slot (`InPlace`), and in the turn of an event all before it were called and
  nobody has refused (`Turn`).

Only model-checked: liveness (`GetsRoundToEveryPacket`, `SilentIsForgotten`, `KilledOnDisconnect`,
`ReplacedIsGone`, `TimedWaitReturns`, `AnswerIsHeard`), which the prover does not reach.  All
other properties of the passing runs are proved, but for `NoMemoryFault`, which holds in `rpc_safety` by what that run
leaves out; `SparesTheLiving`, `DestroyedIsUnregistered`, `NoDangling` and `ImplementsDeviceLife`
under the hypotheses named with them, the rest without any.

## 5. Not modelled

Payloads beyond their length, texts, logging; the contents of the virtual functions
(`deviceAdded`, `deviceRemoved` are taken to leave the registry alone); `addDevice`
of a device that is not connected, or registered already, or from inside a handler; the ping the timer sends (`ieleaph.cpp:76`); the
copying by `EleaphPacket::move`.  `sendDataPacket` to "the last registered device" takes an
arbitrary element of a hash set: there is no right one a property could ask for.
TLS itself, certificates and ciphers; failures of `listen` other than a taken port; and
that a server that is deleted reports the connections in its backlog as refused.  Contents of
fewer than two bytes (the header is read without a check), and multi-byte UTF-8 sequences that
happen to lie in Latin-1 text.  The receivers of events that are destroyed while their delegate is
registered: nothing in the code guards them, so every such use is a fault.
The life of the `EleaphRpcPacket` object: it is shared by reference count, and the delegates
get a copy.  Methods that run in the dispatching thread at the same time as the code
of their own thread (`eleaphrpc.cpp:334`): the consequence lies in user code.

## 6. Plan

Done: the framing, the registry, the dispatch, the servers, the waits, the events and the header,
each with a run and proofs.  Left:
a composition of `PacketFraming`, `RpcHeader` and `RpcDispatch` from `sendRPCDataPacket` to the call.

The number of runs is kept small: counterexample runs of settled findings gave way to
runs of further components.
