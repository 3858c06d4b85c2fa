------------------------------- MODULE IEleaph -------------------------------
(***************************************************************************)
(* The devices of an IEleaph object (src/ieleaph.cpp): which are           *)
(* registered, what is connected to their signals, the packet cached in a  *)
(* property of each, the keep alive timer, and the handlers that run on    *)
(* them, with user code called from dataHandler, nested event loops and    *)
(* deferred deletion.                                                      *)
(*                                                                         *)
(* One thread runs everything.  Its call stack is a sequence of            *)
(* activations of dataHandler and of event loops started by user code;     *)
(* the main event loop is below it.  What Qt does when a signal is emitted *)
(* (the slots run before the emitting call goes on) is a composition of    *)
(* functions from device records to device records.                        *)
(***************************************************************************)
EXTENDS Naturals, Sequences, FiniteSets

CONSTANTS
  Devices,        \* addresses of devices (TCP sockets)
  ForgetOptions,  \* the forgetoptions the application uses
  OwnOps,         \* what user code called by dataHandler does to the handler's device
  AppOps,         \* what user code does to devices otherwise
  Oversized,      \* peers may announce packets longer than intMaxDataLength
  MaxNesting      \* bound: event loops nested in the main one

\* enum DeviceForgetOptions, as the connections addDevice makes for each flag.
ForgetDeviceOnClose          == {"closeForget"}
ForgetDeviceOnDisconnect     == {"dropForget"}
ForgetKillDeviceOnClose      == ForgetDeviceOnClose \cup {"closeKill"}
ForgetKillDeviceOnDisconnect == ForgetDeviceOnDisconnect \cup {"dropKill"}

DeviceForgetOptions == {ForgetDeviceOnClose, ForgetDeviceOnDisconnect,
                        ForgetKillDeviceOnClose, ForgetKillDeviceOnDisconnect}
UserOps == {"removeDevice", "close", "deleteLater"}  \* OwnOps also: "wait"

ASSUME IEleaphAssumption ==
  /\ ForgetOptions \subseteq DeviceForgetOptions
  /\ OwnOps \subseteq UserOps \cup {"wait"}
  /\ AppOps \subseteq UserOps
  /\ Oversized \in BOOLEAN
  /\ MaxNesting \in Nat

VARIABLES
  dev,    \* for each address the device there, with the properties set on it
  stack   \* what runs above the main event loop, innermost last

vars == <<dev, stack>>

\* Slots that belong to the IEleaph object; the Kill ones belong to the device.
ForgetWires == {"closeForget", "dropForget"}

Device ==
  [ alive  : BOOLEAN,                        \* the object exists
    open   : BOOLEAN,                        \* isOpen()
    link   : {"up", "closing", "down"},      \* connected, closed with unsent bytes, unconnected
    reg    : BOOLEAN,                        \* in lstDevices, readyRead connected
    wires  : SUBSET {"closeForget", "dropForget", "closeKill", "dropKill"},
    pkt    : {"none", "header", "content", "theirs"},
             \* PROPERTYNAME_PACKET: no packet, header or content awaited, given to the user
    timer  : BOOLEAN,                        \* PROPERTYNAME_KEEPALIVETIMER is valid
    seen   : {"invalid", "fresh", "old"},    \* PROPERTYNAME_KEEPALIVE against the timeout
    dying  : 0 .. MaxNesting + 1,            \* loop level its old timer waits for deletion at
    doomed : 0 .. MaxNesting + 1,            \* loop level it waits for deletion at
    paired : BOOLEAN,                        \* no signal removed it when it was not registered
    fault  : {"none", "doubleDelete", "useAfterFree"} ]

NewDevice ==
  [ alive |-> TRUE, open |-> TRUE, link |-> "up", reg |-> FALSE, wires |-> {},
    pkt |-> "none", timer |-> FALSE, seen |-> "invalid", dying |-> 0,
    doomed |-> 0, paired |-> TRUE, fault |-> "none" ]

Nested == [at |-> "eventLoop"]
Handler(d, at) == [at |-> at, on |-> d]

Frame == {Nested} \cup [at : {"loop", "progress", "callback"}, on : Devices]

Init ==
  /\ dev = [d \in Devices |-> NewDevice]
  /\ stack = << >>

-----------------------------------------------------------------------------
(* Where control is.                                                       *)

Top == stack[Len(stack)]

InEventLoop == IF stack = << >> THEN TRUE ELSE Top = Nested

\* dataHandler runs on d and has reached the point at.
In(d, at) == stack # << >> /\ Top = Handler(d, at)

\* User code called by dataHandler for d.
InUserCode(d) == In(d, "progress") \/ In(d, "callback")

\* Mutation: every activation counts as an event loop.
Level_Activations == 1 + Len(stack)

\* Level of the running event loop, as QEventLoop counts it.
Level == 1 + Cardinality({i \in 1 .. Len(stack) : stack[i] = Nested})

Active(d) == \E i \in 1 .. Len(stack) : stack[i] # Nested /\ stack[i].on = d

Return == SubSeq(stack, 1, Len(stack) - 1)
GoTo(d, at) == Append(Return, Handler(d, at))

\* The application may do op to d from a slot, from its main code, or from
\* code that dataHandler calls.
May(op, d) ==
  /\ \/ InEventLoop
     \/ \E e \in Devices : InUserCode(e)
  /\ op \in (IF InUserCode(d) THEN OwnOps ELSE AppOps)

-----------------------------------------------------------------------------
(* What calls and signals do to a device.                                  *)

\* Mutation: the signals of the device stay connected.
RemoveDevice_StaysConnected(r) ==
  [r EXCEPT
     !.fault = IF r.pkt = "theirs" THEN "doubleDelete" ELSE @,
     !.pkt = "none",
     !.dying = IF r.timer /\ (@ = 0 \/ Level < @) THEN Level ELSE @,
     !.seen = IF r.timer THEN "invalid" ELSE @,
     !.timer = FALSE,
     !.paired = @ /\ r.reg,
     !.reg = FALSE]

\* Mutation: the keep alive system is not deactivated.
RemoveDevice_KeepsTimer(r) ==
  [r EXCEPT
     !.wires = @ \ ForgetWires,
     !.fault = IF r.pkt = "theirs" THEN "doubleDelete" ELSE @,
     !.pkt = "none",
     !.paired = @ /\ r.reg,
     !.reg = FALSE]

\* removeDevice: disconnect, delete the cached packet, stop the keep alive
\* system, forget the device.
RemoveDevice(r) ==
  [r EXCEPT
     !.wires = @ \ ForgetWires,
     !.fault = IF r.pkt = "theirs" THEN "doubleDelete" ELSE @,
     !.pkt = "none",
     !.dying = IF r.timer /\ (@ = 0 \/ Level < @) THEN Level ELSE @,
     !.seen = IF r.timer THEN "invalid" ELSE @,
     !.timer = FALSE,
     !.paired = @ /\ r.reg,
     !.reg = FALSE]

\* A second request to delete an object changes nothing.
DeleteLater(r) == [r EXCEPT !.doomed = IF @ = 0 THEN Level ELSE @]

\* Mutation: a signal runs one slot only.
Emit_OneSlot(r, forget, kill) ==
  IF forget \in r.wires THEN RemoveDevice(r)
  ELSE IF kill \in r.wires THEN DeleteLater(r) ELSE r

\* A signal runs the slots that addDevice connected to it.
Emit(r, forget, kill) ==
  LET s == IF forget \in r.wires THEN RemoveDevice(r) ELSE r
  IN  IF kill \in r.wires THEN DeleteLater(s) ELSE s

AboutToClose(r) == Emit(r, "closeForget", "closeKill")
Disconnected(r) == Emit([r EXCEPT !.link = "down"], "dropForget", "dropKill")

\* QAbstractSocket::close: the connection goes at once unless bytes wait to be
\* sent.
Close(r, unsent) ==
  LET closed == IF r.open THEN [AboutToClose(r) EXCEPT !.open = FALSE] ELSE r
  IN  IF r.link # "up" THEN closed
      ELSE IF unsent THEN [closed EXCEPT !.link = "closing"]
      ELSE Disconnected(closed)

\* ~QAbstractSocket aborts a connection there still is; the connections, the
\* timers and the properties go with the object.
Destroy(r) ==
  LET s == CASE r.link = "up"      -> Close(r, FALSE)
             [] r.link = "closing" -> Disconnected(r)
             [] OTHER              -> r
  IN  [s EXCEPT !.alive = FALSE, !.open = FALSE, !.wires = {}, !.pkt = "none",
                !.timer = FALSE, !.seen = "invalid", !.dying = 0, !.doomed = 0]

\* What dataHandler does with the keep alive property when data arrives.
Touch(r) == [r EXCEPT !.seen = IF r.timer THEN "fresh" ELSE @]

Fault(r, kind) == [r EXCEPT !.fault = kind]

Become(d, r) == dev' = [dev EXCEPT ![d] = r]

-----------------------------------------------------------------------------
(* The application.                                                        *)

\* Mutation: the time of registration is not noted.
addDevice_NotSeen(d, forgetoptions, enableKeepAliveSystem) ==
  /\ InEventLoop
  /\ dev[d].alive /\ dev[d].open /\ dev[d].link = "up"
  /\ ~dev[d].reg
  /\ Become(d, [dev[d] EXCEPT
       !.wires = @ \cup forgetoptions,
       !.timer = @ \/ enableKeepAliveSystem,
       !.reg = TRUE])
  /\ UNCHANGED stack

\* Mutation: the kill flags do not include the forget flags.
addDevice_KillOnly(d, forgetoptions, enableKeepAliveSystem) ==
  /\ InEventLoop
  /\ dev[d].alive /\ dev[d].open /\ dev[d].link = "up"
  /\ ~dev[d].reg
  /\ Become(d, [dev[d] EXCEPT
       !.wires = @ \cup (forgetoptions \ ForgetWires),
       !.timer = @ \/ enableKeepAliveSystem,
       !.seen = IF enableKeepAliveSystem THEN "fresh" ELSE @,
       !.reg = TRUE])
  /\ UNCHANGED stack

addDevice(d, forgetoptions, enableKeepAliveSystem) ==
  /\ InEventLoop
  /\ dev[d].alive /\ dev[d].open /\ dev[d].link = "up"
  /\ ~dev[d].reg
  /\ Become(d, [dev[d] EXCEPT
       !.wires = @ \cup forgetoptions,
       !.timer = @ \/ enableKeepAliveSystem,
       !.seen = IF enableKeepAliveSystem THEN "fresh" ELSE @,
       !.reg = TRUE])
  /\ UNCHANGED stack

\* Called by the application, for a device that need not be registered.
removeDevice(d) ==
  /\ May("removeDevice", d)
  /\ dev[d].alive
  /\ Become(d, [RemoveDevice(dev[d]) EXCEPT !.paired = dev[d].paired])
  /\ UNCHANGED stack

close(d) ==
  /\ May("close", d)
  /\ dev[d].alive
  /\ \E unsent \in BOOLEAN : Become(d, Close(dev[d], unsent))
  /\ UNCHANGED stack

\* Also what handleEventResult does upon a protocol violation.
deleteLater(d) ==
  /\ May("deleteLater", d)
  /\ dev[d].alive
  /\ Become(d, DeleteLater(dev[d]))
  /\ UNCHANGED stack

\* User code waits in an event loop of its own, as waitAsyncForPacket does.
Wait ==
  /\ InEventLoop \/ ("wait" \in OwnOps /\ \E d \in Devices : InUserCode(d))
  /\ Level <= MaxNesting
  /\ stack' = Append(stack, Nested)
  /\ UNCHANGED dev

WaitEnds ==
  /\ stack # << >> /\ Top = Nested
  /\ stack' = Return
  /\ UNCHANGED dev

-----------------------------------------------------------------------------
(* dataHandler: an activation and the ways through the body of its loop.   *)

\* readyRead; not emitted again while a slot connected to it runs.
dataHandler(d) ==
  /\ InEventLoop
  /\ dev[d].alive /\ dev[d].reg /\ dev[d].open /\ dev[d].link = "up"
  /\ ~Active(d)
  /\ stack' = Append(stack, Handler(d, "loop"))
  /\ UNCHANGED dev

LeaveLoop(d) ==
  /\ In(d, "loop")
  /\ stack' = Return
  /\ UNCHANGED dev

HeaderPending(d) == In(d, "loop") /\ dev[d].open /\ dev[d].pkt \in {"none", "header"}

AwaitHeader(d) ==
  /\ HeaderPending(d)
  /\ Become(d, [dev[d] EXCEPT !.pkt = "header"])
  /\ stack' = Return

\* A ping: "goto cleanup_packet".
EmptyPacket(d) ==
  /\ HeaderPending(d)
  /\ Become(d, [Touch(dev[d]) EXCEPT !.pkt = "none"])
  /\ UNCHANGED stack

\* "goto kill": the device is closed, then the packet deleted, which
\* removeDevice may have done before.
Kill(d) ==
  /\ HeaderPending(d)
  /\ Oversized
  /\ \E unsent \in BOOLEAN :
       LET r == Close([dev[d] EXCEPT !.pkt = "header"], unsent)
       IN  Become(d, [(IF r.pkt = "none" THEN Fault(r, "doubleDelete") ELSE r)
                      EXCEPT !.pkt = "none"])
  /\ UNCHANGED stack

\* There is content to come: packetDownloadProcess is called.
Progress(d) ==
  /\ In(d, "loop")
  /\ dev[d].open
  /\ Become(d, IF dev[d].pkt = "theirs"
               THEN Fault(dev[d], "useAfterFree")
               ELSE [Touch(dev[d]) EXCEPT !.pkt = "content"])
  /\ stack' = GoTo(d, "progress")

\* packetDownloadProcess returns: the handler goes on with the packet.
PacketLost(d) == ~dev[d].alive \/ dev[d].pkt # "content"

AwaitContent(d) ==
  /\ In(d, "progress")
  /\ Become(d, IF PacketLost(d) THEN Fault(dev[d], "useAfterFree") ELSE dev[d])
  /\ stack' = Return

ReadContent(d) ==
  /\ In(d, "progress")
  /\ Become(d, IF PacketLost(d) THEN Fault(dev[d], "useAfterFree")
               ELSE [dev[d] EXCEPT !.pkt = "theirs"])
  /\ stack' = GoTo(d, "callback")

\* Mutation: the property keeps pointing to the user's packet.
CallbackReturns_KeepsProperty(d) ==
  /\ In(d, "callback")
  /\ Become(d, IF ~dev[d].alive THEN Fault(dev[d], "useAfterFree") ELSE dev[d])
  /\ stack' = GoTo(d, "loop")

\* newDataPacketReceived returns: the property is reset, the loop goes round.
CallbackReturns(d) ==
  /\ In(d, "callback")
  /\ Become(d, IF ~dev[d].alive THEN Fault(dev[d], "useAfterFree")
               ELSE [dev[d] EXCEPT !.pkt = "none"])
  /\ stack' = GoTo(d, "loop")

-----------------------------------------------------------------------------
(* Events.                                                                 *)

\* The peer, or the network, ends the connection: the device stays open.
PeerDisconnects(d) ==
  /\ InEventLoop
  /\ dev[d].alive /\ dev[d].link = "up"
  /\ Become(d, Disconnected(dev[d]))
  /\ UNCHANGED stack

\* The last bytes of a closed device are sent, or given up.
Flushed(d) ==
  /\ InEventLoop
  /\ dev[d].alive /\ dev[d].link = "closing"
  /\ Become(d, Disconnected(dev[d]))
  /\ UNCHANGED stack

\* keepAliveCloseTimeoutTime passes without data.
Silence(d) ==
  /\ dev[d].seen = "fresh"
  /\ Become(d, [dev[d] EXCEPT !.seen = "old"])
  /\ UNCHANGED stack

\* Mutation: the comparison of the times is the wrong way round.
KeepAlive_Reversed(d) ==
  /\ InEventLoop
  /\ dev[d].timer \/ dev[d].dying # 0
  /\ dev[d].seen = "fresh"
  /\ \E unsent \in BOOLEAN : Become(d, Close(dev[d], unsent))
  /\ UNCHANGED stack

\* The slot of timerKeepAlive.  removeDevice only posts the deletion of the
\* timer: it may still fire before.  An invalid property reads as time 0.
\* (A ping it sends instead is not followed.)
KeepAlive(d) ==
  /\ InEventLoop
  /\ dev[d].timer \/ dev[d].dying # 0
  /\ dev[d].seen # "fresh"
  /\ \E unsent \in BOOLEAN : Become(d, Close(dev[d], unsent))
  /\ UNCHANGED stack

\* An event loop runs the deletions posted under it or under an inner one.
TimerDeleted(d) ==
  /\ InEventLoop
  /\ dev[d].dying >= Level
  /\ Become(d, [dev[d] EXCEPT !.dying = 0])
  /\ UNCHANGED stack

Deleted(d) ==
  /\ InEventLoop
  /\ dev[d].doomed >= Level
  /\ Become(d, Destroy(dev[d]))
  /\ UNCHANGED stack

\* A new connection: its socket may get the address of a destroyed one.
Accepted(d) ==
  /\ InEventLoop
  /\ ~dev[d].alive /\ ~Active(d)
  /\ Become(d, [NewDevice EXCEPT !.reg = dev[d].reg])
  /\ UNCHANGED stack

-----------------------------------------------------------------------------
\* A program that has corrupted its memory promises nothing more.
Sound == \A d \in Devices : dev[d].fault = "none"

Next ==
  /\ Sound
  /\ \/ Wait \/ WaitEnds
     \/ \E d \in Devices :
          \/ \E opts \in ForgetOptions, ka \in BOOLEAN : addDevice(d, opts, ka)
          \/ removeDevice(d) \/ close(d) \/ deleteLater(d)
          \/ dataHandler(d) \/ LeaveLoop(d) \/ AwaitHeader(d) \/ EmptyPacket(d)
          \/ Kill(d) \/ Progress(d) \/ AwaitContent(d) \/ ReadContent(d)
          \/ CallbackReturns(d)
          \/ PeerDisconnects(d) \/ Flushed(d) \/ Silence(d) \/ KeepAlive(d)
          \/ TimerDeleted(d) \/ Deleted(d) \/ Accepted(d)

Spec == Init /\ [][Next]_vars

\* User code returns; a handler reads what has arrived and no more; an event
\* loop that is entered again and again gets round to every timer and deletion.
\* Nothing is assumed of the peer: it may never take the last bytes.
Fairness ==
  \A d \in Devices :
    /\ WF_vars(AwaitContent(d) \/ ReadContent(d)) /\ WF_vars(CallbackReturns(d))
    /\ SF_vars(LeaveLoop(d))
    /\ SF_vars(KeepAlive(d))
    /\ SF_vars(Deleted(d))

FairSpec == Spec /\ Fairness

-----------------------------------------------------------------------------
TypeOK ==
  /\ dev \in [Devices -> Device]
  /\ stack \in Seq(Frame)

\* No packet is deleted twice and no deleted packet or device is used, by
\* dataHandler, removeDevice and the user code between them.
NoMemoryFault == Sound

\* User code called by dataHandler for d is running.
UserCodeFor(d) ==
  \E i \in 1 .. Len(stack) : stack[i] \in {Handler(d, "progress"), Handler(d, "callback")}

\* The packet has one owner at a time.  Whatever user code, timers, signals and
\* deletions do, memory is corrupted in two ways only: user code that dataHandler
\* called for a device runs, or returns, and the device was removed or destroyed
\* during that call, packet and all; or a registered device is killed for an
\* oversized packet.
OnlyHandlersCorrupt ==
  [][\A d \in Devices : dev'[d].fault # dev[d].fault =>
       \/ UserCodeFor(d) /\ (dev[d].pkt = "none" \/ (dev[d].reg /\ ~dev'[d].reg))
       \/ Kill(d) /\ dev[d].reg]_vars

\* A device that is no longer registered keeps nothing of the IEleaph object:
\* no cached packet, no keep alive timer, no connection to removeDevice.
ForgottenIsClean ==
  \A d \in Devices : dev[d].alive /\ ~dev[d].reg =>
    /\ dev[d].pkt = "none"
    /\ ~dev[d].timer
    /\ dev[d].wires \cap ForgetWires = {}

\* The signals of a device make deviceRemoved be called at most once for each
\* deviceAdded, however closing and disconnecting coincide.
RemovedOnce == \A d \in Devices : dev[d].paired

\* lstDevices holds no destroyed device: sendDataPacket to the "last" device
\* never writes to one.
NoDangling == \A d \in Devices : dev[d].reg => dev[d].alive

\* A device to be killed on closing or disconnection waits for its deletion
\* once it is closed or disconnected, also if it was removed before, or is
\* removed by the same signal ("make sure that the socket will deleted
\* properly").
KillIsKept ==
  \A d \in Devices :
    /\ dev[d].link = "down" /\ "dropKill" \in dev[d].wires => dev[d].doomed # 0
    /\ ~dev[d].open /\ "closeKill" \in dev[d].wires => dev[d].doomed # 0

\* The keep alive system ends no connection of a device that was heard of
\* within the timeout, or that is not registered.
SparesTheLiving ==
  [][\A d \in Devices :
       (KeepAlive(d) /\ dev[d].link = "up" /\ dev'[d].link # "up") =>
         dev[d].reg /\ dev[d].seen = "old"]_vars

\* A registered device under the keep alive system that stays silent is
\* eventually forgotten, whatever its options and whatever else goes on; only
\* one that is bound to disconnection may, when it has been closed, stay as
\* long as the peer does not take the last bytes.
SilentIsForgotten ==
  \A d \in Devices :
    (dev[d].reg /\ dev[d].timer /\ dev[d].seen = "old") ~>
      \/ ~dev[d].reg \/ dev[d].seen # "old"
      \/ dev[d].link = "closing" /\ "closeForget" \notin dev[d].wires

\* A device to be killed on disconnection is eventually destroyed once it is
\* disconnected, also if it was removed before ("make sure that the socket
\* will deleted properly").
KilledOnDisconnect ==
  \A d \in Devices :
    (dev[d].link = "down" /\ "dropKill" \in dev[d].wires) ~> ~dev[d].alive

-----------------------------------------------------------------------------
Life == INSTANCE DeviceLife WITH
  exists     <- {d \in Devices : dev[d].alive},
  lost       <- {d \in Devices : dev[d].alive /\ dev[d].link = "down"},
  registered <- {d \in Devices : dev[d].reg},
  mortal     <- {d \in Devices : "dropKill" \in dev[d].wires},
  condemned  <- {d \in Devices : dev[d].doomed # 0}

\* With options bound to disconnection, a device is forgotten, condemned and
\* destroyed as DeviceLife says, whatever calls, signals and event loops come
\* between.
ImplementsDeviceLife == Life!Spec
==============================================================================
