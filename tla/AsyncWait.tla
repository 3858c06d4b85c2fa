------------------------------ MODULE AsyncWait ------------------------------
(***************************************************************************)
(* Waiting for a packet inside the thread that has to receive it:          *)
(* EleaphRpc::waitAsyncForPacket (src/eleaphrpc.cpp) with its waiter       *)
(* (src/eleaphrpc_asyncpacketwaiter.cpp).                                  *)
(*                                                                         *)
(* A wait runs an event loop.  In it packets are dispatched to methods,    *)
(* which may wait in turn: stack is the thread's call stack, of waits and  *)
(* of activations of dataHandler.  A wait that was told to quit returns    *)
(* only when everything above it has returned.                             *)
(***************************************************************************)
EXTENDS Naturals, Sequences, FiniteSets

CONSTANTS
  Devices,        \* registered devices
  Methods,        \* names of RPC methods
  UntimedInside,  \* waits without a timeout are also made inside methods and slots
  MaxWaits,       \* bound: waits at the same time
  MaxPackets,     \* bound: packets that arrive
  MaxTimers       \* bound: timers on the caller's loop

ASSUME AsyncWaitAssumption ==
  /\ UntimedInside \in BOOLEAN
  /\ MaxWaits \in Nat /\ MaxPackets \in Nat /\ MaxTimers \in Nat

VARIABLES
  stack,   \* waits and handlers, innermost last
  buffer,  \* per device, the methods of the packets that have arrived
  unsent,  \* packets still to arrive
  stale    \* timers that ended waits have left on the caller's event loop

vars == <<stack, buffer, unsent, stale>>

Wait ==
  [ kind   : {"wait"},
    method : Methods,
    loop   : {"own", "callers"},  \* its own QEventLoop, or the one of the caller
    timed  : BOOLEAN,             \* timeoutMs > 0
    due    : BOOLEAN,             \* its timeout has passed
    got    : BOOLEAN,             \* receivedDataPacket is set
    quit   : BOOLEAN ]            \* the loop was told to quit

\* late: the waits that get the packet after the method that runs now.
Handler ==
  [kind : {"handler"}, dev : Devices, at : {"loop"}, late : {{}}] \cup
  [kind : {"handler"}, dev : Devices, at : {"method"}, late : SUBSET Nat]

NewWait(m, timed, loop) ==
  [kind |-> "wait", method |-> m, loop |-> loop, timed |-> timed,
   due |-> FALSE, got |-> FALSE, quit |-> FALSE]

Init ==
  /\ stack = << >>
  /\ buffer = [d \in Devices |-> << >>]
  /\ unsent = MaxPackets
  /\ stale = 0

-----------------------------------------------------------------------------
Depth == Len(stack)
Top == stack[Depth]
Return == SubSeq(stack, 1, Depth - 1)

Waits == {i \in 1 .. Depth : stack[i].kind = "wait"}
OnCallersLoop == {i \in Waits : stack[i].loop = "callers"}

InEventLoop == IF stack = << >> THEN TRUE ELSE Top.kind = "wait"
InHandler(d, at) ==
  IF stack = << >> THEN FALSE
  ELSE Top.kind = "handler" /\ Top.dev = d /\ Top.at = at

\* readyRead of a device is not emitted while one of its slots runs.
Active(d) == \E i \in 1 .. Depth : stack[i].kind = "handler" /\ stack[i].dev = d

\* Slots run in the event loops, methods in the handlers.
UserCode == InEventLoop \/ \E d \in Devices : InHandler(d, "method")

\* Timers on the caller's loop, those of its running wait included.
TimersOnCallersLoop ==
  stale + Cardinality({i \in OnCallersLoop : stack[i].timed /\ ~stack[i].due})

-----------------------------------------------------------------------------
(* waitAsyncForPacket and its waiter.                                      *)

waitAsyncForPacket(m, timed, loop) ==
  /\ UserCode
  /\ timed \/ UntimedInside \/ stack = << >>
  /\ Cardinality(Waits) < MaxWaits
  /\ loop = "callers" => OnCallersLoop = {} /\ (timed => TimersOnCallersLoop < MaxTimers)
  /\ stack' = Append(stack, NewWait(m, timed, loop))
  /\ UNCHANGED <<buffer, unsent, stale>>

\* A loop that already runs is not executed again: exec returns at once, and
\* the timer stays.
waitOnRunningLoop(timed) ==
  /\ UserCode
  /\ OnCallersLoop # {}
  /\ timed /\ TimersOnCallersLoop < MaxTimers
  /\ stale' = stale + 1
  /\ UNCHANGED <<stack, buffer, unsent>>

\* Told(s, I): the stack s when the waits I have been told to quit.
Told(s, I) == [i \in DOMAIN s |-> IF i \in I THEN [s[i] EXCEPT !.quit = TRUE] ELSE s[i]]

\* packetReceived of the waiters of I.
packetReceived(s, I) ==
  Told([i \in DOMAIN s |-> IF i \in I THEN [s[i] EXCEPT !.got = TRUE] ELSE s[i]], I)

Timeout(i) ==
  /\ InEventLoop
  /\ i \in Waits /\ stack[i].timed /\ ~stack[i].due
  /\ stack' = [Told(stack, {i}) EXCEPT ![i].due = TRUE]
  /\ UNCHANGED <<buffer, unsent, stale>>

\* Mutation: the timer makes the innermost loop quit.
StaleTimeout_Innermost ==
  /\ InEventLoop
  /\ stale > 0
  /\ stale' = stale - 1
  /\ stack' = Told(stack, {Depth})
  /\ UNCHANGED <<buffer, unsent>>

\* The timer of an earlier wait on the caller's loop.
StaleTimeout ==
  /\ InEventLoop
  /\ stale > 0
  /\ stale' = stale - 1
  /\ stack' = Told(stack, OnCallersLoop)
  /\ UNCHANGED <<buffer, unsent>>

\* Mutation: a wait returns when a packet is there, whatever its loop was told.
WaitReturns_OnPacket(i) ==
  /\ i \in Waits /\ i = Depth
  /\ stack[i].got
  /\ stack' = Return
  /\ stale' = IF stack[i].loop = "callers" /\ stack[i].timed /\ ~stack[i].due
              THEN stale + 1 ELSE stale
  /\ UNCHANGED <<buffer, unsent>>

\* exec returns and the waiter is destroyed, which unregisters it.  An own loop
\* is deleted with its timer.
WaitReturns(i) ==
  /\ i \in Waits /\ i = Depth
  /\ stack[i].quit
  /\ stack' = Return
  /\ stale' = IF stack[i].loop = "callers" /\ stack[i].timed /\ ~stack[i].due
              THEN stale + 1 ELSE stale
  /\ UNCHANGED <<buffer, unsent>>

-----------------------------------------------------------------------------
(* Packets.                                                                *)

Arrive(d, m) ==
  /\ InEventLoop
  /\ unsent > 0
  /\ buffer' = [buffer EXCEPT ![d] = Append(@, m)]
  /\ unsent' = unsent - 1
  /\ UNCHANGED <<stack, stale>>

dataHandler(d) ==
  /\ InEventLoop
  /\ buffer[d] # << >> /\ ~Active(d)
  /\ stack' = Append(stack, [kind |-> "handler", dev |-> d, at |-> "loop", late |-> {}])
  /\ UNCHANGED <<buffer, unsent, stale>>

\* The waits that are registered, as single shot methods, for m.
Waiting(m) == {i \in Waits : stack[i].method = m /\ ~stack[i].got}

\* Mutation: only the youngest wait is told.
newDataPacketReceived_Youngest(d) ==
  /\ InHandler(d, "loop")
  /\ buffer[d] # << >>
  /\ buffer' = [buffer EXCEPT ![d] = Tail(@)]
  /\ LET all == {i \in Waiting(Head(buffer[d])) :
                   \A j \in Waiting(Head(buffer[d])) : j <= i}
     IN  \/ stack' = packetReceived(stack, all)
         \/ \E k \in 1 .. Depth :
              LET late == {i \in all : i < k}
              IN  stack' = [packetReceived(stack, all \ late) EXCEPT
                              ![Depth].at = "method", ![Depth].late = late]
  /\ UNCHANGED <<unsent, stale>>

\* The packet goes to the methods of its name, youngest first: to waits only,
\* or also to a method of the application, after the younger waits and before
\* the older ones.
newDataPacketReceived(d) ==
  /\ InHandler(d, "loop")
  /\ buffer[d] # << >>
  /\ buffer' = [buffer EXCEPT ![d] = Tail(@)]
  /\ LET all == Waiting(Head(buffer[d]))
     IN  \/ stack' = packetReceived(stack, all)
         \/ \E k \in 1 .. Depth :
              LET late == {i \in all : i < k}
              IN  stack' = [packetReceived(stack, all \ late) EXCEPT
                              ![Depth].at = "method", ![Depth].late = late]
  /\ UNCHANGED <<unsent, stale>>

\* Mutation: the method is over, and its waits stay to be served.
MethodReturns_KeepsLate(d) ==
  /\ InHandler(d, "method")
  /\ stack' = [packetReceived(stack, Top.late) EXCEPT ![Depth].at = "loop"]
  /\ UNCHANGED <<buffer, unsent, stale>>

\* A wait served meanwhile gets this packet over the other.
MethodReturns(d) ==
  /\ InHandler(d, "method")
  /\ stack' = [packetReceived(stack, Top.late) EXCEPT
                 ![Depth].at = "loop", ![Depth].late = {}]
  /\ UNCHANGED <<buffer, unsent, stale>>

LeaveHandler(d) ==
  /\ InHandler(d, "loop")
  /\ buffer[d] = << >>
  /\ stack' = Return
  /\ UNCHANGED <<buffer, unsent, stale>>

-----------------------------------------------------------------------------
MaxDepth == MaxWaits + Cardinality(Devices)

Next ==
  \/ \E m \in Methods, timed \in BOOLEAN, loop \in {"own", "callers"} :
       waitAsyncForPacket(m, timed, loop)
  \/ \E timed \in BOOLEAN : waitOnRunningLoop(timed)
  \/ \E i \in 1 .. MaxDepth : Timeout(i) \/ WaitReturns(i)
  \/ StaleTimeout
  \/ \E d \in Devices :
       \/ \E m \in Methods : Arrive(d, m)
       \/ dataHandler(d) \/ newDataPacketReceived(d) \/ MethodReturns(d) \/ LeaveHandler(d)

Spec == Init /\ [][Next]_vars

\* An event loop, entered again and again, gets round to due timers and waiting
\* data, and leaves when told to; methods return.
Fairness ==
  /\ \A i \in 1 .. MaxDepth : SF_vars(Timeout(i) \/ WaitReturns(i))
  /\ SF_vars(\E d \in Devices : dataHandler(d))
  /\ SF_vars(\E d \in Devices : MethodReturns(d))
  /\ WF_vars(\E d \in Devices : newDataPacketReceived(d) \/ LeaveHandler(d))

FairSpec == Spec /\ Fairness

-----------------------------------------------------------------------------
TypeOK ==
  /\ stack \in Seq(Wait \cup Handler)
  /\ buffer \in [Devices -> Seq(Methods)]
  /\ unsent \in Nat
  /\ stale \in Nat

\* A wait on a loop of its own ends with a packet, or because its own timeout
\* has passed: no timer of another wait, inner or outer, ends it, and one
\* without a timeout always returns a packet.
QuitForAReason ==
  \A i \in Waits :
    stack[i].loop = "own" /\ stack[i].quit =>
      stack[i].got \/ (stack[i].timed /\ stack[i].due)

\* A wait with a timeout returns, whatever waits are made inside it, if those
\* have a timeout too.
TimedWaitReturns ==
  \A i \in 1 .. MaxDepth :
    (i \in Waits /\ stack[i].timed) ~> Depth < i

\* The packet wait i waits for has arrived at a device that is not handling
\* another one.
Answered(i) ==
  /\ i \in Waits
  /\ \E d \in Devices \ {e \in Devices : Active(e)} :
       \E k \in 1 .. Len(buffer[d]) : buffer[d][k] = stack[i].method

\* A wait returns when a packet for it has arrived, with this one or another.
\* (Not so if the packet is from the device whose packet is being handled: its
\* data is not announced before the handler, and so the wait, has returned.)
AnswerIsHeard ==
  \A i \in 1 .. MaxDepth : Answered(i) ~> Depth < i
==============================================================================
