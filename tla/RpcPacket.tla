------------------------------ MODULE RpcPacket ------------------------------
(***************************************************************************)
(* One delegate and the packets for it: the check of its meta events when  *)
(* the method is registered, the parsing of a packet's header              *)
(* (src/eleaphrpc.cpp), and EleaphRpcPacketHandler, which calls the events *)
(* before and after the method (src/eleaphrpc_packethandler.cpp).          *)
(*                                                                         *)
(* Which delegates a packet goes to is the matter of RpcDispatch.          *)
(***************************************************************************)
EXTENDS RpcHeader, SequencesExt

CONSTANTS
  Names,       \* names that methods are registered for and packets are sent to
  Datas,       \* what is sent with them
  Foreign,     \* contents of packets that constructRpcPacket did not make
  EventLists   \* the events a method is registered with

\* EleaphRpcPacketMetaEvent: its receiver lives in the thread of the method's
\* receiver or in another, and has a slot of the event's name or not.
Event == [type : {"before", "after"}, thread : {"own", "other"}, slot : BOOLEAN]
EventResult == {"Ok", "Ignore", "ProtocolViolation"}

ASSUME PacketAssumption ==
  /\ Names \subseteq Name /\ Datas \subseteq Seq(Byte) /\ Foreign \subseteq Content
  /\ EventLists \subseteq Seq(Event)

VARIABLES
  method,     \* the name the delegate is registered for: none, or one
  listed,     \* the events given to registerRpcMethod
  lstEvents,  \* those its EleaphRpcPacketHandler has
  phase,      \* where registerRpcMethod or processPacket is
  sent,       \* what the sender gave to sendRPCDataPacket, if it was that
  packet,     \* the EleaphRpcPacket
  next,       \* the event the thread check, or processEvent, looks at
  calls,      \* what was called for the packet, with the answers
  condemned   \* deleteLater was called for the device

registry == <<method, listed, lstEvents>>
vars == <<registry, phase, sent, packet, next, calls, condemned>>

Init ==
  /\ method = {} /\ listed = << >> /\ lstEvents = << >>
  /\ phase = "idle" /\ sent = << >> /\ packet = << >>
  /\ next = 1 /\ calls = << >>
  /\ condemned = FALSE

-----------------------------------------------------------------------------
(* Registering.                                                            *)

registerRpcMethod(events) ==
  /\ phase = "idle" /\ method = {}
  /\ listed' = events /\ lstEvents' = events
  /\ phase' = "checking" /\ next' = 1
  /\ UNCHANGED <<method, sent, packet, calls, condemned>>

\* Mutation: what follows the event is removed with it.
CheckThread_RemovesNext ==
  /\ phase = "checking" /\ next <= Len(lstEvents)
  /\ lstEvents' = IF lstEvents[next].thread = "own" THEN lstEvents
                  ELSE SubSeq(lstEvents, 1, next - 1) \o
                       SubSeq(lstEvents, next + 2, Len(lstEvents))
  /\ next' = next + 1
  /\ UNCHANGED <<method, listed, phase, sent, packet, calls, condemned>>

\* For every index: an event of another thread is removed, and the one that
\* takes its place passed over.
CheckThread ==
  /\ phase = "checking" /\ next <= Len(lstEvents)
  /\ lstEvents' = IF lstEvents[next].thread = "own" THEN lstEvents
                  ELSE RemoveAt(lstEvents, next)
  /\ next' = next + 1
  /\ UNCHANGED <<method, listed, phase, sent, packet, calls, condemned>>

\* The delegate, with the events that are left, is entered under the name.
Insert(name) ==
  /\ phase = "checking" /\ next > Len(lstEvents)
  /\ method' = {name}
  /\ phase' = "idle" /\ next' = 1
  /\ UNCHANGED <<listed, lstEvents, sent, packet, calls, condemned>>

-----------------------------------------------------------------------------
(* Receiving.                                                              *)

\* A packet whose method is not registered is dropped.
newDataPacketReceived(from, content) ==
  /\ phase = "idle"
  /\ sent' = from
  /\ IF strMethodName(content) \in method
     THEN phase' = "before" /\ packet' = EleaphRpcPacket(content)
     ELSE phase' = "dropped" /\ UNCHANGED packet
  /\ next' = 1
  /\ UNCHANGED <<registry, calls, condemned>>

Receive ==
  \/ \E name \in Names, data \in Datas :
       newDataPacketReceived(<<name, data>>, constructRpcPacket(name, data))
  \/ \E content \in Foreign : newDataPacketReceived(<< >>, content)

InEvents == phase \in {"before", "after"}

\* Mutation: the events of the other type are counted twice.
PassOver_Twice ==
  /\ InEvents /\ next <= Len(lstEvents)
  /\ lstEvents[next].type # phase \/ ~lstEvents[next].slot
  /\ next' = next + 2
  /\ UNCHANGED <<registry, phase, sent, packet, calls, condemned>>

\* processEvent passes over events of the other type and unknown slots.
PassOver ==
  /\ InEvents /\ next <= Len(lstEvents)
  /\ lstEvents[next].type # phase \/ ~lstEvents[next].slot
  /\ next' = next + 1
  /\ UNCHANGED <<registry, phase, sent, packet, calls, condemned>>

\* Mutation: an ignored packet goes on to the next event.
callEvent_IgnoreGoesOn(result) ==
  /\ InEvents /\ next <= Len(lstEvents)
  /\ lstEvents[next].type = phase /\ lstEvents[next].slot
  /\ calls' = Append(calls, [call |-> phase, event |-> next, result |-> result])
  /\ IF result = "ProtocolViolation" THEN phase' = "done" /\ UNCHANGED next
     ELSE next' = next + 1 /\ UNCHANGED phase
  /\ condemned' = (condemned \/ result = "ProtocolViolation")
  /\ UNCHANGED <<registry, sent, packet>>

\* An event is called, and handleEventResult looks at its answer.
callEvent(result) ==
  /\ InEvents /\ next <= Len(lstEvents)
  /\ lstEvents[next].type = phase /\ lstEvents[next].slot
  /\ calls' = Append(calls, [call |-> phase, event |-> next, result |-> result])
  /\ IF result = "Ok" THEN next' = next + 1 /\ UNCHANGED phase
     ELSE phase' = "done" /\ UNCHANGED next
  /\ condemned' = (condemned \/ result = "ProtocolViolation")
  /\ UNCHANGED <<registry, sent, packet>>

invokeMethod ==
  /\ phase = "before" /\ next > Len(lstEvents)
  /\ calls' = Append(calls, [call |-> "method", event |-> 0, result |-> "Ok"])
  /\ phase' = "after" /\ next' = 1
  /\ UNCHANGED <<registry, sent, packet, condemned>>

EventsDone ==
  /\ phase = "after" /\ next > Len(lstEvents)
  /\ phase' = "done"
  /\ UNCHANGED <<registry, sent, packet, next, calls, condemned>>

PacketDone ==
  /\ phase \in {"done", "dropped"}
  /\ phase' = "idle" /\ sent' = << >> /\ packet' = << >> /\ calls' = << >>
  /\ UNCHANGED <<registry, next, condemned>>

Next ==
  \/ \E events \in EventLists : registerRpcMethod(events)
  \/ CheckThread \/ \E name \in Names : Insert(name)
  \/ Receive
  \/ PassOver \/ invokeMethod \/ EventsDone \/ PacketDone
  \/ \E result \in EventResult : callEvent(result)

Spec == Init /\ [][Next]_vars

-----------------------------------------------------------------------------
\* The event is its place in lstEvents, 0 for the method.
Call == [call : {"before", "method", "after"}, event : Nat, result : EventResult]

Packet == [strMethodName : Name, header : 0 .. 2, data : Seq(Byte),
           intPacktLength : 0 .. (Space - 1)]

TypeOK ==
  /\ method \subseteq Names
  /\ listed \in Seq(Event) /\ lstEvents \in Seq(Event)
  /\ phase \in {"idle", "checking", "before", "after", "done", "dropped"}
  /\ sent \in (Names \X Datas) \cup {<< >>}
  /\ phase \in {"before", "after", "done"} => packet \in Packet
  /\ next \in Nat \ {0}
  /\ next > Len(lstEvents) + 1 => phase = "checking"
  /\ calls \in Seq(Call)
  /\ condemned \in BOOLEAN

Own(event) == event.thread = "own"

\* What is left of the events, in their order, has all that can be called; and
\* when the check is over nothing else, so that "every event have to be in the
\* same thread as receiver object thread", unless two events of other threads
\* stand side by side in the list.
OwnEventsKept ==
  /\ \E at \in [DOMAIN lstEvents -> DOMAIN listed] :
       /\ \A i, j \in DOMAIN lstEvents : i < j => at[i] < at[j]
       /\ \A i \in DOMAIN lstEvents : lstEvents[i] = listed[at[i]]
       /\ \A p \in DOMAIN listed : Own(listed[p]) => \E i \in DOMAIN lstEvents : at[i] = p
  /\ phase # "checking" /\ (\A p \in 1 .. (Len(listed) - 1) : Own(listed[p]) \/ Own(listed[p + 1])) =>
       \A i \in DOMAIN lstEvents : Own(lstEvents[i])

\* The events of a type that have a slot, and those that were called.
Callable(type) == {i \in DOMAIN lstEvents : lstEvents[i].type = type /\ lstEvents[i].slot}
Called(type) ==
  {i \in DOMAIN lstEvents : \E k \in DOMAIN calls : calls[k].call = type /\ calls[k].event = i}

Refused == {k \in DOMAIN calls : calls[k].result # "Ok"}
Invoked == {k \in DOMAIN calls : calls[k].call = "method"}

\* Events are called in their order, and no event twice; the method is called
\* for a packet at most once, after all events before it were called and
\* agreed, and none of them after it; after a refusal nothing is called; and a
\* packet nobody refused has had the method and all events after it.
MethodIsGuarded ==
  /\ \A j, k \in DOMAIN calls :
       j < k /\ calls[j].call = calls[k].call => calls[j].event < calls[k].event
  /\ \A k \in Invoked :
       /\ Called("before") = Callable("before")
       /\ \A j \in DOMAIN calls : (j < k) <=> calls[j].call = "before"
  /\ Refused \subseteq {Len(calls)}
  /\ phase = "done" /\ Refused = {} =>
       Invoked # {} /\ Called("after") = Callable("after")

\* A packet that was sent to a method whose name the header can carry reaches
\* that method, and no other, with the data that was sent and its length.
DeliveredAsSent ==
  sent # << >> /\ sent[1] \in Carried =>
    IF sent[1] \notin method THEN phase = "dropped"
    ELSE /\ phase # "dropped"
         /\ packet = [strMethodName |-> sent[1], header |-> 0, data |-> sent[2],
                      intPacktLength |-> Len(sent[2]) % Space]
==============================================================================
