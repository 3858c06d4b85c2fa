--------------------------- MODULE RpcPacketProofs ---------------------------
(***************************************************************************)
(* The header of an RPC packet, for every width of its length, every       *)
(* alphabet, name and data: reading inverts writing for the names the      *)
(* header can carry, and what was read is what the method gets.  The       *)
(* events of a method, for every list of events: which are kept, and that  *)
(* they guard the method.                                                  *)
(***************************************************************************)
EXTENDS RpcPacket, WellFoundedInduction, TLAPS

\* x % m is x below m.
LEMMA ModBelow ==
  ASSUME NEW m \in Nat \ {0}, NEW x \in 0 .. (m - 1)
  PROVE  x % m = x
OBVIOUS

\* Sequences that agree everywhere are equal.
LEMMA SameSeq ==
  ASSUME NEW S, NEW s \in Seq(S), NEW t \in Seq(S), Len(s) = Len(t),
         \A i \in 1 .. Len(s) : s[i] = t[i]
  PROVE  s = t
OBVIOUS

\* The length of a name that can be carried is written as it is.
LEMMA LengthIsWritten ==
  ASSUME NEW n \in Nat, n < Half
  PROVE  Signed(n) = n
<1>1. 2 * Half \in Nat \ {0} /\ n + Half \in 0 .. (2 * Half - 1)
  BY HeaderAssumption
<1>2. (n + Half) % (2 * Half) = n + Half
  BY <1>1, ModBelow
<1> QED
  BY <1>2, HeaderAssumption DEF Signed

\* ASCII is the same in Latin-1 and in UTF-8.
LEMMA PlainIsKept ==
  ASSUME NEW name \in Seq(Plain)
  PROVE  toLatin1(name) = name /\ FromBytes(name) = name
<1>1. \A i \in DOMAIN name : name[i] \in Plain
  OBVIOUS
<1>2. \A i \in DOMAIN name : name[i] \notin Wide /\ name[i] \notin High /\ name[i] # Nul
  BY <1>1, HeaderAssumption
<1>3. name = [i \in DOMAIN name |-> name[i]]
  OBVIOUS
<1>4. toLatin1(name) = name
  BY <1>2, <1>3 DEF toLatin1
<1>5. BeforeNul(name) = DOMAIN name
  <2>1. \A i \in DOMAIN name : \A j \in 1 .. i : j \in DOMAIN name
    OBVIOUS
  <2> QED
    BY <1>2, <2>1 DEF BeforeNul
<1>6. FromBytes(name) = name
  BY <1>2, <1>3, <1>5 DEF FromBytes
<1> QED
  BY <1>4, <1>6

\* The two parts of a concatenation.
LEMMA Parts ==
  ASSUME NEW S, NEW s \in Seq(S), NEW t \in Seq(S)
  PROVE  /\ Len(s \o t) = Len(s) + Len(t) /\ s \o t \in Seq(S)
         /\ SubSeq(s \o t, 1, Len(s)) = s
         /\ SubSeq(s \o t, Len(s) + 1, Len(s \o t)) = t
<1>1. Len(s) \in Nat /\ Len(t) \in Nat /\ Len(s \o t) = Len(s) + Len(t) /\ s \o t \in Seq(S)
  OBVIOUS
<1>2. /\ \A i \in 1 .. Len(s) : (s \o t)[i] = s[i]
      /\ \A i \in 1 .. Len(t) : (s \o t)[Len(s) + i] = t[i]
  BY <1>1
<1>3. SubSeq(s \o t, 1, Len(s)) = s
  <2>1. SubSeq(s \o t, 1, Len(s)) = [i \in 1 .. Len(s) |-> (s \o t)[i]]
    BY <1>1
  <2> QED
    BY <1>1, <1>2, <2>1
<1>4. SubSeq(s \o t, Len(s) + 1, Len(s \o t)) = t
  <2>1. SubSeq(s \o t, Len(s) + 1, Len(s \o t)) = [i \in 1 .. Len(t) |-> (s \o t)[Len(s) + i]]
    BY <1>1
  <2> QED
    BY <1>1, <1>2, <2>1
<1> QED
  BY <1>1, <1>3, <1>4

\* constructRpcPacket and the head of newDataPacketReceived: what is read is
\* what was written, and the content's length loses what was put on it.
LEMMA ReadIsWritten ==
  ASSUME NEW name \in Carried, NEW data \in Seq(Byte)
  PROVE  EleaphRpcPacket(constructRpcPacket(name, data)) =
           [strMethodName |-> name, header |-> 0, data |-> data,
            intPacktLength |-> Len(data) % Space]
<1> DEFINE c == constructRpcPacket(name, data)
<1>1. name \in Seq(Plain) /\ Len(name) < Half /\ Len(name) \in Nat /\ Len(data) \in Nat
  BY DEF Carried
<1>2. name \in Seq(Byte)
  BY <1>1 DEF Byte
<1>3. c.field = Len(name) /\ c.rest = name \o data
  BY <1>1, LengthIsWritten, PlainIsKept DEF constructRpcPacket
<1>4. /\ Len(c.rest) = Len(name) + Len(data)
      /\ SubSeq(c.rest, 1, Len(name)) = name
      /\ SubSeq(c.rest, Len(name) + 1, Len(c.rest)) = data
  BY <1>2, <1>3, Parts
<1> HIDE DEF c
<1>5. strMethodName(c) = name
  <2>1. c.field \in 0 .. Len(c.rest)
    BY <1>1, <1>3, <1>4
  <2>2. Mid(c.rest, c.field) = name
    BY <2>1, <1>3, <1>4 DEF Mid
  <2>3. FromBytes(name) = name
    BY <1>1, PlainIsKept
  <2> QED
    BY <2>2, <2>3 DEF strMethodName
<1>6. HeaderLeft(c) = 0
  BY <1>1, <1>3 DEF HeaderLeft
<1>7. DataLeft(c) = data
  <2>1. CASE Len(name) = 0
    <3>1. name = << >>
      BY <1>1, <2>1
    <3>2. c.rest = data
      BY <1>3, <3>1
    <3> QED
      BY <1>3, <2>1, <3>2 DEF DataLeft
  <2>2. CASE Len(name) > 0
    BY <1>1, <1>3, <1>4, <2>2 DEF DataLeft
  <2> QED
    BY <1>1, <2>1, <2>2
<1>8. LengthLeft(c) = Len(data) % Space
  <2>1. Len(c.rest) - c.field = Len(data)
    BY <1>1, <1>3, <1>4
  <2> QED
    BY <2>1 DEF LengthLeft
<1> QED
  BY <1>5, <1>6, <1>7, <1>8 DEF EleaphRpcPacket, c

-----------------------------------------------------------------------------
(* Types.                                                                  *)

Below == {p \in Nat \X Nat : p[1] < p[2]}

\* A set of natural numbers that is not empty has a least one.
LEMMA LeastNatural ==
  ASSUME NEW T, T \subseteq Nat, T # {}
  PROVE  \E n \in T : \A m \in T : n <= m
<1>1. Below = OpToRel(<, Nat)
  BY Zenon DEF OpToRel, Below
<1>2. IsWellFoundedOn(Below, Nat)
  BY <1>1, NatLessThanWellFounded, Zenon
<1>3. \E n \in T : \A m \in T : ~ (<<m, n>> \in Below)
  BY <1>2, WFMin, Zenon
<1>4. \A n, m \in Nat : (~ (<<m, n>> \in Below)) => n <= m
  BY DEF Below
<1> QED
  BY <1>3, <1>4

\* What stands before the first NUL is the start of the bytes.
LEMMA BeforeNulIsStart ==
  ASSUME NEW bytes \in Seq(Byte)
  PROVE  \E n \in 0 .. Len(bytes) : BeforeNul(bytes) = 1 .. n
<1> DEFINE T == {i \in 1 .. Len(bytes) : bytes[i] = Nul}
<1>1. DOMAIN bytes = 1 .. Len(bytes) /\ Len(bytes) \in Nat
  OBVIOUS
<1>2. CASE T = {}
  <2>1. BeforeNul(bytes) = 1 .. Len(bytes)
    BY <1>1, <1>2 DEF BeforeNul
  <2>2. Len(bytes) \in 0 .. Len(bytes)
    BY <1>1
  <2> QED
    BY <2>1, <2>2
<1>3. CASE T # {}
  <2>1. T \subseteq Nat
    OBVIOUS
  <2>2. PICK n \in T : \A m \in T : n <= m
    BY <1>3, <2>1, LeastNatural
  <2>3. \A i \in 1 .. Len(bytes) : i < n => bytes[i] # Nul
    BY <2>2
  <2>4. n \in 1 .. Len(bytes) /\ bytes[n] = Nul
    BY <2>2
  <2>5. BeforeNul(bytes) = 1 .. (n - 1)
    BY <1>1, <2>3, <2>4 DEF BeforeNul
  <2> QED
    BY <2>4, <2>5
<1> QED
  BY <1>2, <1>3

\* Whatever the bytes, they are read as a name.
LEMMA NameIsRead ==
  ASSUME NEW bytes \in Seq(Byte)
  PROVE  FromBytes(bytes) \in Name
<1> DEFINE read(i) == IF bytes[i] \in High THEN Replacement ELSE bytes[i]
<1>1. PICK n \in 0 .. Len(bytes) : BeforeNul(bytes) = 1 .. n
  BY BeforeNulIsStart
<1>2. \A i \in 1 .. n : i \in DOMAIN bytes /\ bytes[i] \in Byte /\ bytes[i] # Nul
  <2>1. \A i \in 1 .. n : i \in BeforeNul(bytes) /\ i \in 1 .. i
    BY <1>1
  <2> QED
    BY <2>1 DEF BeforeNul
<1>3. \A i \in 1 .. n : read(i) \in Plain \cup High \cup Wide
  BY <1>2, HeaderAssumption DEF Byte
<1>4. FromBytes(bytes) = [i \in 1 .. n |-> read(i)]
  BY <1>1 DEF FromBytes
<1> QED
  BY <1>3, <1>4 DEF Name

LEMMA PacketType ==
  ASSUME NEW content \in Content
  PROVE  EleaphRpcPacket(content) \in Packet
<1>1. /\ content.field \in (- Half) .. (Half - 1) /\ content.field \in Int
      /\ content.rest \in Seq(Byte) /\ Len(content.rest) \in Nat
  BY HeaderAssumption DEF Content
<1>2. Mid(content.rest, content.field) \in Seq(Byte)
  BY <1>1 DEF Mid
<1>3. strMethodName(content) \in Name
  BY <1>2, NameIsRead DEF strMethodName
<1>4. HeaderLeft(content) \in 0 .. 2
  BY DEF HeaderLeft
<1>5. DataLeft(content) \in Seq(Byte)
  BY <1>1 DEF DataLeft
<1>6. LengthLeft(content) \in 0 .. (Space - 1)
  <2>1. Len(content.rest) - content.field \in Int
    BY <1>1
  <2> QED
    BY <2>1, HeaderAssumption DEF LengthLeft
<1> QED
  BY <1>3, <1>4, <1>5, <1>6 DEF EleaphRpcPacket, Packet

LEMMA ContentType ==
  ASSUME NEW name \in Name, NEW data \in Seq(Byte)
  PROVE  constructRpcPacket(name, data) \in Content
<1>1. \A n \in Nat : Signed(n) \in (- Half) .. (Half - 1)
  BY HeaderAssumption DEF Signed
<1>2. toLatin1(name) \in Seq(Byte)
  <2>1. \A i \in DOMAIN name :
          (IF name[i] \in Wide THEN Question ELSE name[i]) \in Byte
    BY HeaderAssumption DEF Name, Byte
  <2>2. DOMAIN name = 1 .. Len(name) /\ Len(name) \in Nat
    BY DEF Name
  <2> QED
    BY <2>1, <2>2 DEF toLatin1
<1>3. toLatin1(name) \o data \in Seq(Byte)
  BY <1>2
<1>4. Len(name) \in Nat
  BY DEF Name
<1> QED
  BY <1>1, <1>3, <1>4 DEF constructRpcPacket, Content

-----------------------------------------------------------------------------
\* A packet is only remembered while it is being handled.
IInv ==
  /\ DeliveredAsSent
  /\ phase \in {"idle", "checking"} => sent = << >>

LEMMA InitOK == Init => IInv
BY DEF Init, IInv, DeliveredAsSent

\* The packet that arrives, from constructRpcPacket or not.
LEMMA ReceiveOK ==
  ASSUME IInv, NEW from, NEW content, newDataPacketReceived(from, content),
         from # << >> => /\ from[2] \in Seq(Byte)
                         /\ content = constructRpcPacket(from[1], from[2])
  PROVE  IInv'
<1>1. phase' \in {"before", "dropped"} /\ sent' = from /\ method' = method
  BY DEF newDataPacketReceived, registry
<1>2. ASSUME from # << >>, from[1] \in Carried
      PROVE  DeliveredAsSent'
  <2>1. EleaphRpcPacket(content) =
          [strMethodName |-> from[1], header |-> 0, data |-> from[2],
           intPacktLength |-> Len(from[2]) % Space]
    BY <1>2, ReadIsWritten
  <2>2. strMethodName(content) = EleaphRpcPacket(content).strMethodName
    BY DEF EleaphRpcPacket
  <2>3. strMethodName(content) = from[1]
    BY <2>1, <2>2
  <2> QED
    BY <1>1, <2>1, <2>3 DEF newDataPacketReceived, DeliveredAsSent
<1> QED
  BY <1>1, <1>2 DEF IInv, DeliveredAsSent

LEMMA NextOK == IInv /\ [Next]_vars => IInv'
<1> SUFFICES ASSUME IInv, [Next]_vars PROVE IInv'
  OBVIOUS
<1>1. CASE UNCHANGED vars
  BY <1>1 DEF vars, registry, IInv, DeliveredAsSent
<1>2. ASSUME \/ \E events \in EventLists : registerRpcMethod(events)
             \/ CheckThread
             \/ \E name \in Names : Insert(name)
      PROVE  IInv'
  <2>1. /\ phase \in {"idle", "checking"} /\ phase' \in {"idle", "checking"}
        /\ UNCHANGED sent
    BY <1>2 DEF registerRpcMethod, CheckThread, Insert
  <2> QED
    BY <2>1 DEF IInv, DeliveredAsSent
<1>3. CASE Receive
  <2>1. ASSUME NEW name \in Names, NEW data \in Datas,
               newDataPacketReceived(<<name, data>>, constructRpcPacket(name, data))
        PROVE  IInv'
    <3>1. data \in Seq(Byte)
      BY PacketAssumption
    <3>2. <<name, data>>[1] = name /\ <<name, data>>[2] = data
      OBVIOUS
    <3> QED
      BY <2>1, <3>1, <3>2, ReceiveOK
  <2>2. ASSUME NEW content \in Foreign, newDataPacketReceived(<< >>, content)
        PROVE  IInv'
    BY <2>2, ReceiveOK
  <2> QED
    BY <1>3, <2>1, <2>2 DEF Receive
<1>4. CASE PassOver \/ invokeMethod \/ EventsDone \/ \E result \in EventResult : callEvent(result)
  <2>1. /\ UNCHANGED <<method, sent, packet>>
        /\ phase \in {"before", "after"} /\ phase' \in {"before", "after", "done"}
    BY <1>4 DEF PassOver, invokeMethod, EventsDone, callEvent, InEvents, registry
  <2> QED
    BY <2>1 DEF IInv, DeliveredAsSent
<1>5. CASE PacketDone
  BY <1>5 DEF PacketDone, IInv, DeliveredAsSent
<1> QED
  BY <1>1, <1>2, <1>3, <1>4, <1>5 DEF Next

\* sendRPCDataPacket to the method: whatever the alphabet and the width of the
\* header, a packet for a name that can be carried is dropped only if the method
\* is not registered, and is otherwise given to it with its data and length.
THEOREM Delivery == Spec => []DeliveredAsSent
<1>1. Spec => []IInv
  BY InitOK, NextOK, PTL DEF Spec
<1>2. IInv => DeliveredAsSent
  BY DEF IInv
<1> QED
  BY <1>1, <1>2, PTL
-----------------------------------------------------------------------------
LEMMA InitTyped == Init => TypeOK
<1> SUFFICES ASSUME Init PROVE TypeOK
  OBVIOUS
<1>1. /\ listed \in Seq(Event) /\ lstEvents \in Seq(Event) /\ calls \in Seq(Call)
      /\ Len(lstEvents) = 0
  BY DEF Init
<1>2. sent \in (Names \X Datas) \cup {<< >>} /\ condemned \in BOOLEAN
  BY Zenon DEF Init
<1>3. method \subseteq Names /\ phase = "idle" /\ next = 1
  BY DEF Init
<1> QED
  BY <1>1, <1>2, <1>3 DEF TypeOK

\* Taking an event out of a list.
LEMMA Removal ==
  ASSUME NEW S, NEW s \in Seq(S), NEW n \in 1 .. Len(s)
  PROVE  /\ RemoveAt(s, n) \in Seq(S) /\ Len(RemoveAt(s, n)) = Len(s) - 1
         /\ \A i \in 1 .. (Len(s) - 1) :
              RemoveAt(s, n)[i] = IF i < n THEN s[i] ELSE s[i + 1]
<1> DEFINE a == SubSeq(s, 1, n - 1)
           b == SubSeq(s, n + 1, Len(s))
<1>1. Len(s) \in Nat /\ \A i \in 1 .. Len(s) : s[i] \in S
  OBVIOUS
<1>2. a \in Seq(S) /\ Len(a) = n - 1 /\ \A i \in 1 .. (n - 1) : a[i] = s[i]
  BY <1>1
<1>3. /\ b \in Seq(S) /\ Len(b) = Len(s) - n
      /\ \A i \in 1 .. (Len(s) - n) : b[i] = s[n + i]
  BY <1>1
<1> HIDE DEF a, b
<1>4. a \o b \in Seq(S) /\ Len(a \o b) = Len(s) - 1
  <2>1. a \o b \in Seq(S) /\ Len(a \o b) = Len(a) + Len(b)
    BY <1>2, <1>3, Parts, Zenon
  <2> QED
    BY <2>1, <1>1, <1>2, <1>3
<1>5. /\ \A i \in 1 .. Len(a) : (a \o b)[i] = a[i]
      /\ \A i \in 1 .. Len(b) : (a \o b)[Len(a) + i] = b[i]
  BY <1>2, <1>3
<1>6. \A i \in 1 .. (Len(s) - 1) : (a \o b)[i] = IF i < n THEN s[i] ELSE s[i + 1]
  <2> TAKE i \in 1 .. (Len(s) - 1)
  <2>1. CASE i < n
    BY <2>1, <1>1, <1>2, <1>5
  <2>2. CASE ~ (i < n)
    <3> DEFINE k == i - (n - 1)
    <3>1. k \in 1 .. (Len(s) - n) /\ (n - 1) + k = i /\ n + k = i + 1
      BY <2>2, <1>1
    <3> HIDE DEF k
    <3>2. (a \o b)[i] = b[k] /\ b[k] = s[i + 1]
      BY <3>1, <1>2, <1>3, <1>5
    <3> QED
      BY <2>2, <3>2
  <2> QED
    BY <2>1, <2>2, Zenon
<1> QED
  BY <1>4, <1>6 DEF RemoveAt, a, b

\* What is called is noted as a call.
LEMMA CallIsNoted ==
  ASSUME TypeOK, NEW call \in {"before", "method", "after"}, NEW event \in Nat,
         NEW result \in EventResult
  PROVE  Append(calls, [call |-> call, event |-> event, result |-> result]) \in Seq(Call)
BY DEF TypeOK, Call

LEMMA TypeStep == TypeOK /\ [Next]_vars => TypeOK'
<1> SUFFICES ASSUME TypeOK, [Next]_vars PROVE TypeOK'
  OBVIOUS
<1>0. next \in Nat \ {0} /\ Len(lstEvents) \in Nat
  BY DEF TypeOK
<1>1. CASE UNCHANGED vars
  BY <1>1 DEF TypeOK, vars, registry
<1>2. ASSUME NEW events \in EventLists, registerRpcMethod(events)
      PROVE  TypeOK'
  BY <1>2, PacketAssumption DEF TypeOK, registerRpcMethod
<1>3. CASE CheckThread
  <2>1. next \in 1 .. Len(lstEvents)
    BY <1>0, <1>3 DEF CheckThread
  <2>2. lstEvents' \in Seq(Event)
    BY <2>1, <1>3, Removal DEF TypeOK, CheckThread
  <2> QED
    BY <2>1, <2>2, <1>3 DEF TypeOK, CheckThread
<1>4. ASSUME NEW name \in Names, Insert(name)
      PROVE  TypeOK'
  BY <1>4, <1>0 DEF TypeOK, Insert
<1>5. CASE Receive
  <2>1. ASSUME NEW from \in (Names \X Datas) \cup {<< >>}, NEW content \in Content,
               newDataPacketReceived(from, content)
        PROVE  TypeOK'
    <3>1. EleaphRpcPacket(content) \in Packet
      BY PacketType
    <3> QED
      BY <2>1, <3>1, <1>0 DEF TypeOK, newDataPacketReceived, registry
  <2>2. ASSUME NEW name \in Names, NEW data \in Datas
        PROVE  constructRpcPacket(name, data) \in Content
    BY PacketAssumption, ContentType
  <2> QED
    BY <1>5, <2>1, <2>2, PacketAssumption DEF Receive
<1>6. CASE PassOver
  BY <1>6, <1>0 DEF TypeOK, PassOver, InEvents, registry
<1>7. CASE invokeMethod
  <2>1. calls' \in Seq(Call)
    BY <1>7, CallIsNoted DEF invokeMethod, EventResult
  <2> QED
    BY <1>7, <2>1, <1>0 DEF TypeOK, invokeMethod, registry
<1>8. CASE EventsDone
  BY <1>8 DEF TypeOK, EventsDone, registry
<1>9. CASE PacketDone
  BY <1>9 DEF TypeOK, PacketDone, registry
<1>10. ASSUME NEW result \in EventResult, callEvent(result)
       PROVE  TypeOK'
  <2>1. calls' \in Seq(Call)
    BY <1>10, <1>0, CallIsNoted DEF callEvent, InEvents
  <2>2. condemned' \in BOOLEAN
    BY <1>10 DEF callEvent, TypeOK
  <2>3. phase' = phase \/ phase' = "done"
    BY <1>10 DEF callEvent
  <2> QED
    BY <1>10, <2>1, <2>2, <2>3, <1>0 DEF TypeOK, callEvent, InEvents, registry
<1> QED
  BY <1>1, <1>2, <1>3, <1>4, <1>5, <1>6, <1>7, <1>8, <1>9, <1>10 DEF Next

\* Every variable keeps its type: above all, whatever bytes arrive are read as
\* a name, and as data and a length a 32 bit number can hold.
THEOREM TypeCorrect == Spec => []TypeOK
BY InitTyped, TypeStep, PTL DEF Spec

-----------------------------------------------------------------------------
(* The events that are kept.                                               *)

\* at: where the events that are left stood in the list.  Those the check has
\* not come to are the end of the list.
Placed(at) ==
  /\ \A i, j \in DOMAIN lstEvents : i < j => at[i] < at[j]
  /\ \A i \in DOMAIN lstEvents : lstEvents[i] = listed[at[i]]
  /\ \A p \in DOMAIN listed : Own(listed[p]) => \E i \in DOMAIN lstEvents : at[i] = p
  /\ phase = "checking" => \A i \in DOMAIN lstEvents :
       i >= next => at[i] = i + (Len(listed) - Len(lstEvents))

Places == [DOMAIN lstEvents -> DOMAIN listed]

Apart == \A p \in 1 .. (Len(listed) - 1) : Own(listed[p]) \/ Own(listed[p + 1])

Checked ==
  /\ \E at \in Places : Placed(at)
  /\ Apart => \A i \in DOMAIN lstEvents : i < next \/ phase # "checking" => Own(lstEvents[i])

\* The own events of the list, one index on.
LEMMA OneIndexOn ==
  ASSUME TypeOK, Checked, CheckThread
  PROVE  Checked'
<1> DEFINE n == next
           last == Len(lstEvents)
           rest == Len(listed)
<1>1. /\ lstEvents \in Seq(Event) /\ last \in Nat /\ DOMAIN lstEvents = 1 .. last
      /\ listed \in Seq(Event) /\ rest \in Nat /\ DOMAIN listed = 1 .. rest
      /\ n \in 1 .. last /\ phase = "checking"
      /\ UNCHANGED <<listed, phase>> /\ next' = n + 1
  BY DEF TypeOK, CheckThread
<1>2. PICK at \in Places : Placed(at)
  BY DEF Checked
<1>3. /\ \A i \in 1 .. last : at[i] \in 1 .. rest
      /\ \A i, j \in 1 .. last : i < j => at[i] < at[j]
      /\ \A i \in 1 .. last : lstEvents[i] = listed[at[i]]
      /\ \A p \in 1 .. rest : Own(listed[p]) => \E i \in 1 .. last : at[i] = p
      /\ \A i \in 1 .. last : i >= n => at[i] = i + (rest - last)
  BY <1>1, <1>2 DEF Placed, Places
<1>4. Apart => \A i \in 1 .. last : i < n => Own(lstEvents[i])
  BY <1>1 DEF Checked
<1>5. CASE Own(lstEvents[n])
  <2>1. lstEvents' = lstEvents
    BY <1>5 DEF CheckThread, Own
  <2>2. at \in Places' /\ Placed(at)'
    BY <2>1, <1>1, <1>2, <1>3 DEF Places, Placed
  <2>3. ASSUME Apart'
        PROVE  \A i \in DOMAIN lstEvents' : i < next' \/ phase' # "checking" => Own(lstEvents'[i])
    <3>1. Apart
      BY <2>3, <1>1 DEF Apart
    <3> QED
      BY <3>1, <2>1, <1>1, <1>4, <1>5
  <2> QED
    BY <2>2, <2>3 DEF Checked
<1>6. CASE ~ Own(lstEvents[n])
  <2> DEFINE to(i) == IF i < n THEN i ELSE i + 1
  <2>1. lstEvents' = RemoveAt(lstEvents, n)
    BY <1>6 DEF CheckThread, Own
  <2>2. /\ lstEvents' \in Seq(Event) /\ Len(lstEvents') = last - 1
        /\ \A i \in 1 .. (last - 1) : lstEvents'[i] = IF i < n THEN lstEvents[i] ELSE lstEvents[i + 1]
    BY <2>1, <1>1, Removal
  <2>3. DOMAIN lstEvents' = 1 .. (last - 1) /\ last - 1 \in Nat
    BY <2>2, <1>1
  <2>4. \A i \in 1 .. (last - 1) : to(i) \in 1 .. last /\ to(i) # n /\ to(i) \in Int
    BY <1>1
  <2>5. \A i, j \in 1 .. (last - 1) : i < j => to(i) < to(j)
    BY <1>1
  <2>6. \A j \in 1 .. last : j # n => \E i \in 1 .. (last - 1) : to(i) = j
    <3> TAKE j \in 1 .. last
    <3>1. CASE j < n
      <4>1. j \in 1 .. (last - 1) /\ to(j) = j
        BY <3>1, <1>1
      <4> QED
        BY <4>1
    <3>2. CASE j > n
      <4>1. j - 1 \in 1 .. (last - 1) /\ to(j - 1) = j
        BY <3>2, <1>1
      <4> QED
        BY <4>1
    <3> QED
      BY <3>1, <3>2, <1>1
  <2>7. \A i \in 1 .. (last - 1) : lstEvents'[i] = lstEvents[to(i)]
    BY <2>2
  <2>8. \A i \in 1 .. (last - 1) : i >= n + 1 => to(i) = i + 1
    BY <1>1
  <2> HIDE DEF to
  <2>9. PICK bt \in [1 .. (last - 1) -> 1 .. rest] : \A i \in 1 .. (last - 1) : bt[i] = at[to(i)]
    <3>1. [i \in 1 .. (last - 1) |-> at[to(i)]] \in [1 .. (last - 1) -> 1 .. rest]
      BY <2>4, <1>3
    <3> QED
      BY <3>1
  <2>10. bt \in Places'
    BY <2>3, <2>9, <1>1 DEF Places
  <2>11. Placed(bt)'
    <3>1. \A i, j \in 1 .. (last - 1) : i < j => bt[i] < bt[j]
      BY <2>4, <2>5, <2>9, <1>3
    <3>2. \A i \in 1 .. (last - 1) : lstEvents'[i] = listed[bt[i]]
      BY <2>4, <2>7, <2>9, <1>3
    <3>3. ASSUME NEW p \in 1 .. rest, Own(listed[p])
          PROVE  \E i \in 1 .. (last - 1) : bt[i] = p
      <4>1. PICK j \in 1 .. last : at[j] = p
        BY <3>3, <1>3
      <4>2. j # n
        BY <4>1, <3>3, <1>3, <1>6
      <4> QED
        BY <4>1, <4>2, <2>6, <2>9
    <3>4. \A i \in 1 .. (last - 1) : i >= n + 1 => bt[i] = i + (rest - (last - 1))
      <4> TAKE i \in 1 .. (last - 1)
      <4> HAVE i >= n + 1
      <4>1. to(i) = i + 1 /\ bt[i] = at[i + 1] /\ i + 1 \in 1 .. last /\ i + 1 >= n
        BY <2>9, <2>8, <1>1
      <4>2. at[i + 1] = (i + 1) + (rest - last)
        BY <4>1, <1>3
      <4> QED
        BY <4>1, <4>2, <1>1
    <3> QED
      BY <3>1, <3>2, <3>3, <3>4, <2>2, <2>3, <1>1 DEF Placed
  <2>12. ASSUME Apart', NEW i \in 1 .. (last - 1), i < n + 1
         PROVE  Own(lstEvents'[i])
    <3>1. \A p \in 1 .. (rest - 1) : Own(listed[p]) \/ Own(listed[p + 1])
      BY <2>12, <1>1 DEF Apart
    <3>2. CASE i < n
      <4>1. lstEvents'[i] = lstEvents[i] /\ i \in 1 .. last
        BY <3>2, <2>2, <1>1
      <4> QED
        BY <4>1, <3>1, <3>2, <1>4 DEF Apart
    <3>3. CASE i = n
      <4>1. /\ lstEvents'[n] = lstEvents[n + 1] /\ n + 1 \in 1 .. last
            /\ n \in Int /\ n >= n /\ n + 1 >= n
        BY <3>3, <2>2, <1>1
      <4>2. at[n] = n + (rest - last) /\ at[n + 1] = (n + 1) + (rest - last)
        BY <4>1, <1>1, <1>3
      <4>3. at[n] \in 1 .. rest /\ at[n + 1] \in 1 .. rest /\ at[n + 1] = at[n] + 1
        BY <4>1, <4>2, <1>1, <1>3
      <4>4. at[n] \in 1 .. (rest - 1)
        BY <4>3, <1>1
      <4>5. ~ Own(listed[at[n]])
        BY <1>1, <1>3, <1>6
      <4>6. Own(listed[at[n] + 1])
        BY <3>1, <4>4, <4>5
      <4> QED
        BY <3>3, <4>1, <4>3, <4>6, <1>3
    <3> QED
      BY <2>12, <3>2, <3>3, <1>1
  <2>13. Apart' => \A i \in DOMAIN lstEvents' : i < next' \/ phase' # "checking" => Own(lstEvents'[i])
    BY <2>3, <2>12, <1>1
  <2> QED
    BY <2>10, <2>11, <2>13, Zenon DEF Checked
<1> QED
  BY <1>5, <1>6

\* The list as it is given: every event is where it was.
LEMMA ListGiven ==
  ASSUME TypeOK, NEW events \in EventLists, registerRpcMethod(events)
  PROVE  Checked'
<1>1. /\ listed' = events /\ lstEvents' = events /\ next' = 1 /\ phase' = "checking"
      /\ events \in Seq(Event) /\ Len(events) \in Nat /\ DOMAIN events = 1 .. Len(events)
  BY PacketAssumption DEF registerRpcMethod
<1>2. PICK at \in [1 .. Len(events) -> 1 .. Len(events)] : \A i \in 1 .. Len(events) : at[i] = i
  <2>1. [i \in 1 .. Len(events) |-> i] \in [1 .. Len(events) -> 1 .. Len(events)]
    OBVIOUS
  <2> QED
    BY <2>1
<1>3. at \in Places'
  BY <1>1, <1>2 DEF Places
<1>4. Placed(at)'
  BY <1>1, <1>2 DEF Placed
<1>5. \A i \in DOMAIN lstEvents' : ~ (i < next' \/ phase' # "checking")
  BY <1>1
<1> QED
  BY <1>3, <1>4, <1>5, Zenon DEF Checked

\* A step that leaves the lists alone, and does not begin a check.
LEMMA SameLists ==
  ASSUME Checked, UNCHANGED <<listed, lstEvents>>, phase' # "checking",
         phase # "checking" \/ next > Len(lstEvents),
         TypeOK
  PROVE  Checked'
<1>1. PICK at \in Places : Placed(at)
  BY DEF Checked
<1>2. at \in Places' /\ Placed(at)'
  BY <1>1 DEF Places, Placed
<1>3. Apart' => \A i \in DOMAIN lstEvents' : Own(lstEvents'[i])
  <2> SUFFICES ASSUME Apart', NEW i \in DOMAIN lstEvents' PROVE Own(lstEvents'[i])
    OBVIOUS
  <2>1. Apart /\ i \in DOMAIN lstEvents /\ lstEvents'[i] = lstEvents[i]
    BY DEF Apart
  <2>2. i < next \/ phase # "checking"
    BY <2>1 DEF TypeOK
  <2> QED
    BY <2>1, <2>2 DEF Checked
<1> QED
  BY <1>2, <1>3, Zenon DEF Checked

LEMMA CheckedStep == TypeOK /\ Checked /\ [Next]_vars => Checked'
<1> SUFFICES ASSUME TypeOK, Checked, [Next]_vars PROVE Checked'
  OBVIOUS
<1>1. CASE UNCHANGED vars
  BY <1>1 DEF vars, registry, Checked, Places, Placed, Apart
<1>2. ASSUME NEW events \in EventLists, registerRpcMethod(events)
      PROVE  Checked'
  BY <1>2, ListGiven
<1>3. CASE CheckThread
  BY <1>3, OneIndexOn
<1>4. ASSUME NEW name \in Names, Insert(name)
      PROVE  Checked'
  BY <1>4, SameLists DEF Insert
<1>5. CASE Receive
  BY <1>5, SameLists DEF Receive, newDataPacketReceived, registry
<1>6. CASE PassOver \/ invokeMethod \/ EventsDone \/ PacketDone
  BY <1>6, SameLists DEF PassOver, invokeMethod, EventsDone, PacketDone, InEvents, registry
<1>7. ASSUME NEW result \in EventResult, callEvent(result)
      PROVE  Checked'
  BY <1>7, SameLists DEF callEvent, InEvents, registry
<1> QED
  BY <1>1, <1>2, <1>3, <1>4, <1>5, <1>6, <1>7 DEF Next

LEMMA InitChecked == Init => Checked
<1> SUFFICES ASSUME Init PROVE Checked
  OBVIOUS
<1>1. lstEvents = << >> /\ listed = << >> /\ phase = "idle" /\ DOMAIN << >> = {}
  BY DEF Init
<1>2. << >> \in Places /\ Placed(<< >>)
  BY <1>1 DEF Places, Placed
<1> QED
  BY <1>1, <1>2, Zenon DEF Checked

\* Removing events while going through them by index loses none that can be
\* called, whatever the list; and none of another thread stays unless two of
\* them stand side by side.
THEOREM OwnAreKept == Spec => []OwnEventsKept
<1>1. Checked => OwnEventsKept
  BY DEF Checked, Places, Placed, Apart, OwnEventsKept
<1> QED
  BY <1>1, InitTyped, TypeStep, InitChecked, CheckedStep, PTL DEF Spec

-----------------------------------------------------------------------------
(* The events that are called.                                             *)

\* Only events of the type are called.
InPlace ==
  \A k \in DOMAIN calls :
    IF calls[k].call = "method" THEN calls[k].event = 0
    ELSE /\ calls[k].event \in DOMAIN lstEvents
         /\ lstEvents[calls[k].event].type = calls[k].call
         /\ lstEvents[calls[k].event].slot

\* processEvent has called those before the next one, and has always been told
\* to go on.
Turn ==
  phase \in {"before", "after"} =>
    /\ Refused = {}
    /\ \A k \in DOMAIN calls : calls[k].call = phase => calls[k].event < next
    /\ \A i \in DOMAIN lstEvents :
         lstEvents[i].type = phase /\ lstEvents[i].slot /\ i < next =>
           \E k \in DOMAIN calls : calls[k].call = phase /\ calls[k].event = i

\* What was called for the packet, where processPacket is.
Guarding ==
  /\ MethodIsGuarded /\ InPlace /\ Turn
  /\ phase \in {"idle", "checking", "dropped"} => calls = << >>
  /\ phase = "before" => \A k \in DOMAIN calls : calls[k].call = "before"
  /\ phase = "after" => Invoked # {}

\* The calls when c is added to them.
LEMMA OneMoreCall ==
  ASSUME TypeOK, NEW c \in Call, calls' = Append(calls, c)
  PROVE  /\ Len(calls) \in Nat /\ DOMAIN calls = 1 .. Len(calls)
         /\ Len(calls') = Len(calls) + 1 /\ DOMAIN calls' = 1 .. (Len(calls) + 1)
         /\ \A k \in 1 .. Len(calls) : calls'[k] = calls[k]
         /\ calls'[Len(calls) + 1] = c
BY DEF TypeOK

\* The calls and events of a step that calls nothing.
LEMMA SameCalls ==
  ASSUME UNCHANGED <<calls, lstEvents>>
  PROVE  /\ Called("before")' = Called("before") /\ Callable("before")' = Callable("before")
         /\ Called("after")' = Called("after") /\ Callable("after")' = Callable("after")
         /\ Refused' = Refused /\ Invoked' = Invoked
BY DEF Called, Callable, Refused, Invoked

\* The events of the other type are as they were when one is called.
LEMMA OthersCalled ==
  ASSUME TypeOK, NEW c \in Call, calls' = Append(calls, c), c.call # "before",
         UNCHANGED lstEvents
  PROVE  Called("before")' = Called("before") /\ Callable("before")' = Callable("before")
<1>1. /\ Len(calls) \in Nat /\ DOMAIN calls = 1 .. Len(calls)
      /\ DOMAIN calls' = 1 .. (Len(calls) + 1)
      /\ \A k \in 1 .. Len(calls) : calls'[k] = calls[k]
      /\ calls'[Len(calls) + 1] = c
  BY OneMoreCall
<1>2. ASSUME NEW i \in DOMAIN lstEvents
      PROVE  (\E k \in DOMAIN calls' : calls'[k].call = "before" /\ calls'[k].event = i) <=>
               \E k \in DOMAIN calls : calls[k].call = "before" /\ calls[k].event = i
  <2>1. \A k \in DOMAIN calls' : k \in DOMAIN calls \/ k = Len(calls) + 1
    BY <1>1
  <2>2. \A k \in DOMAIN calls : k \in DOMAIN calls'
    BY <1>1
  <2> QED
    BY <1>1, <2>1, <2>2
<1> QED
  BY <1>2 DEF Called, Callable

\* Processing begins, or ends with nothing called.
LEMMA NothingCalled ==
  ASSUME calls' = << >>, phase' # "after", phase' # "done", phase' = "before" => next' = 1,
         TypeOK'
  PROVE  Guarding'
<1>1. DOMAIN calls' = {} /\ Refused' = {} /\ Invoked' = {}
  BY DEF Refused, Invoked
<1>2. MethodIsGuarded' /\ InPlace'
  BY <1>1 DEF MethodIsGuarded, InPlace
<1>3. phase' = "before" => \A i \in DOMAIN lstEvents' : ~ (i < next')
  BY DEF TypeOK
<1>4. Turn'
  BY <1>1, <1>3 DEF Turn
<1> QED
  BY <1>1, <1>2, <1>4 DEF Guarding

\* Nothing is called, and the turn passes to the next event.
LEMMA PassedOver ==
  ASSUME TypeOK, Guarding, PassOver
  PROVE  Guarding'
<1>1. /\ UNCHANGED <<calls, phase, lstEvents>> /\ next' = next + 1 /\ next \in Nat \ {0}
      /\ phase \in {"before", "after"}
      /\ lstEvents[next].type # phase \/ ~lstEvents[next].slot
  BY DEF PassOver, InEvents, registry, TypeOK
<1>2. MethodIsGuarded' /\ InPlace' /\ Refused' = Refused /\ Invoked' = Invoked
  BY <1>1, SameCalls DEF Guarding, MethodIsGuarded, InPlace
<1>3. \A k \in DOMAIN calls : calls[k].call = phase => calls[k].event < next + 1
  <2>1. calls \in Seq(Call)
    BY DEF TypeOK
  <2>2. \A c \in Call : c.event \in Nat
    BY DEF Call
  <2>3. \A k \in DOMAIN calls : calls[k].event \in Nat
    BY <2>1, <2>2
  <2> QED
    BY <1>1, <2>3 DEF Guarding, Turn
<1>4. \A i \in DOMAIN lstEvents :
        lstEvents[i].type = phase /\ lstEvents[i].slot /\ i < next + 1 =>
          \E k \in DOMAIN calls : calls[k].call = phase /\ calls[k].event = i
  <2>1. \A i \in DOMAIN lstEvents : i < next + 1 => i < next \/ i = next
    BY <1>1 DEF TypeOK
  <2> QED
    BY <1>1, <2>1 DEF Guarding, Turn
<1>5. Refused = {}
  BY <1>1 DEF Guarding, Turn
<1>6. Turn'
  BY <1>1, <1>2, <1>3, <1>4, <1>5 DEF Turn
<1> QED
  BY <1>1, <1>2, <1>6 DEF Guarding

\* An event is called.
LEMMA EventCalled ==
  ASSUME TypeOK, Guarding, NEW result \in EventResult, callEvent(result)
  PROVE  Guarding'
<1> DEFINE c == [call |-> phase, event |-> next, result |-> result]
           n == Len(calls)
<1>1. /\ UNCHANGED lstEvents /\ next \in Nat \ {0} /\ next \in DOMAIN lstEvents
      /\ phase \in {"before", "after"}
      /\ lstEvents[next].type = phase /\ lstEvents[next].slot
      /\ calls' = Append(calls, c)
      /\ result = "Ok" => next' = next + 1 /\ phase' = phase
      /\ result # "Ok" => phase' = "done"
  BY DEF callEvent, InEvents, registry, TypeOK
<1>2. c \in Call /\ c.call = phase /\ c.event = next /\ c.result = result
  BY <1>1 DEF Call
<1> HIDE DEF c
<1>3. /\ n \in Nat /\ DOMAIN calls = 1 .. n
      /\ Len(calls') = n + 1 /\ DOMAIN calls' = 1 .. (n + 1)
      /\ \A k \in 1 .. n : calls'[k] = calls[k]
      /\ calls'[n + 1] = c
  BY <1>1, <1>2, OneMoreCall
<1>4. /\ \A k \in 1 .. n : calls[k] \in Call /\ calls[k].event \in Nat
      /\ \A k \in 1 .. n : calls[k].result = "Ok"
      /\ \A k \in 1 .. n : calls[k].call = phase => calls[k].event < next
  <2>1. \A k \in 1 .. n : calls[k] \in Call
    BY <1>3 DEF TypeOK
  <2>2. \A k \in 1 .. n : calls[k].event \in Nat
    BY <2>1 DEF Call
  <2>3. Turn
    BY DEF Guarding
  <2> QED
    BY <1>1, <1>3, <2>1, <2>2, <2>3 DEF Turn, Refused
<1>5. Refused' = IF result = "Ok" THEN {} ELSE {n + 1}
  BY <1>2, <1>3, <1>4 DEF Refused
<1>6. Invoked' = Invoked
  <2>1. c.call # "method"
    BY <1>1, <1>2
  <2> QED
    BY <2>1, <1>3 DEF Invoked
<1>7. MethodIsGuarded'
  <2>1. ASSUME NEW j \in DOMAIN calls', NEW k \in DOMAIN calls', j < k,
               calls'[j].call = calls'[k].call
        PROVE  calls'[j].event < calls'[k].event
    <3>1. CASE k \in 1 .. n
      <4>1. j \in 1 .. n
        BY <2>1, <3>1, <1>3
      <4> QED
        BY <2>1, <3>1, <4>1, <1>3 DEF Guarding, MethodIsGuarded
    <3>2. CASE k = n + 1
      <4>1. j \in 1 .. n
        BY <2>1, <3>2, <1>3
      <4> QED
        BY <2>1, <3>2, <4>1, <1>2, <1>3, <1>4
    <3> QED
      BY <3>1, <3>2, <1>3
  <2>2. ASSUME NEW k \in Invoked'
        PROVE  /\ Called("before")' = Callable("before")'
               /\ \A j \in DOMAIN calls' : (j < k) <=> calls'[j].call = "before"
    <3>1. k \in Invoked /\ k \in 1 .. n /\ calls[k].call = "method"
      BY <2>2, <1>3, <1>6 DEF Invoked
    <3>2. phase = "after"
      BY <3>1, <1>1, <1>3 DEF Guarding
    <3>3. /\ Called("before") = Callable("before")
          /\ \A j \in 1 .. n : (j < k) <=> calls[j].call = "before"
      BY <3>1, <1>3 DEF Guarding, MethodIsGuarded
    <3>4. (n + 1 < k) <=> c.call = "before"
      BY <3>1, <3>2, <1>2, <1>3
    <3>5. Called("before")' = Callable("before")'
      BY <3>2, <3>3, <1>1, <1>2, OthersCalled
    <3> QED
      BY <3>3, <3>4, <3>5, <1>3
  <2>3. Refused' \subseteq {Len(calls')}
    BY <1>3, <1>5
  <2>4. ~ (phase' = "done" /\ Refused' = {})
    BY <1>1, <1>5
  <2> QED
    BY <2>1, <2>2, <2>3, <2>4 DEF MethodIsGuarded
<1>8. InPlace'
  <2>1. ASSUME NEW k \in DOMAIN calls'
        PROVE  IF calls'[k].call = "method" THEN calls'[k].event = 0
               ELSE /\ calls'[k].event \in DOMAIN lstEvents
                    /\ lstEvents[calls'[k].event].type = calls'[k].call
                    /\ lstEvents[calls'[k].event].slot
    <3>1. CASE k \in 1 .. n
      BY <3>1, <1>3 DEF Guarding, InPlace
    <3>2. CASE k = n + 1
      BY <3>2, <1>1, <1>2, <1>3
    <3> QED
      BY <3>1, <3>2, <1>3
  <2> QED
    BY <2>1, <1>1 DEF InPlace
<1>9. CASE result # "Ok"
  <2>1. phase' = "done"
    BY <1>1, <1>9
  <2>2. Turn'
    BY <2>1 DEF Turn
  <2> QED
    BY <2>1, <2>2, <1>7, <1>8 DEF Guarding
<1>10. CASE result = "Ok"
  <2>1. phase' = phase /\ next' = next + 1 /\ Refused' = {}
    BY <1>1, <1>5, <1>10
  <2>2. \A k \in DOMAIN calls' : calls'[k].call = phase => calls'[k].event < next + 1
    <3> TAKE k \in DOMAIN calls'
    <3>1. CASE k \in 1 .. n
      BY <3>1, <1>1, <1>3, <1>4
    <3>2. CASE k = n + 1
      BY <3>2, <1>1, <1>2, <1>3
    <3> QED
      BY <3>1, <3>2, <1>3
  <2>3. ASSUME NEW i \in DOMAIN lstEvents, lstEvents[i].type = phase, lstEvents[i].slot,
               i < next + 1
        PROVE  \E k \in DOMAIN calls' : calls'[k].call = phase /\ calls'[k].event = i
    <3>1. CASE i < next
      <4>1. PICK k \in DOMAIN calls : calls[k].call = phase /\ calls[k].event = i
        BY <2>3, <3>1, <1>1 DEF Guarding, Turn
      <4> QED
        BY <4>1, <1>3
    <3>2. CASE i = next
      BY <3>2, <1>2, <1>3
    <3> QED
      BY <2>3, <3>1, <3>2, <1>1 DEF TypeOK
  <2>4. Turn'
    BY <2>1, <2>2, <2>3, <1>1 DEF Turn
  <2>5. phase = "before" => \A k \in DOMAIN calls' : calls'[k].call = "before"
    BY <1>2, <1>3 DEF Guarding
  <2>6. phase = "after" => Invoked' # {}
    BY <1>6 DEF Guarding
  <2> QED
    BY <1>1, <1>7, <1>8, <2>1, <2>4, <2>5, <2>6 DEF Guarding
<1> QED
  BY <1>9, <1>10

\* The method is called.
LEMMA MethodCalled ==
  ASSUME TypeOK, Guarding, invokeMethod
  PROVE  Guarding'
<1> DEFINE c == [call |-> "method", event |-> 0, result |-> "Ok"]
           n == Len(calls)
<1>1. /\ UNCHANGED lstEvents /\ next \in Nat \ {0} /\ next > Len(lstEvents)
      /\ phase = "before" /\ phase' = "after" /\ next' = 1
      /\ calls' = Append(calls, c)
  BY DEF invokeMethod, registry, TypeOK
<1>2. c \in Call /\ c.call = "method" /\ c.event = 0 /\ c.result = "Ok"
  BY DEF Call, EventResult
<1> HIDE DEF c
<1>3. /\ n \in Nat /\ DOMAIN calls = 1 .. n
      /\ Len(calls') = n + 1 /\ DOMAIN calls' = 1 .. (n + 1)
      /\ \A k \in 1 .. n : calls'[k] = calls[k]
      /\ calls'[n + 1] = c
  BY <1>1, <1>2, OneMoreCall
<1>4. \A k \in 1 .. n : calls[k].call = "before" /\ calls[k].result = "Ok"
  BY <1>1, <1>3 DEF Guarding, Turn, Refused
<1>5. Called("before")' = Callable("before")'
  <2>1. Callable("before") \subseteq Called("before")
    <3>1. \A i \in DOMAIN lstEvents : i < next
      BY <1>1 DEF TypeOK
    <3> QED
      BY <3>1, <1>1 DEF Guarding, Turn, Called, Callable
  <2>2. Called("before") \subseteq Callable("before")
    <3>1. \A k \in 1 .. n : /\ lstEvents[calls[k].event].type = "before"
                            /\ lstEvents[calls[k].event].slot
      BY <1>3, <1>4 DEF Guarding, InPlace
    <3> QED
      BY <3>1, <1>3 DEF Called, Callable
  <2>3. Called("before") = Callable("before")
    BY <2>1, <2>2
  <2> QED
    BY <2>3, <1>1, <1>2, OthersCalled
<1>6. Invoked' = {n + 1} /\ Refused' = {}
  BY <1>2, <1>3, <1>4 DEF Invoked, Refused
<1>7. MethodIsGuarded'
  <2>1. ASSUME NEW j \in DOMAIN calls', NEW k \in DOMAIN calls', j < k,
               calls'[j].call = calls'[k].call
        PROVE  calls'[j].event < calls'[k].event
    <3>1. k \in 1 .. n /\ j \in 1 .. n
      BY <2>1, <1>2, <1>3, <1>4
    <3> QED
      BY <2>1, <3>1, <1>3 DEF Guarding, MethodIsGuarded
  <2>2. \A j \in DOMAIN calls' : (j < n + 1) <=> calls'[j].call = "before"
    BY <1>2, <1>3, <1>4
  <2> QED
    BY <2>1, <2>2, <1>1, <1>5, <1>6 DEF MethodIsGuarded
<1>8. InPlace'
  BY <1>1, <1>2, <1>3 DEF Guarding, InPlace
<1>9. Turn'
  <2>1. \A k \in DOMAIN calls' : calls'[k].call # "after"
    BY <1>2, <1>3, <1>4
  <2>2. \A i \in DOMAIN lstEvents : ~ (i < 1)
    BY DEF TypeOK
  <2> QED
    BY <2>1, <2>2, <1>1, <1>6 DEF Turn
<1> QED
  BY <1>1, <1>6, <1>7, <1>8, <1>9 DEF Guarding

\* All events were called.
LEMMA AllCalled ==
  ASSUME TypeOK, Guarding, EventsDone
  PROVE  Guarding'
<1>1. /\ UNCHANGED <<calls, lstEvents>> /\ phase = "after" /\ phase' = "done"
      /\ next > Len(lstEvents) /\ next \in Nat
  BY DEF EventsDone, registry, TypeOK
<1>2. Called("after") = Callable("after")
  <2>1. \A i \in DOMAIN lstEvents : i < next
    BY <1>1 DEF TypeOK
  <2>2. Callable("after") \subseteq Called("after")
    BY <2>1, <1>1 DEF Guarding, Turn, Called, Callable
  <2>3. Called("after") \subseteq Callable("after")
    BY DEF Guarding, InPlace, Called, Callable
  <2> QED
    BY <2>2, <2>3
<1>3. MethodIsGuarded'
  BY <1>1, <1>2, SameCalls DEF Guarding, MethodIsGuarded
<1>4. InPlace' /\ Turn'
  BY <1>1 DEF Guarding, InPlace, Turn
<1> QED
  BY <1>1, <1>3, <1>4 DEF Guarding

LEMMA GuardingStep == TypeOK /\ Guarding /\ [Next]_vars => Guarding'
<1> SUFFICES ASSUME TypeOK, Guarding, [Next]_vars PROVE Guarding'
  OBVIOUS
<1>0. TypeOK'
  BY TypeStep
<1>1. CASE UNCHANGED vars
  <2>1. UNCHANGED <<calls, lstEvents, phase, next>>
    BY <1>1 DEF vars, registry
  <2> QED
    BY <2>1, SameCalls DEF Guarding, MethodIsGuarded, InPlace, Turn
<1>2. ASSUME NEW events \in EventLists, registerRpcMethod(events)
      PROVE  Guarding'
  <2>1. calls' = << >> /\ phase' = "checking"
    BY <1>2 DEF registerRpcMethod, Guarding
  <2> QED
    BY <2>1, <1>0, NothingCalled
<1>3. ASSUME CheckThread \/ \E name \in Names : Insert(name)
      PROVE  Guarding'
  <2>1. calls' = << >> /\ phase' \in {"idle", "checking"}
    BY <1>3 DEF CheckThread, Insert, Guarding
  <2> QED
    BY <2>1, <1>0, NothingCalled
<1>4. CASE Receive
  <2>1. calls' = << >> /\ phase' \in {"before", "dropped"} /\ next' = 1
    BY <1>4 DEF Receive, newDataPacketReceived, Guarding
  <2> QED
    BY <2>1, <1>0, NothingCalled
<1>5. CASE PassOver
  BY <1>5, PassedOver
<1>6. CASE invokeMethod
  BY <1>6, MethodCalled
<1>7. CASE EventsDone
  BY <1>7, AllCalled
<1>8. CASE PacketDone
  <2>1. calls' = << >> /\ phase' = "idle"
    BY <1>8 DEF PacketDone
  <2> QED
    BY <2>1, <1>0, NothingCalled
<1>9. ASSUME NEW result \in EventResult, callEvent(result)
      PROVE  Guarding'
  BY <1>9, EventCalled
<1> QED
  BY <1>1, <1>2, <1>3, <1>4, <1>5, <1>6, <1>7, <1>8, <1>9 DEF Next

LEMMA InitGuarding == Init => Guarding
<1> SUFFICES ASSUME Init PROVE Guarding
  OBVIOUS
<1>1. calls = << >> /\ phase = "idle" /\ DOMAIN calls = {} /\ Refused = {} /\ Invoked = {}
  BY DEF Init, Refused, Invoked
<1> QED
  BY <1>1 DEF Guarding, MethodIsGuarded, InPlace, Turn

\* Whatever the events and their answers, a method is called for a packet at
\* most once and only when all events before it have agreed, each called once
\* and in its turn; and all events after it follow unless one refuses.
THEOREM GuardHolds == Spec => []MethodIsGuarded
<1>1. Guarding => MethodIsGuarded
  BY DEF Guarding
<1> QED
  BY <1>1, InitTyped, TypeStep, InitGuarding, GuardingStep, PTL DEF Spec

==============================================================================
