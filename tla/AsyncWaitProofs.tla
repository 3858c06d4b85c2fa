--------------------------- MODULE AsyncWaitProofs ---------------------------
(***************************************************************************)
(* Proofs about AsyncWait, for any devices, methods and nesting.           *)
(*                                                                         *)
(* QuitForAReason is kept by every step because a step tells waits to quit *)
(* only with a reason; that a handler which finishes late names waits, and *)
(* only waits under it, makes the steps keep the types.                    *)
(***************************************************************************)
EXTENDS AsyncWait, TLAPS

Frame == Wait \cup Handler

Reasoned(f) ==
  f.kind = "wait" =>
    (f.loop = "own" /\ f.quit => f.got \/ (f.timed /\ f.due))

\* A call stack that is typed, whose waits quit for a reason, and whose
\* handlers have only waits under them to serve.
Sound(s) ==
  /\ s \in Seq(Frame)
  /\ \A i \in 1 .. Len(s) : Reasoned(s[i])
  /\ \A i \in 1 .. Len(s) : s[i].kind = "handler" =>
       \A j \in s[i].late : j \in 1 .. (i - 1) /\ s[j].kind = "wait"

IInv ==
  /\ Sound(stack)
  /\ buffer \in [Devices -> Seq(Methods)]
  /\ unsent \in Nat
  /\ stale \in Nat

LEMMA InvImplies ==
  ASSUME IInv
  PROVE  TypeOK /\ QuitForAReason
BY DEF IInv, Sound, Reasoned, Frame, TypeOK, QuitForAReason, Waits, Depth

\* Frames are told apart by their kind.
LEMMA Kinds ==
  ASSUME NEW f \in Frame
  PROVE  /\ f.kind = "wait" => f \in Wait
         /\ f.kind = "handler" => f \in Handler
         /\ f.kind \in {"wait", "handler"}
BY DEF Frame, Wait, Handler

\* A stack stays sound when some of its waits are replaced by sound waits.
LEMMA Replaced ==
  ASSUME NEW s, Sound(s), NEW t, t = [i \in 1 .. Len(s) |-> t[i]],
         \A i \in 1 .. Len(s) :
           t[i] = s[i] \/ (s[i].kind = "wait" /\ t[i] \in Wait /\ Reasoned(t[i]))
  PROVE  Sound(t) /\ Len(t) = Len(s)
<1>1. s \in Seq(Frame) /\ Len(s) \in Nat /\ \A i \in 1 .. Len(s) : s[i] \in Frame
  BY DEF Sound
<1>2. t \in Seq(Frame) /\ Len(t) = Len(s)
  <2>1. \A i \in 1 .. Len(s) : t[i] \in Frame
    BY <1>1 DEF Frame
  <2>2. t \in [1 .. Len(s) -> Frame]
    BY <2>1
  <2> QED
    BY <1>1, <2>2
<1>3. \A i \in 1 .. Len(s) : t[i].kind = s[i].kind /\ Reasoned(t[i])
  BY DEF Sound, Wait
<1>4. ASSUME NEW i \in 1 .. Len(t), t[i].kind = "handler", NEW j \in t[i].late
      PROVE  j \in 1 .. (i - 1) /\ t[j].kind = "wait"
  <2>1. t[i] = s[i]
    BY <1>2, <1>3, <1>4
  <2>2. j \in 1 .. (i - 1) /\ s[j].kind = "wait"
    BY <2>1, <1>2, <1>4 DEF Sound
  <2> QED
    BY <2>2, <1>1, <1>2, <1>3
<1> QED
  BY <1>2, <1>3, <1>4 DEF Sound

\* A wait that is given a packet and told to quit has its reason.
LEMMA Received ==
  ASSUME NEW s, Sound(s), NEW I, \A i \in I : i \in 1 .. Len(s) /\ s[i].kind = "wait"
  PROVE  /\ Sound(packetReceived(s, I)) /\ Len(packetReceived(s, I)) = Len(s)
         /\ \A i \in 1 .. Len(s) : packetReceived(s, I)[i].kind = s[i].kind
         /\ \A i \in 1 .. Len(s) : i \notin I => packetReceived(s, I)[i] = s[i]
<1> DEFINE t == packetReceived(s, I)
           got(f) == [f EXCEPT !.got = TRUE]
           both(f) == [got(f) EXCEPT !.quit = TRUE]
<1>1. DOMAIN s = 1 .. Len(s) /\ \A i \in 1 .. Len(s) : s[i] \in Frame
  BY DEF Sound
<1>2. t = [i \in 1 .. Len(s) |-> IF i \in I THEN both(s[i]) ELSE s[i]]
  BY <1>1 DEF packetReceived, Told
<1>3. ASSUME NEW i \in I
      PROVE  both(s[i]) \in Wait /\ Reasoned(both(s[i]))
  <2>1. s[i] \in Wait
    BY <1>1, Kinds
  <2>2. got(s[i]) \in Wait /\ got(s[i]).got
    BY <2>1 DEF Wait
  <2> HIDE DEF got
  <2>3. both(s[i]) \in Wait /\ both(s[i]).got = got(s[i]).got
    BY <2>2 DEF Wait
  <2> QED
    BY <2>2, <2>3 DEF Reasoned
<1> HIDE DEF both, got, t
<1>4. \A i \in 1 .. Len(s) :
        t[i] = s[i] \/ (s[i].kind = "wait" /\ t[i] \in Wait /\ Reasoned(t[i]))
  BY <1>2, <1>3
<1>5. Sound(t) /\ Len(t) = Len(s)
  BY <1>2, <1>4, Replaced
<1>6. \A i \in 1 .. Len(s) : t[i].kind = s[i].kind /\ (i \notin I => t[i] = s[i])
  BY <1>2, <1>4 DEF Wait
<1> QED
  BY <1>5, <1>6 DEF t

\* Telling waits to quit that are on the caller's loop.
LEMMA ToldToQuit ==
  ASSUME NEW s, Sound(s), NEW I,
         \A i \in I : i \in 1 .. Len(s) /\ s[i].kind = "wait" /\ s[i].loop = "callers"
  PROVE  Sound(Told(s, I))
<1> DEFINE t == Told(s, I)
           quit(f) == [f EXCEPT !.quit = TRUE]
<1>1. DOMAIN s = 1 .. Len(s) /\ \A i \in 1 .. Len(s) : s[i] \in Frame
  BY DEF Sound
<1>2. t = [i \in 1 .. Len(s) |-> IF i \in I THEN quit(s[i]) ELSE s[i]]
  BY <1>1 DEF Told
<1>3. ASSUME NEW i \in I
      PROVE  quit(s[i]) \in Wait /\ Reasoned(quit(s[i]))
  <2>1. s[i] \in Wait
    BY <1>1, Kinds
  <2> QED
    BY <2>1 DEF Wait, Reasoned
<1> HIDE DEF quit, t
<1>4. \A i \in 1 .. Len(s) :
        t[i] = s[i] \/ (s[i].kind = "wait" /\ t[i] \in Wait /\ Reasoned(t[i]))
  BY <1>2, <1>3
<1> QED
  BY <1>2, <1>4, Replaced DEF t

\* A timer tells its own wait to quit.
LEMMA TimedOut ==
  ASSUME NEW s, Sound(s), NEW i \in 1 .. Len(s), s[i].kind = "wait", s[i].timed
  PROVE  Sound([Told(s, {i}) EXCEPT ![i].due = TRUE])
<1> DEFINE t == [Told(s, {i}) EXCEPT ![i].due = TRUE]
           quit == [s[i] EXCEPT !.quit = TRUE]
           both == [quit EXCEPT !.due = TRUE]
<1>1. s[i] \in Wait /\ DOMAIN s = 1 .. Len(s)
  BY Kinds DEF Sound
<1>2. Told(s, {i}) = [j \in 1 .. Len(s) |-> IF j = i THEN quit ELSE s[j]]
  BY <1>1 DEF Told
<1>3. quit \in Wait /\ quit.timed = s[i].timed
  BY <1>1 DEF Wait
<1> HIDE DEF quit
<1>4. both \in Wait /\ both.due /\ both.timed = quit.timed
  BY <1>3 DEF Wait
<1>5. t = [j \in 1 .. Len(s) |-> IF j = i THEN both ELSE s[j]]
  BY <1>2
<1>6. Reasoned(both)
  BY <1>3, <1>4 DEF Reasoned
<1> HIDE DEF both, t
<1> QED
  BY <1>1, <1>4, <1>5, <1>6, Replaced DEF t

\* A new frame on the stack.
LEMMA Push ==
  ASSUME NEW s, Sound(s), NEW f \in Frame, Reasoned(f), f.kind = "handler" => f.late = {}
  PROVE  Sound(Append(s, f))
<1>1. s \in Seq(Frame) /\ Len(s) \in Nat
  BY DEF Sound
<1>2. /\ Append(s, f) \in Seq(Frame) /\ Len(Append(s, f)) = Len(s) + 1
      /\ Append(s, f)[Len(s) + 1] = f
      /\ \A i \in 1 .. Len(s) : Append(s, f)[i] = s[i]
  BY <1>1
<1>3. \A i \in 1 .. Len(Append(s, f)) : i \in 1 .. Len(s) \/ i = Len(s) + 1
  BY <1>1, <1>2
<1> HIDE DEF Frame
<1>4. \A i \in 1 .. Len(Append(s, f)) : Reasoned(Append(s, f)[i])
  BY <1>2, <1>3 DEF Sound
<1>5. ASSUME NEW i \in 1 .. Len(Append(s, f)), Append(s, f)[i].kind = "handler",
             NEW j \in Append(s, f)[i].late
      PROVE  j \in 1 .. (i - 1) /\ Append(s, f)[j].kind = "wait"
  <2>1. i \in 1 .. Len(s)
    BY <1>2, <1>3, <1>5
  <2>2. j \in 1 .. (i - 1) /\ s[j].kind = "wait"
    BY <2>1, <1>2, <1>5 DEF Sound
  <2> QED
    BY <2>1, <2>2, <1>1, <1>2
<1> QED
  BY <1>2, <1>4, <1>5 DEF Sound

LEMMA Pop ==
  ASSUME NEW s, Sound(s), s # << >>
  PROVE  Sound(SubSeq(s, 1, Len(s) - 1))
<1> DEFINE t == SubSeq(s, 1, Len(s) - 1)
<1>1. s \in Seq(Frame) /\ Len(s) \in Nat \ {0}
  BY DEF Sound
<1>2. /\ t \in Seq(Frame) /\ Len(t) = Len(s) - 1
      /\ \A i \in 1 .. Len(t) : i \in 1 .. Len(s) /\ t[i] = s[i]
  <2>1. t = [i \in 1 .. (Len(s) - 1) |-> s[i]]
    BY <1>1
  <2>2. \A i \in 1 .. (Len(s) - 1) : s[i] \in Frame /\ i \in 1 .. Len(s)
    BY <1>1
  <2>3. Len(s) - 1 \in Nat
    BY <1>1
  <2> HIDE DEF t
  <2>4. t \in [1 .. (Len(s) - 1) -> Frame]
    BY <2>1, <2>2
  <2> QED
    BY <2>1, <2>2, <2>3, <2>4
<1> HIDE DEF t
<1>3. ASSUME NEW i \in 1 .. Len(t), t[i].kind = "handler", NEW j \in t[i].late
      PROVE  j \in 1 .. (i - 1) /\ t[j].kind = "wait"
  <2>1. j \in 1 .. (i - 1) /\ s[j].kind = "wait"
    BY <1>2, <1>3 DEF Sound
  <2> QED
    BY <2>1, <1>1, <1>2
<1> QED
  BY <1>2, <1>3 DEF Sound, t

\* The handler on top goes on.
LEMMA TopChanged ==
  ASSUME NEW s, Sound(s), s # << >>, NEW h \in Handler,
         \A j \in h.late : j \in 1 .. (Len(s) - 1) /\ s[j].kind = "wait"
  PROVE  Sound([s EXCEPT ![Len(s)] = h])
<1> DEFINE t == [s EXCEPT ![Len(s)] = h]
<1>1. s \in Seq(Frame) /\ Len(s) \in Nat \ {0} /\ h.kind = "handler"
  BY DEF Sound, Handler
<1>2. h \in Frame
  BY DEF Frame
<1>3. /\ t \in Seq(Frame) /\ Len(t) = Len(s) /\ t[Len(s)] = h
      /\ \A i \in 1 .. (Len(s) - 1) : t[i] = s[i]
  BY <1>1, <1>2
<1>4. \A i \in 1 .. Len(t) : i \in 1 .. (Len(s) - 1) \/ i = Len(s)
  BY <1>1, <1>3
<1> HIDE DEF t
<1>5. \A i \in 1 .. Len(t) : Reasoned(t[i])
  BY <1>1, <1>3, <1>4 DEF Sound, Reasoned
<1>6. ASSUME NEW i \in 1 .. Len(t), t[i].kind = "handler", NEW j \in t[i].late
      PROVE  j \in 1 .. (i - 1) /\ t[j].kind = "wait"
  <2>1. j \in 1 .. (i - 1) /\ s[j].kind = "wait"
    BY <1>1, <1>3, <1>4, <1>6 DEF Sound
  <2> QED
    BY <2>1, <1>1, <1>3, <1>4
<1> QED
  BY <1>3, <1>5, <1>6 DEF Sound, t

LEMMA InitOK == Init => IInv
BY AsyncWaitAssumption DEF Init, IInv, Sound, Frame

\* What the actions find on the stack.
LEMMA Stack ==
  ASSUME Sound(stack)
  PROVE  /\ Depth \in Nat /\ (stack # << >> => Depth \in 1 .. Len(stack))
         /\ \A i \in Waits : i \in 1 .. Len(stack) /\ stack[i].kind = "wait" /\ stack[i] \in Wait
         /\ \A d \in Devices, at \in {"loop", "method"} : InHandler(d, at) =>
              /\ stack # << >> /\ Top \in Handler /\ Top.at = at
              /\ \A j \in Top.late : j \in 1 .. (Depth - 1) /\ stack[j].kind = "wait"
<1>1. stack \in Seq(Frame) /\ Len(stack) \in Nat
  BY DEF Sound
<1>2. stack # << >> => Len(stack) \in 1 .. Len(stack)
  BY <1>1
<1>3. \A i \in 1 .. Len(stack) : stack[i] \in Frame
  BY <1>1
<1>4. \A i \in Waits : i \in 1 .. Len(stack) /\ stack[i].kind = "wait" /\ stack[i] \in Wait
  BY <1>3, Kinds DEF Waits, Depth
<1>5. ASSUME NEW d \in Devices, NEW at \in {"loop", "method"}, InHandler(d, at)
      PROVE  /\ stack # << >> /\ Top \in Handler /\ Top.at = at
             /\ \A j \in Top.late : j \in 1 .. (Depth - 1) /\ stack[j].kind = "wait"
  <2>1. stack # << >> /\ Top.kind = "handler" /\ Top.at = at
    BY <1>5 DEF InHandler
  <2>2. Top = stack[Len(stack)] /\ Top \in Frame
    BY <1>2, <1>3, <2>1 DEF Top, Depth
  <2>3. Top \in Handler
    BY <2>1, <2>2, Kinds
  <2> QED
    BY <1>2, <2>1, <2>2, <2>3 DEF Sound, Depth
<1> QED
  BY <1>1, <1>2, <1>4, <1>5 DEF Depth

\* A packet goes to waits, and maybe to a method that others have to wait for.
LEMMA Dispatch ==
  ASSUME Sound(stack), NEW d \in Devices, InHandler(d, "loop"),
         NEW served, NEW late, served \subseteq Waits, late \subseteq Waits
  PROVE  /\ Sound(packetReceived(stack, served))
         /\ Sound([packetReceived(stack, served) EXCEPT
                     ![Depth].at = "method", ![Depth].late = late])
<1> DEFINE t == packetReceived(stack, served)
           h == [Top EXCEPT !.at = "method"]
           g == [h EXCEPT !.late = late]
<1>1. /\ Depth \in 1 .. Len(stack) /\ Top \in Handler /\ Depth \in Nat
      /\ \A i \in Waits : i \in 1 .. Len(stack) /\ stack[i].kind = "wait"
  BY Stack
<1>2. Depth \notin served /\ Depth \notin late
  BY <1>1 DEF Top, Handler
<1>3. /\ Sound(t) /\ Len(t) = Len(stack) /\ t[Depth] = Top
      /\ \A i \in 1 .. Len(stack) : t[i].kind = stack[i].kind
  BY <1>1, <1>2, Received DEF Top
<1>4. g \in Handler /\ g.late = late
  <2>1. late \in SUBSET Nat
    BY <1>1
  <2> QED
    BY <1>1, <2>1 DEF Handler
<1>5. \A j \in g.late : j \in 1 .. (Len(t) - 1) /\ t[j].kind = "wait"
  BY <1>1, <1>2, <1>3, <1>4 DEF Depth
<1>6. t # << >>
  BY <1>1, <1>3
<1> HIDE DEF t, g, h
<1>7. Sound([t EXCEPT ![Depth] = g])
  BY <1>3, <1>4, <1>5, <1>6, TopChanged DEF Depth
<1>8. [t EXCEPT ![Depth].at = "method", ![Depth].late = late] = [t EXCEPT ![Depth] = g]
  BY <1>1, <1>3 DEF g, h, Sound
<1> QED
  BY <1>3, <1>7, <1>8 DEF t

LEMMA waitOK ==
  ASSUME IInv, NEW m \in Methods, NEW timed \in BOOLEAN, NEW loop \in {"own", "callers"},
         waitAsyncForPacket(m, timed, loop)
  PROVE  IInv'
<1>1. NewWait(m, timed, loop) \in Frame /\ Reasoned(NewWait(m, timed, loop))
      /\ NewWait(m, timed, loop).kind = "wait"
  BY DEF NewWait, Frame, Wait, Reasoned
<1>2. Sound(Append(stack, NewWait(m, timed, loop)))
  BY <1>1, Push DEF IInv
<1> QED
  BY <1>2 DEF waitAsyncForPacket, IInv

LEMMA TimersOK ==
  ASSUME IInv, StaleTimeout \/ \E i \in 1 .. MaxDepth : Timeout(i)
  PROVE  IInv'
<1>1. CASE StaleTimeout
  <2>1. Sound(Told(stack, OnCallersLoop))
    <3>1. \A i \in OnCallersLoop :
            i \in 1 .. Len(stack) /\ stack[i].kind = "wait" /\ stack[i].loop = "callers"
      BY Stack DEF IInv, OnCallersLoop
    <3> QED
      BY <3>1, ToldToQuit DEF IInv
  <2> QED
    BY <1>1, <2>1 DEF StaleTimeout, IInv
<1>2. CASE \E i \in 1 .. MaxDepth : Timeout(i)
  <2>1. PICK i : Timeout(i)
    BY <1>2
  <2>2. i \in 1 .. Len(stack) /\ stack[i].kind = "wait" /\ stack[i].timed
    BY <2>1, Stack DEF Timeout, IInv
  <2>3. Sound([Told(stack, {i}) EXCEPT ![i].due = TRUE])
    BY <2>2, TimedOut DEF IInv
  <2> QED
    BY <2>1, <2>3 DEF Timeout, IInv
<1> QED
  BY <1>1, <1>2

LEMMA ReturnsOK ==
  ASSUME IInv, (\E i \in 1 .. MaxDepth : WaitReturns(i)) \/ (\E d \in Devices : LeaveHandler(d))
  PROVE  IInv'
<1>1. stack # << >>
  BY Stack DEF IInv, WaitReturns, LeaveHandler
<1>2. Sound(Return)
  BY <1>1, Pop DEF IInv, Return, Depth
<1>3. stack' = Return /\ stale' \in Nat /\ UNCHANGED <<buffer, unsent>>
  BY DEF WaitReturns, LeaveHandler, IInv
<1> QED
  BY <1>2, <1>3 DEF IInv

LEMMA handlerOK ==
  ASSUME IInv, NEW d \in Devices, dataHandler(d)
  PROVE  IInv'
<1> DEFINE h == [kind |-> "handler", dev |-> d, at |-> "loop", late |-> {}]
<1>1. h \in Frame /\ Reasoned(h) /\ h.late = {}
  BY DEF Frame, Handler, Reasoned
<1> HIDE DEF h
<1>2. Sound(Append(stack, h))
  BY <1>1, Push DEF IInv
<1> QED
  BY <1>2 DEF dataHandler, IInv, h

LEMMA packetOK ==
  ASSUME IInv, NEW d \in Devices, newDataPacketReceived(d)
  PROVE  IInv'
<1> DEFINE all == Waiting(Head(buffer[d]))
<1>1. all \subseteq Waits
  BY DEF Waiting
<1> HIDE DEF all
<1>2. buffer' \in [Devices -> Seq(Methods)] /\ UNCHANGED <<unsent, stale>>
  <2>1. Tail(buffer[d]) \in Seq(Methods)
    BY DEF newDataPacketReceived, IInv
  <2> QED
    BY <2>1 DEF newDataPacketReceived, IInv
<1>3. Sound(stack')
  <2>1. CASE stack' = packetReceived(stack, all)
    BY <2>1, <1>1, Dispatch DEF IInv, newDataPacketReceived
  <2>2. CASE \E k \in 1 .. Depth :
               stack' = [packetReceived(stack, all \ {i \in all : i < k}) EXCEPT
                           ![Depth].at = "method", ![Depth].late = {i \in all : i < k}]
    <3>1. PICK k \in 1 .. Depth :
               stack' = [packetReceived(stack, all \ {i \in all : i < k}) EXCEPT
                           ![Depth].at = "method", ![Depth].late = {i \in all : i < k}]
      BY <2>2
    <3>2. all \ {i \in all : i < k} \subseteq Waits /\ {i \in all : i < k} \subseteq Waits
      BY <1>1
    <3>3. InHandler(d, "loop")
      BY DEF newDataPacketReceived
    <3> QED
      BY <3>1, <3>2, <3>3, Dispatch DEF IInv
  <2> QED
    BY <2>1, <2>2 DEF newDataPacketReceived, all
<1> QED
  BY <1>2, <1>3 DEF IInv

LEMMA methodOK ==
  ASSUME IInv, NEW d \in Devices, MethodReturns(d)
  PROVE  IInv'
<1> DEFINE t == packetReceived(stack, Top.late)
           h == [Top EXCEPT !.at = "loop"]
           g == [h EXCEPT !.late = {}]
<1>1. /\ Sound(stack) /\ Depth \in 1 .. Len(stack) /\ Depth \in Nat /\ Top \in Handler
      /\ \A j \in Top.late : j \in 1 .. (Depth - 1) /\ stack[j].kind = "wait"
  BY Stack DEF IInv, MethodReturns
<1>2. Depth \notin Top.late
  BY <1>1
<1>3. Sound(t) /\ Len(t) = Len(stack) /\ t[Depth] = Top
  <2>1. \A j \in Top.late : j \in 1 .. Len(stack) /\ stack[j].kind = "wait"
    BY <1>1 DEF Depth
  <2> QED
    BY <1>1, <1>2, <2>1, Received DEF Top
<1>4. g \in Handler /\ g.late = {}
  BY <1>1 DEF Handler
<1>5. t # << >>
  BY <1>1, <1>3
<1> HIDE DEF t, g, h
<1>6. Sound([t EXCEPT ![Depth] = g])
  BY <1>3, <1>4, <1>5, TopChanged DEF Depth
<1>7. [t EXCEPT ![Depth].at = "loop", ![Depth].late = {}] = [t EXCEPT ![Depth] = g]
  BY <1>1, <1>3 DEF g, h, Sound
<1> QED
  BY <1>6, <1>7 DEF MethodReturns, IInv, t

LEMMA NextOK == IInv /\ [Next]_vars => IInv'
<1> SUFFICES ASSUME IInv, [Next]_vars PROVE IInv'
  OBVIOUS
<1>1. CASE UNCHANGED vars
  BY <1>1 DEF vars, IInv
<1>2. ASSUME NEW timed \in BOOLEAN, waitOnRunningLoop(timed)
      PROVE  IInv'
  BY <1>2 DEF waitOnRunningLoop, IInv
<1>3. ASSUME NEW d \in Devices, NEW m \in Methods, Arrive(d, m)
      PROVE  IInv'
  <2>1. Append(buffer[d], m) \in Seq(Methods) /\ unsent - 1 \in Nat
    BY <1>3 DEF Arrive, IInv
  <2> QED
    BY <1>3, <2>1 DEF Arrive, IInv
<1> QED
  BY <1>1, <1>2, <1>3, waitOK, TimersOK, ReturnsOK, handlerOK, packetOK, methodOK DEF Next

\* The call stack, the buffers and the timers keep their types.
THEOREM TypeCorrect == Spec => []TypeOK
<1>1. Spec => []IInv
  BY InitOK, NextOK, PTL DEF Spec
<1> QED
  BY <1>1, InvImplies, PTL

\* waitAsyncForPacket: a wait on a loop of its own is ended by its packet or by
\* its own timeout, and by no other wait's, however they are nested.
THEOREM EndsForAReason == Spec => []QuitForAReason
<1>1. Spec => []IInv
  BY InitOK, NextOK, PTL DEF Spec
<1> QED
  BY <1>1, InvImplies, PTL
==============================================================================
