---------------------------- MODULE RpcCallProofs ----------------------------
(***************************************************************************)
(* Whom newDataPacketReceived calls, for all methods, receivers, threads   *)
(* and user methods, however deep packets are dispatched inside of others: *)
(* no delegate of a single shot method that is spent, and no receiver of   *)
(* this thread that is gone, as of the time its delegates were copied.     *)
(***************************************************************************)
EXTENDS RpcDispatchProofs

Passes == {"base", "worker"}

\* The delegates registered for m in the maps b and w.
Kept(b, w, pass, m) == IF pass = "base" THEN b[m] ELSE w[m]

\* The id of a delegate tells it from all others in the maps, and a single shot
\* delegate that has been called is in none.
Identified(b, w, n, s) ==
  /\ s \subseteq 1 .. n
  /\ \A p \in Passes, m \in Methods : \A g \in Kept(b, w, p, m) : g.id \in 1 .. n /\ g.id \notin s
  /\ \A p, q \in Passes, k, m \in Methods : \A g \in Kept(b, w, p, k), h \in Kept(b, w, q, m) :
       g.id = h.id => g = h /\ p = q /\ k = m

\* The delegates in hand were not spent, and their receivers not destroyed, when
\* the call c copied them; they are found where it has found them, if anywhere.
Fine(c, b, w, n) ==
  \A g \in c.todo \cup c.running :
    /\ g.id \in 1 .. n
    /\ g.id \notin c.spent
    /\ ThreadOf[g.object] = Main => g.object \in c.living
    /\ \A p \in Passes, m \in Methods : \A h \in Kept(b, w, p, m) :
         g.id = h.id => g = h /\ p = c.pass /\ m = c.method

CallsAreFine == \A i \in 1 .. Len(calls) : Fine(calls[i], base, worker, made)

Orderly == Identified(base, worker, made, spent) /\ CallsAreFine

-----------------------------------------------------------------------------
(* The stack of dispatches.                                                *)

LEMMA Pushed ==
  ASSUME NEW S, NEW s \in Seq(S), NEW c \in S
  PROVE  \A i \in 1 .. Len(Append(s, c)) :
           Append(s, c)[i] = c \/ \E j \in 1 .. Len(s) : Append(s, c)[i] = s[j]
OBVIOUS

LEMMA Popped ==
  ASSUME NEW S, NEW s \in Seq(S), s # << >>
  PROVE  /\ SubSeq(s, 1, Len(s) - 1) \in Seq(S)
         /\ \A i \in 1 .. Len(SubSeq(s, 1, Len(s) - 1)) :
              \E j \in 1 .. Len(s) : SubSeq(s, 1, Len(s) - 1)[i] = s[j]
<1>1. Len(s) \in Nat /\ Len(s) >= 1
  OBVIOUS
<1>2. SubSeq(s, 1, Len(s) - 1) \in Seq(S)
  BY Stack
<1>3. Len(SubSeq(s, 1, Len(s) - 1)) = Len(s) - 1
  BY <1>1
<1>4. \A i \in 1 .. Len(s) - 1 : i \in 1 .. Len(s) /\ SubSeq(s, 1, Len(s) - 1)[i] = s[i]
  BY <1>1
<1> QED
  BY <1>2, <1>3, <1>4

\* The innermost dispatch is one of them.
LEMMA Innermost ==
  ASSUME TypeOK, Orderly, calls # << >>
  PROVE  Top \in Call /\ Rest \in Seq(Call) /\ Fine(Top, base, worker, made)
<1>1. calls \in Seq(Call)
  BY DEF TypeOK
<1>2. Len(calls) \in 1 .. Len(calls)
  <2>1. Len(calls) \in Nat /\ Len(calls) >= 1
    BY <1>1
  <2> QED
    BY <2>1
<1>3. Top = calls[Len(calls)]
  BY DEF Top
<1> QED
  BY <1>2, <1>3, CallsType DEF Orderly, CallsAreFine

\* Every dispatch in progress is one that was, or is fine anyhow.
LEMMA CallsFollow ==
  ASSUME CallsAreFine,
         \A i \in 1 .. Len(calls') :
           \/ Fine(calls'[i], base, worker, made)
           \/ \E j \in 1 .. Len(calls) : calls'[i] = calls[j],
         \A m \in Methods : base'[m] \subseteq base[m],
         \A m \in Methods : worker'[m] \subseteq worker[m],
         UNCHANGED made
  PROVE  CallsAreFine'
<1> SUFFICES ASSUME NEW i \in 1 .. Len(calls') PROVE Fine(calls'[i], base', worker', made')
  BY DEF CallsAreFine
<1> DEFINE c == calls'[i]
<1>1. Fine(c, base, worker, made)
  BY DEF CallsAreFine
<1>2. \A p, m : m \in Methods => Kept(base', worker', p, m) \subseteq Kept(base, worker, p, m)
  BY DEF Kept
<1> HIDE DEF c
<1>3. Fine(c, base', worker', made')
  BY <1>1, <1>2 DEF Fine
<1> QED
  BY <1>3 DEF c

\* A dispatch whose list shrinks stays fine.
LEMMA Narrowed ==
  ASSUME NEW c, NEW d, NEW b, NEW w, NEW n, Fine(c, b, w, n),
         d.todo \cup d.running \subseteq c.todo \cup c.running,
         d.spent = c.spent, d.living = c.living, d.pass = c.pass, d.method = c.method
  PROVE  Fine(d, b, w, n)
BY DEF Fine

-----------------------------------------------------------------------------
(* Registrations.                                                          *)

LEMMA FewerIdentified ==
  ASSUME Identified(base, worker, made, spent),
         \A m \in Methods : base'[m] \subseteq base[m],
         \A m \in Methods : worker'[m] \subseteq worker[m],
         UNCHANGED <<made, spent>>
  PROVE  Identified(base', worker', made', spent')
<1>1. \A p, m : m \in Methods => Kept(base', worker', p, m) \subseteq Kept(base, worker, p, m)
  BY DEF Kept
<1> QED
  BY <1>1 DEF Identified

\* Nothing but registrations changes, and these become fewer.
LEMMA FewerKept ==
  ASSUME Orderly,
         \A m \in Methods : base'[m] \subseteq base[m],
         \A m \in Methods : worker'[m] \subseteq worker[m],
         UNCHANGED <<calls, made, spent>>
  PROVE  Orderly'
<1>1. Identified(base', worker', made', spent')
  BY FewerIdentified DEF Orderly
<1>2. CallsAreFine'
  BY CallsFollow DEF Orderly
<1> QED
  BY <1>1, <1>2 DEF Orderly

\* The delegate g, with the next id, is registered in one place.
LEMMA OneMoreKept ==
  ASSUME IInv, Orderly, NEW q \in Passes, NEW k \in Methods, NEW g,
         g.id = made + 1,
         \A p \in Passes, m \in Methods :
           Kept(base', worker', p, m) = IF p = q /\ m = k THEN Kept(base, worker, p, m) \cup {g}
                                        ELSE Kept(base, worker, p, m),
         made' = made + 1,
         UNCHANGED <<calls, spent>>
  PROVE  Orderly'
<1>1. made \in Nat /\ made + 1 \notin 1 .. made /\ 1 .. made \subseteq 1 .. made'
      /\ made + 1 \in 1 .. made'
  BY DEF IInv, TypeOK
<1>2. /\ g.id \notin spent
      /\ \A p \in Passes, m \in Methods : \A h \in Kept(base, worker, p, m) : h.id # g.id
  BY <1>1 DEF Orderly, Identified
<1>3. \A p \in Passes, m \in Methods : \A h \in Kept(base', worker', p, m) :
        h \in Kept(base, worker, p, m) \/ (h = g /\ p = q /\ m = k)
  OBVIOUS
<1>4. Identified(base', worker', made', spent')
  <2>1. spent' \subseteq 1 .. made'
    BY <1>1 DEF Orderly, Identified
  <2>2. ASSUME NEW p \in Passes, NEW m \in Methods, NEW h \in Kept(base', worker', p, m)
        PROVE  h.id \in 1 .. made' /\ h.id \notin spent'
    BY <1>1, <1>2, <1>3, <2>2 DEF Orderly, Identified
  <2>3. ASSUME NEW p \in Passes, NEW r \in Passes, NEW m \in Methods, NEW n \in Methods,
               NEW h \in Kept(base', worker', p, m), NEW j \in Kept(base', worker', r, n), h.id = j.id
        PROVE  h = j /\ p = r /\ m = n
    <3>1. CASE h \in Kept(base, worker, p, m) /\ j \in Kept(base, worker, r, n)
      BY <2>3, <3>1 DEF Orderly, Identified
    <3>2. CASE ~(h \in Kept(base, worker, p, m) /\ j \in Kept(base, worker, r, n))
      BY <1>2, <1>3, <2>3, <3>2
    <3> QED
      BY <3>1, <3>2
  <2> QED
    BY <2>1, <2>2, <2>3 DEF Identified
<1>5. ASSUME NEW i \in 1 .. Len(calls) PROVE Fine(calls[i], base', worker', made')
  <2> DEFINE c == calls[i]
  <2>1. Fine(c, base, worker, made)
    BY DEF Orderly, CallsAreFine
  <2> HIDE DEF c
  <2>2. SUFFICES ASSUME NEW h \in c.todo \cup c.running
                 PROVE  /\ h.id \in 1 .. made'
                        /\ h.id \notin c.spent
                        /\ ThreadOf[h.object] = Main => h.object \in c.living
                        /\ \A p \in Passes, m \in Methods : \A j \in Kept(base', worker', p, m) :
                             h.id = j.id => h = j /\ p = c.pass /\ m = c.method
    BY DEF Fine, c
  <2>3. h.id \in 1 .. made /\ h.id # g.id
    BY <1>1, <2>1 DEF Fine
  <2>4. ASSUME NEW p \in Passes, NEW m \in Methods, NEW j \in Kept(base', worker', p, m), h.id = j.id
        PROVE  h = j /\ p = c.pass /\ m = c.method
    <3>1. j \in Kept(base, worker, p, m)
      BY <1>3, <2>3, <2>4
    <3> QED
      BY <2>1, <2>4, <3>1 DEF Fine
  <2> QED
    BY <1>1, <2>1, <2>3, <2>4 DEF Fine
<1>6. CallsAreFine'
  BY <1>5 DEF CallsAreFine
<1> QED
  BY <1>4, <1>6 DEF Orderly

LEMMA RegisteringOrderly ==
  ASSUME IInv, Orderly, NEW m \in Methods, NEW o \in Objects, NEW slot \in Slots,
         NEW single \in BOOLEAN,
         \/ registerRpcMethod(m, o, slot, single)
         \/ registerRpcMethodWorker(m, o, slot, single)
  PROVE  Orderly'
<1> DEFINE g == NewDelegate(o, slot, single)
<1>1. g.id = made + 1
  BY DEF NewDelegate
<1>2. base \in [Methods -> SUBSET Delegate] /\ worker \in [Methods -> SUBSET Delegate]
  BY DEF IInv, TypeOK
<1> HIDE DEF g
<1>3. CASE registerRpcMethod(m, o, slot, single)
  <2>1. base' = [base EXCEPT ![m] = @ \cup {g}] /\ worker' = worker
        /\ made' = made + 1 /\ UNCHANGED <<calls, spent>>
    BY <1>3 DEF registerRpcMethod, g
  <2>2. \A p \in Passes, k \in Methods :
          Kept(base', worker', p, k) = IF p = "base" /\ k = m THEN Kept(base, worker, p, k) \cup {g}
                                       ELSE Kept(base, worker, p, k)
    BY <1>2, <2>1 DEF Kept, Passes
  <2>3. "base" \in Passes
    BY DEF Passes
  <2>4. made' = made + 1 /\ UNCHANGED <<calls, spent>>
    BY <2>1
  <2> QED
    BY <1>1, <2>2, <2>3, <2>4, OneMoreKept
<1>4. CASE registerRpcMethodWorker(m, o, slot, single)
  <2>1. worker' = [worker EXCEPT ![m] = @ \cup {g}] /\ base' = base
        /\ made' = made + 1 /\ UNCHANGED <<calls, spent>>
    BY <1>4 DEF registerRpcMethodWorker, g
  <2>2. \A p \in Passes, k \in Methods :
          Kept(base', worker', p, k) = IF p = "worker" /\ k = m THEN Kept(base, worker, p, k) \cup {g}
                                       ELSE Kept(base, worker, p, k)
    BY <1>2, <2>1 DEF Kept, Passes
  <2>3. "worker" \in Passes
    BY DEF Passes
  <2>4. made' = made + 1 /\ UNCHANGED <<calls, spent>>
    BY <2>1
  <2> QED
    BY <1>1, <2>2, <2>3, <2>4, OneMoreKept
<1> QED
  BY <1>3, <1>4

-----------------------------------------------------------------------------
(* Dispatching.                                                            *)

\* What is registered now is neither spent nor gone.
LEMMA FreshCall ==
  ASSUME Orderly, Attended, NEW m \in Methods, NEW pass \in Passes,
         NEW D \in SUBSET Kept(base, worker, pass, m)
  PROVE  Fine(Dispatch(m, pass, D), base, worker, made)
<1> DEFINE c == Dispatch(m, pass, D)
<1>1. /\ c.todo = D /\ c.running = {} /\ c.pass = pass /\ c.method = m
      /\ c.spent = spent /\ c.living = living
  BY DEF Dispatch
<1> HIDE DEF c
<1>2. ASSUME NEW g \in D
      PROVE  /\ g.id \in 1 .. made
             /\ g.id \notin c.spent
             /\ \A p \in Passes, k \in Methods : \A h \in Kept(base, worker, p, k) :
                  g.id = h.id => g = h /\ p = c.pass /\ k = c.method
  BY <1>1, <1>2 DEF Orderly, Identified
<1>3. ASSUME NEW g \in D, ThreadOf[g.object] = Main
      PROVE  g.object \in c.living
  BY <1>1, <1>3 DEF Attended, Kept, Passes
<1>4. Fine(c, base, worker, made)
  BY <1>1, <1>2, <1>3 DEF Fine
<1> QED
  BY <1>4 DEF c

LEMMA FreshWorkerPass ==
  ASSUME Orderly, Attended, NEW m \in Methods
  PROVE  Fine(WorkerPass(m), base, worker, made)
<1> DEFINE D == {g \in worker[m] : ThreadOf[g.object] = Head(queueWorkerThreads)}
<1>1. WorkerPass(m) = Dispatch(m, "worker", D)
  BY DEF WorkerPass
<1>2. D \in SUBSET Kept(base, worker, "worker", m) /\ "worker" \in Passes
  BY DEF Kept, Passes
<1> HIDE DEF D
<1>3. Fine(Dispatch(m, "worker", D), base, worker, made)
  BY <1>2, FreshCall
<1> QED
  BY <1>1, <1>3

\* Only the stack of dispatches changes.
LEMMA DispatchesFollow ==
  ASSUME Orderly,
         \A i \in 1 .. Len(calls') :
           \/ Fine(calls'[i], base, worker, made)
           \/ \E j \in 1 .. Len(calls) : calls'[i] = calls[j],
         UNCHANGED <<base, worker, made, spent>>
  PROVE  Orderly'
<1>1. /\ \A m \in Methods : base'[m] \subseteq base[m]
      /\ \A m \in Methods : worker'[m] \subseteq worker[m]
  OBVIOUS
<1>2. Identified(base', worker', made', spent')
  BY DEF Orderly
<1>3. CallsAreFine'
  BY <1>1, CallsFollow DEF Orderly
<1> QED
  BY <1>2, <1>3 DEF Orderly

\* The innermost dispatch is replaced by c, or one is begun.
LEMMA StackFollows ==
  ASSUME IInv, NEW c, c \in Call, Fine(c, base, worker, made),
         \/ calls' = Append(calls, c)
         \/ calls # << >> /\ calls' = Append(Rest, c)
  PROVE  \A i \in 1 .. Len(calls') :
           \/ Fine(calls'[i], base, worker, made)
           \/ \E j \in 1 .. Len(calls) : calls'[i] = calls[j]
<1>1. calls \in Seq(Call)
  BY DEF IInv, TypeOK
<1>2. CASE calls' = Append(calls, c)
  <2>1. \A i \in 1 .. Len(Append(calls, c)) :
          Append(calls, c)[i] = c \/ \E j \in 1 .. Len(calls) : Append(calls, c)[i] = calls[j]
    BY <1>1, Pushed
  <2>2. \A i \in 1 .. Len(calls') : calls'[i] = c \/ \E j \in 1 .. Len(calls) : calls'[i] = calls[j]
    BY <1>2, <2>1
  <2> QED
    BY <2>2
<1>3. CASE calls # << >> /\ calls' = Append(Rest, c)
  <2>1. /\ Rest \in Seq(Call)
        /\ \A i \in 1 .. Len(Rest) : \E j \in 1 .. Len(calls) : Rest[i] = calls[j]
    BY <1>1, <1>3, Popped DEF Rest
  <2>2. \A i \in 1 .. Len(Append(Rest, c)) :
          Append(Rest, c)[i] = c \/ \E j \in 1 .. Len(Rest) : Append(Rest, c)[i] = Rest[j]
    BY <2>1, Pushed
  <2>3. \A i \in 1 .. Len(calls') : calls'[i] = c \/ \E j \in 1 .. Len(Rest) : calls'[i] = Rest[j]
    BY <1>3, <2>2
  <2>4. \A i \in 1 .. Len(calls') : calls'[i] = c \/ \E j \in 1 .. Len(calls) : calls'[i] = calls[j]
    BY <2>1, <2>3
  <2> QED
    BY <2>4
<1> QED
  BY <1>2, <1>3

LEMMA DispatchingOrderly ==
  ASSUME IInv, Orderly, Attended, NEW m \in Methods, newDataPacketReceived(m)
  PROVE  Orderly'
<1>1. UNCHANGED <<base, worker, made, spent>>
  BY DEF newDataPacketReceived
<1>2. base[m] \in SUBSET Kept(base, worker, "base", m) /\ "base" \in Passes
  BY DEF Kept, Passes
<1>3. Fine(Dispatch(m, "base", base[m]), base, worker, made) /\ Dispatch(m, "base", base[m]) \in Call
  <2>1. Fine(Dispatch(m, "base", base[m]), base, worker, made)
    BY <1>2, FreshCall
  <2>2. base[m] \in SUBSET Delegate /\ spent \in SUBSET Nat /\ living \in SUBSET Objects
    BY DEF IInv, TypeOK
  <2> QED
    BY <2>1, <2>2 DEF Dispatch, Call
<1>4. Fine(WorkerPass(m), base, worker, made) /\ WorkerPass(m) \in Call
  BY FreshWorkerPass, WorkerPassType
<1>5. \E c \in Call : Fine(c, base, worker, made) /\ calls' = Append(calls, c)
  BY <1>3, <1>4 DEF newDataPacketReceived
<1>6. PICK c \in Call : Fine(c, base, worker, made) /\ calls' = Append(calls, c)
  BY <1>5
<1>7. \A i \in 1 .. Len(calls') :
        \/ Fine(calls'[i], base, worker, made)
        \/ \E j \in 1 .. Len(calls) : calls'[i] = calls[j]
  BY <1>6, StackFollows
<1> QED
  BY <1>1, <1>7, DispatchesFollow

LEMMA SecondPassOrderly ==
  ASSUME IInv, Orderly, Attended, SecondPass
  PROVE  Orderly'
<1>1. calls # << >> /\ calls' = Append(Rest, WorkerPass(Top.method))
      /\ UNCHANGED <<base, worker, made, spent>>
  BY DEF SecondPass, PassDone
<1>2. Top.method \in Methods
  BY <1>1, Innermost DEF IInv, Call
<1>3. Fine(WorkerPass(Top.method), base, worker, made) /\ WorkerPass(Top.method) \in Call
  BY <1>2, FreshWorkerPass, WorkerPassType
<1>4. PICK c \in Call : Fine(c, base, worker, made) /\ calls' = Append(Rest, c)
  BY <1>1, <1>3
<1>5. \A i \in 1 .. Len(calls') :
        \/ Fine(calls'[i], base, worker, made)
        \/ \E j \in 1 .. Len(calls) : calls'[i] = calls[j]
  BY <1>1, <1>4, StackFollows
<1> QED
  BY <1>1, <1>5, DispatchesFollow

LEMMA ProcessingOrderly ==
  ASSUME IInv, Orderly, processPacket
  PROVE  Orderly'
<1>1. calls # << >> /\ UNCHANGED <<base, worker, made, spent>>
  BY DEF processPacket, registry
<1>2. Top \in Call /\ Fine(Top, base, worker, made)
  BY <1>1, Innermost DEF IInv
<1>3. PICK g \in Top.todo :
        calls' = Append(Rest, [Top EXCEPT !.todo = @ \ {g}, !.running = {g}])
  BY DEF processPacket
<1> DEFINE c == [Top EXCEPT !.todo = @ \ {g}, !.running = {g}]
<1>4. /\ c.todo = Top.todo \ {g} /\ c.running = {g} /\ c.spent = Top.spent
      /\ c.living = Top.living /\ c.pass = Top.pass /\ c.method = Top.method
  BY <1>2 DEF Call
<1>5. c \in Call
  BY <1>2 DEF Call
<1> HIDE DEF c
<1>6. c.todo \cup c.running \subseteq Top.todo \cup Top.running
  BY <1>4
<1>7. Fine(c, base, worker, made)
  BY <1>2, <1>4, <1>6, Narrowed
<1>8. calls' = Append(Rest, c)
  BY <1>3 DEF c
<1>9. \A i \in 1 .. Len(calls') :
        \/ Fine(calls'[i], base, worker, made)
        \/ \E j \in 1 .. Len(calls) : calls'[i] = calls[j]
  BY <1>1, <1>5, <1>7, <1>8, StackFollows
<1> QED
  BY <1>1, <1>9, DispatchesFollow

\* The method returns, and a single shot delegate is removed where it is kept:
\* nowhere else is one with its id.
LEMMA ReturningOrderly ==
  ASSUME IInv, Orderly, MethodReturns
  PROVE  Orderly'
<1> DEFINE c == [Top EXCEPT !.running = {}]
           shots == {g \in Top.running : g.singleShot}
<1>1. calls # << >> /\ calls' = Append(Rest, c) /\ made' = made /\ spent' = spent \cup Shots
  BY DEF MethodReturns, InMethod
<1>2. Top \in Call /\ Fine(Top, base, worker, made)
  BY <1>1, Innermost DEF IInv
<1>3. Top.pass \in Passes /\ Top.method \in Methods
  BY <1>2 DEF Call, Passes
<1>4. /\ c.todo = Top.todo /\ c.running = {} /\ c.spent = Top.spent
      /\ c.living = Top.living /\ c.pass = Top.pass /\ c.method = Top.method
  BY <1>2 DEF Call
<1>5. c \in Call
  BY <1>2 DEF Call
<1>6. base \in [Methods -> SUBSET Delegate] /\ worker \in [Methods -> SUBSET Delegate]
  BY DEF IInv, TypeOK
<1>7. \A p \in Passes, m \in Methods :
        Kept(base', worker', p, m) = IF p = Top.pass /\ m = Top.method
                                     THEN Kept(base, worker, p, m) \ shots ELSE Kept(base, worker, p, m)
  <2>1. CASE Top.pass = "base"
    <3>1. base' = [base EXCEPT ![Top.method] = @ \ shots] /\ worker' = worker
      BY <2>1 DEF MethodReturns
    <3> QED
      BY <1>3, <1>6, <2>1, <3>1 DEF Kept, Passes
  <2>2. CASE Top.pass # "base"
    <3>1. worker' = [worker EXCEPT ![Top.method] = @ \ shots] /\ base' = base
      BY <2>2 DEF MethodReturns
    <3> QED
      BY <1>3, <1>6, <2>2, <3>1 DEF Kept, Passes
  <2> QED
    BY <2>1, <2>2
<1>8. /\ \A m \in Methods : base'[m] \subseteq base[m]
      /\ \A m \in Methods : worker'[m] \subseteq worker[m]
  BY DispatchingShrinks
<1> HIDE DEF c
<1>9. Fine(c, base, worker, made)
  <2>1. c.todo \cup c.running \subseteq Top.todo \cup Top.running
    BY <1>4
  <2> QED
    BY <1>2, <1>4, <2>1, Narrowed
<1>10. CallsAreFine'
  <2>1. \A i \in 1 .. Len(calls') :
          \/ Fine(calls'[i], base, worker, made)
          \/ \E j \in 1 .. Len(calls) : calls'[i] = calls[j]
    BY <1>1, <1>5, <1>9, StackFollows
  <2> QED
    BY <1>1, <1>8, <2>1, CallsFollow DEF Orderly
<1>11. Identified(base', worker', made', spent')
  <2>1. Identified(base', worker', made, spent)
    <3>1. \A p \in Passes, m \in Methods :
            Kept(base', worker', p, m) \subseteq Kept(base, worker, p, m)
      BY <1>7
    <3> QED
      BY <3>1 DEF Orderly, Identified
  <2>2. Shots \subseteq 1 .. made
    BY <1>2 DEF Shots, Fine
  <2>3. ASSUME NEW p \in Passes, NEW m \in Methods, NEW h \in Kept(base', worker', p, m)
        PROVE  h.id \notin Shots
    <3>1. SUFFICES ASSUME NEW g \in Top.running, g.singleShot, h.id = g.id PROVE FALSE
      BY DEF Shots
    <3>2. h \in Kept(base, worker, p, m)
      BY <1>7
    <3>3. g = h /\ p = Top.pass /\ m = Top.method
      BY <1>2, <3>1, <3>2 DEF Fine
    <3> QED
      BY <1>7, <2>3, <3>1, <3>3
  <2> QED
    BY <1>1, <2>1, <2>2, <2>3 DEF Identified
<1> QED
  BY <1>10, <1>11 DEF Orderly

LEMMA DoneOrderly ==
  ASSUME IInv, Orderly, PacketDone
  PROVE  Orderly'
<1>1. calls # << >> /\ calls' = Rest /\ UNCHANGED <<base, worker, made, spent>>
  BY DEF PacketDone, PassDone, registry
<1>2. calls \in Seq(Call)
  BY DEF IInv, TypeOK
<1>3. \A i \in 1 .. Len(Rest) : \E j \in 1 .. Len(calls) : Rest[i] = calls[j]
  BY <1>1, <1>2, Popped DEF Rest
<1>4. \A i \in 1 .. Len(calls') :
        \/ Fine(calls'[i], base, worker, made)
        \/ \E j \in 1 .. Len(calls) : calls'[i] = calls[j]
  BY <1>1, <1>3
<1> QED
  BY <1>1, <1>4, DispatchesFollow

-----------------------------------------------------------------------------
\* The dispatches in progress stay orderly, whatever user methods do.
THEOREM Order == Spec => []Orderly
<1>1. Init => Orderly
  <2> SUFFICES ASSUME Init PROVE Orderly
    OBVIOUS
  <2>1. calls = << >> /\ spent = {} /\ \A p, m : m \in Methods => Kept(base, worker, p, m) = {}
    BY DEF Init, Kept
  <2>2. Identified(base, worker, made, spent)
    BY <2>1 DEF Identified
  <2>3. CallsAreFine
    BY <2>1 DEF CallsAreFine
  <2> QED
    BY <2>2, <2>3 DEF Orderly
<1>2. IInv /\ Attended /\ Orderly /\ [Next]_vars => Orderly'
  <2> SUFFICES ASSUME IInv, Attended, Orderly, [Next]_vars PROVE Orderly'
    OBVIOUS
  <2>1. ASSUME NEW m \in Methods, NEW o \in Objects, NEW slot \in Slots, NEW single \in BOOLEAN,
               \/ registerRpcMethod(m, o, slot, single)
               \/ registerRpcMethodWorker(m, o, slot, single)
        PROVE  Orderly'
    BY <2>1, RegisteringOrderly
  <2>2. ASSUME NEW m \in Methods, NEW o \in Objects, NEW slots,
               \/ unregisterReceiver({m}, o, slots)
               \/ unregisterReceiver(Methods, o, slots)
               \/ unregisterReceiverWorker(m, o, slots)
               \/ unregisterReceiverWorkers(o, slots)
        PROVE  Orderly'
    <3>1. UNCHANGED <<calls, made, spent>>
      BY <2>2 DEF unregisterReceiver, unregisterReceiverWorker, unregisterReceiverWorkers
    <3>2. /\ \A k \in Methods : base'[k] \subseteq base[k]
          /\ \A k \in Methods : worker'[k] \subseteq worker[k]
      BY <2>2, UnregisteringShrinks
    <3> QED
      BY <3>1, <3>2, FewerKept
  <2>3. CASE Registering
    BY <2>1, <2>2, <2>3 DEF Registering
  <2>4. ASSUME NEW m \in Methods, unregisterRpcMethod(m) \/ unregisterRpcMethodWorker(m)
        PROVE  Orderly'
    <3>1. /\ \A k \in Methods : base'[k] \subseteq base[k]
          /\ \A k \in Methods : worker'[k] \subseteq worker[k]
          /\ UNCHANGED <<calls, made, spent>>
      BY <2>4 DEF IInv, TypeOK, unregisterRpcMethod, unregisterRpcMethodWorker
    <3> QED
      BY <3>1, FewerKept
  <2>5. ASSUME NEW o \in Objects, destroy(o) PROVE Orderly'
    <3>1. /\ \A k \in Methods : base'[k] \subseteq base[k]
          /\ UNCHANGED <<calls, made, spent>>
      BY <2>5 DEF IInv, TypeOK, destroy, Without
    <3>2. DestroyedWorker(o) \/ worker' = worker
      BY <2>5 DEF destroy
    <3>3. \A k \in Methods : worker'[k] \subseteq worker[k]
      BY <3>2, DestroyedWorkerType
    <3> QED
      BY <3>1, <3>3, FewerKept
  <2>6. CASE \E m \in Methods : newDataPacketReceived(m)
    BY <2>6, DispatchingOrderly
  <2>7. CASE processPacket \/ MethodReturns \/ SecondPass \/ PacketDone
    BY <2>7, ProcessingOrderly, ReturningOrderly, SecondPassOrderly, DoneOrderly
  <2>8. CASE UNCHANGED vars
    BY <2>8, FewerKept DEF vars, registry
  <2> QED
    BY <2>3, <2>4, <2>5, <2>6, <2>7, <2>8 DEF Next
<1> QED
  BY <1>1, <1>2, Invariance, Attendance, PTL DEF Spec

\* A single shot method that has returned is called for no packet whose
\* delegates are copied afterwards, also when user methods wait for packets,
\* register, unregister or destroy receivers.
THEOREM OneShot == Spec => []SingleShotOnce
<1>1. Orderly => SingleShotOnce
  BY DEF Orderly, CallsAreFine, Fine, SingleShotOnce
<1> QED
  BY <1>1, Order, PTL

\* No packet is given to a receiver of this thread that was destroyed before the
\* packet's delegates were copied, under the same user methods, and whatever
\* happens to the receivers of other threads.
THEOREM NoneCalledDestroyed == Spec => []DestroyedIsNotCalled
<1>1. Orderly => DestroyedIsNotCalled
  BY DEF Orderly, CallsAreFine, Fine, DestroyedIsNotCalled
<1> QED
  BY <1>1, Order, PTL
==============================================================================
