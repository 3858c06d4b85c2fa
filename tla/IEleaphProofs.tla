---------------------------- MODULE IEleaphProofs ----------------------------
(***************************************************************************)
(* For any number of devices, any nesting of event loops and whatever user *)
(* code does: the types of IEleaph, that no device is removed twice, that  *)
(* the devices to be killed are killed, that no destroyed device stays     *)
(* registered if every forget option is bound to the loss of the           *)
(* connection, and that the devices then live as DeviceLife promises.      *)
(***************************************************************************)
EXTENDS IEleaph, FiniteSetTheorems, TLAPS

-----------------------------------------------------------------------------
(* The inductive invariant.                                                *)

\* All forget options include ForgetDeviceOnDisconnect.
Tethered == \A opts \in ForgetOptions : "dropForget" \in opts

\* What is connected to removeDevice is registered, and so is removed once.
Paired(r) ==
  /\ r.paired = TRUE
  /\ r.wires \cap ForgetWires # {} => r.reg = TRUE

\* A registered device exists, is not disconnected and will be forgotten when
\* it is.
Held(r) ==
  r.reg = TRUE => r.alive = TRUE /\ r.link # "down" /\ "dropForget" \in r.wires

Fine(r) == r \in Device /\ Paired(r) /\ (Tethered => Held(r))

Nests(s) == {i \in 1 .. Len(s) : s[i] = Nested}

LevelOK == Level \in 1 .. MaxNesting + 1

IInv ==
  /\ dev \in [Devices -> Device]
  /\ \A d \in Devices : Fine(dev[d])
  /\ stack \in Seq(Frame)
  /\ LevelOK

-----------------------------------------------------------------------------
(* The calls and signals, on device records.                               *)

\* removeDevice, with the note whether a signal called it for a device that is
\* not registered.
Cut(r, paired) ==
  [r EXCEPT
     !.wires = @ \ ForgetWires,
     !.fault = IF r.pkt = "theirs" THEN "doubleDelete" ELSE @,
     !.pkt = "none",
     !.dying = IF r.timer /\ (@ = 0 \/ Level < @) THEN Level ELSE @,
     !.seen = IF r.timer THEN "invalid" ELSE @,
     !.timer = FALSE,
     !.paired = paired,
     !.reg = FALSE]

LEMMA CutFields ==
  ASSUME LevelOK, NEW r \in Device, NEW paired \in BOOLEAN
  PROVE  /\ Cut(r, paired) \in Device
         /\ Cut(r, paired).reg = FALSE
         /\ Cut(r, paired).link = r.link
         /\ Cut(r, paired).open = r.open
         /\ Cut(r, paired).alive = r.alive
         /\ Cut(r, paired).doomed = r.doomed
         /\ Cut(r, paired).wires = r.wires \ ForgetWires
         /\ Cut(r, paired).paired = paired
         /\ Cut(r, paired).pkt = "none"
         /\ Cut(r, paired).timer = FALSE
         /\ Cut(r, paired).fault = IF r.pkt = "theirs" THEN "doubleDelete" ELSE r.fault
<1>1. Level \in 0 .. MaxNesting + 1
  BY IEleaphAssumption DEF LevelOK
<1> DEFINE fault == IF r.pkt = "theirs" THEN "doubleDelete" ELSE r.fault
           dying == IF r.timer /\ (r.dying = 0 \/ Level < r.dying) THEN Level ELSE r.dying
           seen == IF r.timer THEN "invalid" ELSE r.seen
           wires == r.wires \ ForgetWires
           t == Cut(r, paired)
<1>2. t = [r EXCEPT !.wires = wires, !.fault = fault, !.pkt = "none", !.dying = dying,
                    !.seen = seen, !.timer = FALSE, !.paired = paired, !.reg = FALSE]
  BY DEF Cut, Device
<1>3. /\ fault \in {"none", "doubleDelete", "useAfterFree"}
      /\ dying \in 0 .. MaxNesting + 1
      /\ seen \in {"invalid", "fresh", "old"}
      /\ wires \in SUBSET {"closeForget", "dropForget", "closeKill", "dropKill"}
  BY <1>1 DEF Device
<1> HIDE DEF fault, dying, seen, wires, t
<1>4. t \in Device
  <2> DEFINE a == [r EXCEPT !.wires = wires, !.fault = fault, !.pkt = "none", !.dying = dying]
             b == [a EXCEPT !.seen = seen, !.timer = FALSE, !.paired = paired, !.reg = FALSE]
  <2>1. a \in Device
    BY <1>3 DEF Device
  <2>2. t = b
    BY <1>2 DEF Device
  <2> HIDE DEF a
  <2>3. b \in Device
    BY <1>3, <2>1 DEF Device
  <2> QED
    BY <2>2, <2>3
<1>5. /\ t.reg = FALSE /\ t.link = r.link /\ t.open = r.open /\ t.alive = r.alive
      /\ t.doomed = r.doomed /\ t.wires = wires /\ t.paired = paired /\ t.pkt = "none"
      /\ t.timer = FALSE /\ t.fault = fault
  BY <1>2 DEF Device
<1> QED
  BY <1>4, <1>5 DEF t, wires, fault

\* What the application's call of removeDevice makes of a device.
Dropped(r) == [RemoveDevice(r) EXCEPT !.paired = r.paired]

LEMMA RemovingCuts ==
  ASSUME NEW r \in Device, Paired(r)
  PROVE  /\ Dropped(r) = Cut(r, TRUE)
         /\ r.reg = TRUE => RemoveDevice(r) = Cut(r, TRUE)
<1> DEFINE fault == IF r.pkt = "theirs" THEN "doubleDelete" ELSE r.fault
           dying == IF r.timer /\ (r.dying = 0 \/ Level < r.dying) THEN Level ELSE r.dying
           seen == IF r.timer THEN "invalid" ELSE r.seen
           wires == r.wires \ ForgetWires
           paired == r.paired /\ r.reg
           t(p) == [r EXCEPT !.wires = wires, !.fault = fault, !.pkt = "none", !.dying = dying,
                             !.seen = seen, !.timer = FALSE, !.paired = p, !.reg = FALSE]
<1>1. RemoveDevice(r) = t(paired) /\ Cut(r, TRUE) = t(TRUE)
  BY DEF RemoveDevice, Cut, Device
<1>2. r.reg = TRUE => paired = TRUE
  BY DEF Paired
<1> HIDE DEF fault, dying, seen, wires, paired
<1>3. [t(paired) EXCEPT !.paired = r.paired] = t(r.paired)
  BY DEF Device
<1>4. r.paired = TRUE
  BY DEF Paired
<1> HIDE DEF t
<1>5. Dropped(r) = [t(paired) EXCEPT !.paired = r.paired]
  BY <1>1 DEF Dropped
<1>6. Dropped(r) = t(TRUE)
  BY <1>3, <1>4, <1>5
<1>7. r.reg = TRUE => t(paired) = t(TRUE)
  BY <1>2
<1> QED
  BY <1>1, <1>6, <1>7

LEMMA CutFine ==
  ASSUME LevelOK, NEW r \in Device
  PROVE  Paired(Cut(r, TRUE)) /\ Held(Cut(r, TRUE))
<1> DEFINE t == Cut(r, TRUE)
<1>1. t.wires = r.wires \ ForgetWires /\ t.reg = FALSE /\ t.paired = TRUE
  BY CutFields
<1> HIDE DEF t
<1>2. t.wires \cap ForgetWires = {}
  BY <1>1
<1> QED
  BY <1>1, <1>2 DEF Paired, Held, t

LEMMA RemoveDeviceFine ==
  ASSUME LevelOK, NEW r \in Device, Paired(r), r.reg = TRUE
  PROVE  /\ RemoveDevice(r) \in Device
         /\ Paired(RemoveDevice(r))
         /\ RemoveDevice(r).reg = FALSE
         /\ RemoveDevice(r).link = r.link
         /\ RemoveDevice(r).alive = r.alive
<1>1. RemoveDevice(r) = Cut(r, TRUE)
  BY RemovingCuts
<1>2. /\ Cut(r, TRUE) \in Device /\ Cut(r, TRUE).reg = FALSE
      /\ Cut(r, TRUE).link = r.link /\ Cut(r, TRUE).alive = r.alive
  BY CutFields
<1>3. Paired(Cut(r, TRUE))
  BY CutFine
<1> QED
  BY <1>1, <1>2, <1>3

LEMMA DeleteLaterFine ==
  ASSUME LevelOK, NEW r \in Device
  PROVE  /\ DeleteLater(r) \in Device
         /\ DeleteLater(r).reg = r.reg
         /\ DeleteLater(r).link = r.link
         /\ DeleteLater(r).alive = r.alive
         /\ DeleteLater(r).wires = r.wires
         /\ DeleteLater(r).paired = r.paired
<1>1. Level \in 0 .. MaxNesting + 1
  BY IEleaphAssumption DEF LevelOK
<1> DEFINE doomed == IF r.doomed = 0 THEN Level ELSE r.doomed
<1>2. doomed \in 0 .. MaxNesting + 1
  BY <1>1 DEF Device
<1>3. DeleteLater(r) = [r EXCEPT !.doomed = doomed]
  BY DEF DeleteLater
<1> HIDE DEF doomed
<1> QED
  BY <1>2, <1>3 DEF Device

\* A signal leaves a device either forgotten, or as registered as it was.
LEMMA EmitFine ==
  ASSUME LevelOK, NEW r \in Device, Paired(r),
         NEW forget \in ForgetWires, NEW kill
  PROVE  /\ Emit(r, forget, kill) \in Device
         /\ Paired(Emit(r, forget, kill))
         /\ Emit(r, forget, kill).link = r.link
         /\ Emit(r, forget, kill).alive = r.alive
         /\ \/ Emit(r, forget, kill).reg = FALSE
            \/ /\ forget \notin r.wires
               /\ Emit(r, forget, kill).reg = r.reg
               /\ Emit(r, forget, kill).wires = r.wires
<1> DEFINE s == IF forget \in r.wires THEN RemoveDevice(r) ELSE r
<1>1. /\ s \in Device /\ Paired(s) /\ s.link = r.link /\ s.alive = r.alive
      /\ \/ s.reg = FALSE
         \/ forget \notin r.wires /\ s.reg = r.reg /\ s.wires = r.wires
  <2>1. CASE forget \in r.wires
    <3>1. r.reg = TRUE
      BY <2>1 DEF Paired
    <3> QED
      BY <2>1, <3>1, RemoveDeviceFine
  <2>2. CASE forget \notin r.wires
    BY <2>2
  <2> QED
    BY <2>1, <2>2
<1>2. Emit(r, forget, kill) = IF kill \in r.wires THEN DeleteLater(s) ELSE s
  BY DEF Emit
<1> HIDE DEF s
<1>3. CASE kill \in r.wires
  <2>1. /\ DeleteLater(s) \in Device /\ DeleteLater(s).reg = s.reg
        /\ DeleteLater(s).link = s.link /\ DeleteLater(s).alive = s.alive
        /\ DeleteLater(s).wires = s.wires /\ DeleteLater(s).paired = s.paired
    BY <1>1, DeleteLaterFine
  <2> QED
    BY <1>1, <1>2, <1>3, <2>1 DEF Paired
<1>4. CASE kill \notin r.wires
  BY <1>1, <1>2, <1>4
<1> QED
  BY <1>3, <1>4

LEMMA AboutToCloseFine ==
  ASSUME LevelOK, NEW r, Fine(r)
  PROVE  Fine(AboutToClose(r)) /\ AboutToClose(r).link = r.link
<1>1. "closeForget" \in ForgetWires /\ r \in Device /\ Paired(r)
  BY DEF ForgetWires, Fine
<1> DEFINE e == AboutToClose(r)
<1>2. /\ e \in Device /\ Paired(e) /\ e.link = r.link /\ e.alive = r.alive
      /\ e.reg = FALSE \/ (e.reg = r.reg /\ e.wires = r.wires)
  BY <1>1, EmitFine DEF AboutToClose
<1> HIDE DEF e
<1>3. Tethered => Held(e)
  BY <1>2 DEF Fine, Held
<1> QED
  BY <1>2, <1>3 DEF Fine, e

LEMMA DisconnectedFine ==
  ASSUME LevelOK, NEW r, Fine(r)
  PROVE  Fine(Disconnected(r)) /\ (Tethered => Disconnected(r).reg = FALSE)
<1> DEFINE s == [r EXCEPT !.link = "down"]
           e == Disconnected(r)
<1>1. r \in Device /\ Paired(r) /\ (Tethered => Held(r))
  BY DEF Fine
<1>2. /\ s \in Device /\ s.wires = r.wires /\ s.reg = r.reg /\ s.paired = r.paired
  BY <1>1 DEF Device
<1>3. Paired(s)
  BY <1>1, <1>2 DEF Paired
<1>4. "dropForget" \in ForgetWires /\ e = Emit(s, "dropForget", "dropKill")
  BY DEF ForgetWires, Disconnected
<1> HIDE DEF s, e
<1>5. /\ e \in Device /\ Paired(e)
      /\ e.reg = FALSE \/ ("dropForget" \notin s.wires /\ e.reg = s.reg)
  BY <1>2, <1>3, <1>4, EmitFine
<1>6. Tethered => e.reg = FALSE
  <2>1. e.reg \in BOOLEAN /\ s.reg \in BOOLEAN
    BY <1>2, <1>5 DEF Device
  <2> QED
    BY <1>1, <1>2, <1>5, <2>1 DEF Held
<1> QED
  BY <1>5, <1>6 DEF Fine, Held, e

LEMMA CloseFine ==
  ASSUME LevelOK, NEW r, Fine(r), NEW unsent \in BOOLEAN
  PROVE  /\ Fine(Close(r, unsent))
         /\ Tethered /\ r.link = "up" /\ unsent = FALSE => Close(r, unsent).reg = FALSE
<1> DEFINE closed == IF r.open THEN [AboutToClose(r) EXCEPT !.open = FALSE] ELSE r
<1>1. Fine(closed) /\ closed.link = r.link
  <2>1. CASE r.open
    <3> DEFINE a == AboutToClose(r)
    <3>1. Fine(a) /\ a.link = r.link
      BY AboutToCloseFine
    <3> HIDE DEF a
    <3> DEFINE c == [a EXCEPT !.open = FALSE]
    <3>2. a \in Device /\ Paired(a) /\ (Tethered => Held(a))
      BY <3>1 DEF Fine
    <3>3. /\ c \in Device /\ c.link = a.link /\ c.alive = a.alive /\ c.reg = a.reg
          /\ c.wires = a.wires /\ c.paired = a.paired
      BY <3>2 DEF Device
    <3>4. closed = c
      BY <2>1 DEF a
    <3> HIDE DEF c, closed
    <3>5. Fine(c)
      BY <3>2, <3>3 DEF Fine, Paired, Held
    <3> QED
      BY <3>1, <3>3, <3>4, <3>5
  <2>2. CASE ~r.open
    BY <2>2
  <2> QED
    BY <2>1, <2>2
<1>2. Close(r, unsent) = IF r.link # "up" THEN closed
                         ELSE IF unsent THEN [closed EXCEPT !.link = "closing"]
                         ELSE Disconnected(closed)
  BY DEF Close
<1> HIDE DEF closed
<1>3. CASE r.link # "up"
  BY <1>1, <1>2, <1>3
<1>4. CASE r.link = "up" /\ unsent
  <2> DEFINE c == [closed EXCEPT !.link = "closing"]
  <2>1. closed \in Device /\ Paired(closed) /\ (Tethered => Held(closed))
    BY <1>1 DEF Fine
  <2>2. /\ c \in Device /\ c.link = "closing" /\ c.alive = closed.alive
        /\ c.reg = closed.reg /\ c.wires = closed.wires /\ c.paired = closed.paired
    BY <2>1 DEF Device
  <2>3. Close(r, unsent) = c /\ unsent = TRUE
    BY <1>2, <1>4
  <2> HIDE DEF c
  <2>4. Fine(c)
    BY <2>1, <2>2 DEF Fine, Paired, Held
  <2> QED
    BY <2>3, <2>4
<1>5. CASE r.link = "up" /\ ~unsent
  BY <1>1, <1>2, <1>5, DisconnectedFine
<1> QED
  BY <1>3, <1>4, <1>5

LEMMA DestroyFine ==
  ASSUME LevelOK, NEW r, Fine(r)
  PROVE  Fine(Destroy(r))
<1> DEFINE s == CASE r.link = "up"      -> Close(r, FALSE)
                  [] r.link = "closing" -> Disconnected(r)
                  [] OTHER              -> r
<1>1. Fine(s) /\ (Tethered => s.reg = FALSE)
  <2>1. CASE r.link = "up"
    <3>1. s = Close(r, FALSE)
      BY <2>1
    <3> QED
      BY <2>1, <3>1, CloseFine
  <2>2. CASE r.link = "closing"
    <3>1. s = Disconnected(r)
      BY <2>2
    <3> QED
      BY <3>1, DisconnectedFine
  <2>3. CASE r.link = "down"
    <3>1. s = r
      BY <2>3
    <3>2. r.reg \in BOOLEAN
      BY DEF Fine, Device
    <3>3. Tethered => s.reg = FALSE
      BY <2>3, <3>1, <3>2 DEF Fine, Held
    <3> QED
      BY <3>1, <3>3
  <2> QED
    BY <2>1, <2>2, <2>3 DEF Fine, Device
<1>2. Destroy(r) = [s EXCEPT !.alive = FALSE, !.open = FALSE, !.wires = {}, !.pkt = "none",
                             !.timer = FALSE, !.seen = "invalid", !.dying = 0, !.doomed = 0]
  BY DEF Destroy
<1> HIDE DEF s
<1> DEFINE t == Destroy(r)
<1>3. s \in Device /\ Paired(s)
  BY <1>1 DEF Fine
<1>4. 0 \in 0 .. MaxNesting + 1
  BY IEleaphAssumption
<1>5. t \in Device /\ t.reg = s.reg /\ t.wires = {} /\ t.paired = s.paired
  BY <1>2, <1>3, <1>4 DEF Device
<1> HIDE DEF t
<1>6. Fine(t)
  BY <1>1, <1>3, <1>5 DEF Fine, Paired, Held
<1> QED
  BY <1>6 DEF t

-----------------------------------------------------------------------------
(* The stack and the level of the running event loop.                      *)

LEMMA NestsFinite ==
  ASSUME NEW s \in Seq(Frame)
  PROVE  IsFiniteSet(Nests(s)) /\ Cardinality(Nests(s)) \in Nat
<1>1. IsFiniteSet(1 .. Len(s))
  BY FS_Interval
<1>2. Nests(s) \subseteq 1 .. Len(s)
  BY DEF Nests
<1>3. IsFiniteSet(Nests(s))
  BY <1>1, <1>2, FS_Subset
<1> QED
  BY <1>3, FS_CardinalityType

LEMMA Push ==
  ASSUME NEW s \in Seq(Frame), NEW f \in Frame
  PROVE  /\ Append(s, f) \in Seq(Frame)
         /\ Cardinality(Nests(Append(s, f))) <= Cardinality(Nests(s)) + 1
         /\ f # Nested => Cardinality(Nests(Append(s, f))) = Cardinality(Nests(s))
<1> DEFINE t == Append(s, f)
           n == Len(s)
<1>1. /\ n \in Nat /\ t \in Seq(Frame) /\ Len(t) = n + 1 /\ t[n + 1] = f
      /\ \A i \in 1 .. n : t[i] = s[i]
  OBVIOUS
<1> HIDE DEF t, n
<1>2. \A i \in 1 .. n + 1 : i \in 1 .. n \/ i = n + 1
  BY <1>1
<1>3. 1 .. n \subseteq 1 .. n + 1 /\ n + 1 \in 1 .. n + 1
  BY <1>1
<1>4. CASE f = Nested
  <2>1. Nests(t) = Nests(s) \cup {n + 1}
    BY <1>1, <1>2, <1>3, <1>4 DEF Nests, n
  <2>2. IsFiniteSet(Nests(s)) /\ Cardinality(Nests(s)) \in Nat
    BY NestsFinite
  <2>3. Cardinality(Nests(t)) \in {Cardinality(Nests(s)), Cardinality(Nests(s)) + 1}
    BY <2>1, <2>2, FS_AddElement
  <2> QED
    BY <1>1, <1>4, <2>2, <2>3 DEF t
<1>5. CASE f # Nested
  <2>1. Nests(t) = Nests(s)
    BY <1>1, <1>2, <1>3, <1>5 DEF Nests, n
  <2> QED
    BY <1>1, <1>5, <2>1, NestsFinite DEF t
<1> QED
  BY <1>4, <1>5

LEMMA Pop ==
  ASSUME NEW s \in Seq(Frame), s # << >>
  PROVE  /\ SubSeq(s, 1, Len(s) - 1) \in Seq(Frame)
         /\ Cardinality(Nests(SubSeq(s, 1, Len(s) - 1))) <= Cardinality(Nests(s))
<1> DEFINE t == SubSeq(s, 1, Len(s) - 1)
           n == Len(s)
<1>1. n \in Nat /\ n >= 1 /\ \A i \in 1 .. n : s[i] \in Frame
  OBVIOUS
<1>2. t \in Seq(Frame) /\ Len(t) = n - 1 /\ \A i \in 1 .. n - 1 : t[i] = s[i]
  <2>1. n - 1 \in Nat /\ 1 .. n - 1 \subseteq 1 .. n
    BY <1>1
  <2>2. t = [i \in 1 .. n - 1 |-> s[i]]
    BY <1>1, <2>1
  <2>3. t \in Seq(Frame)
    BY <1>1, <2>1
  <2>4. \A i \in 1 .. n - 1 : t[i] = s[i]
    BY <2>2
  <2>5. Len(t) = n - 1
    <3>1. Len(t) \in Nat /\ DOMAIN t = 1 .. Len(t) /\ DOMAIN t = 1 .. n - 1
      BY <2>2, <2>3
    <3> HIDE DEF t, n
    <3> QED
      BY <2>1, <3>1
  <2> QED
    BY <2>3, <2>4, <2>5
<1> HIDE DEF t, n
<1>3. 1 .. n - 1 \subseteq 1 .. n
  BY <1>1
<1>4. Nests(t) \subseteq Nests(s)
  BY <1>2, <1>3 DEF Nests, n
<1>5. Cardinality(Nests(t)) <= Cardinality(Nests(s))
  BY <1>4, NestsFinite, FS_Subset
<1> QED
  BY <1>2, <1>5 DEF t, n

LEMMA LevelIs ==
  /\ Level = 1 + Cardinality(Nests(stack))
  /\ Level' = 1 + Cardinality(Nests(stack'))
BY DEF Level, Nests

LEMMA Returning ==
  ASSUME IInv, stack # << >>, stack' = Return
  PROVE  stack' \in Seq(Frame) /\ LevelOK'
<1>1. stack \in Seq(Frame) /\ Level \in 1 .. MaxNesting + 1 /\ MaxNesting \in Nat
  BY IEleaphAssumption DEF IInv, LevelOK
<1>2. stack' \in Seq(Frame) /\ Cardinality(Nests(stack')) <= Cardinality(Nests(stack))
  BY <1>1, Pop DEF Return
<1>3. Cardinality(Nests(stack')) \in Nat /\ Cardinality(Nests(stack)) \in Nat
  BY <1>1, <1>2, NestsFinite
<1>4. Level' \in 1 .. MaxNesting + 1
  BY <1>1, <1>2, <1>3, LevelIs
<1> QED
  BY <1>2, <1>4 DEF LevelOK

\* The handler goes on.
LEMMA GoingOn ==
  ASSUME IInv, stack # << >>, NEW d \in Devices,
         NEW at \in {"loop", "progress", "callback"}, stack' = GoTo(d, at)
  PROVE  stack' \in Seq(Frame) /\ LevelOK'
<1>1. stack \in Seq(Frame) /\ Level \in 1 .. MaxNesting + 1 /\ MaxNesting \in Nat
  BY IEleaphAssumption DEF IInv, LevelOK
<1>2. Return \in Seq(Frame) /\ Cardinality(Nests(Return)) <= Cardinality(Nests(stack))
  BY <1>1, Pop DEF Return
<1>3. Handler(d, at) \in Frame /\ Handler(d, at) # Nested
  <2>1. Handler(d, at).at = at /\ Nested.at = "eventLoop"
    BY DEF Handler, Nested
  <2> QED
    BY <2>1 DEF Handler, Frame
<1>4. /\ GoTo(d, at) \in Seq(Frame)
      /\ Cardinality(Nests(GoTo(d, at))) = Cardinality(Nests(Return))
  BY <1>2, <1>3, Push DEF GoTo
<1>5. Cardinality(Nests(stack')) \in Nat /\ Cardinality(Nests(stack)) \in Nat
  BY <1>1, <1>4, NestsFinite
<1>6. Level' \in 1 .. MaxNesting + 1
  BY <1>1, <1>2, <1>4, <1>5, LevelIs
<1> QED
  BY <1>4, <1>6 DEF LevelOK

LEMMA Calling ==
  ASSUME IInv, NEW d \in Devices, stack' = Append(stack, Handler(d, "loop"))
  PROVE  stack' \in Seq(Frame) /\ LevelOK'
<1>1. stack \in Seq(Frame) /\ Level \in 1 .. MaxNesting + 1 /\ MaxNesting \in Nat
  BY IEleaphAssumption DEF IInv, LevelOK
<1>2. Handler(d, "loop") \in Frame /\ Handler(d, "loop") # Nested
  <2>1. Handler(d, "loop").at = "loop" /\ Nested.at = "eventLoop"
    BY DEF Handler, Nested
  <2> QED
    BY <2>1 DEF Handler, Frame
<1>3. /\ stack' \in Seq(Frame)
      /\ Cardinality(Nests(stack')) = Cardinality(Nests(stack))
  BY <1>1, <1>2, Push
<1> QED
  BY <1>1, <1>3, LevelIs DEF LevelOK

LEMMA Nesting ==
  ASSUME IInv, Level <= MaxNesting, stack' = Append(stack, Nested)
  PROVE  stack' \in Seq(Frame) /\ LevelOK'
<1>1. stack \in Seq(Frame) /\ Level \in 1 .. MaxNesting + 1 /\ MaxNesting \in Nat
  BY IEleaphAssumption DEF IInv, LevelOK
<1>2. Nested \in Frame
  BY DEF Frame
<1>3. /\ stack' \in Seq(Frame)
      /\ Cardinality(Nests(stack')) <= Cardinality(Nests(stack)) + 1
  BY <1>1, <1>2, Push
<1>4. Cardinality(Nests(stack')) \in Nat /\ Cardinality(Nests(stack)) \in Nat
  BY <1>1, <1>3, NestsFinite
<1>5. Level' \in 1 .. MaxNesting + 1
  BY <1>1, <1>3, <1>4, LevelIs
<1> QED
  BY <1>3, <1>5 DEF LevelOK

LEMMA SameStack ==
  ASSUME IInv, UNCHANGED stack
  PROVE  stack' \in Seq(Frame) /\ LevelOK'
BY LevelIs DEF IInv, LevelOK

-----------------------------------------------------------------------------
(* Every action keeps IInv.                                                *)

LEMMA Becoming ==
  ASSUME IInv, NEW d \in Devices, NEW r, Become(d, r), Fine(r),
         stack' \in Seq(Frame), LevelOK'
  PROVE  IInv'
<1>1. r \in Device /\ dev \in [Devices -> Device] /\ dev' = [dev EXCEPT ![d] = r]
  BY DEF IInv, Become, Fine
<1>2. dev' \in [Devices -> Device]
  BY <1>1
<1>3. \A e \in Devices : dev'[e] = IF e = d THEN r ELSE dev[e]
  BY <1>1
<1>4. \A e \in Devices : Fine(dev'[e])
  BY <1>3 DEF IInv
<1> QED
  BY <1>2, <1>4 DEF IInv

\* Fields that neither registration nor connection depends on.
LEMMA TweakFine ==
  ASSUME NEW r, Fine(r), NEW t \in Device,
         t.reg = r.reg, t.alive = r.alive, t.link = r.link, t.wires = r.wires,
         t.paired = r.paired
  PROVE  Fine(t)
BY DEF Fine, Paired, Held

\* The forms in which dataHandler changes a device.
LEMMA HandlerFine ==
  ASSUME NEW r, Fine(r)
  PROVE  /\ \A p \in {"none", "header", "content", "theirs"} :
              Fine([r EXCEPT !.pkt = p]) /\ Fine([Touch(r) EXCEPT !.pkt = p])
         /\ Fine(Fault(r, "useAfterFree"))
         /\ Fine(Fault(r, "doubleDelete"))
<1>1. r \in Device
  BY DEF Fine
<1>2. /\ r.pkt \in {"none", "header", "content", "theirs"}
      /\ r.fault \in {"none", "doubleDelete", "useAfterFree"}
      /\ r.seen \in {"invalid", "fresh", "old"}
  BY <1>1 DEF Device
<1> DEFINE Same(t) == /\ t \in Device /\ t.reg = r.reg /\ t.alive = r.alive
                      /\ t.link = r.link /\ t.wires = r.wires /\ t.paired = r.paired
<1>3. ASSUME NEW p \in {"none", "header", "content", "theirs"}
      PROVE  Fine([r EXCEPT !.pkt = p]) /\ Fine([Touch(r) EXCEPT !.pkt = p])
  <2> DEFINE t == [r EXCEPT !.pkt = p]
             u == [Touch(r) EXCEPT !.pkt = p]
  <2>1. Same(t)
    BY <1>1 DEF Device
  <2>2. Same(u)
    <3>1. Same(Touch(r))
      BY <1>1 DEF Device, Touch
    <3> DEFINE v == Touch(r)
    <3> HIDE DEF v
    <3>2. Same(v) => Same([v EXCEPT !.pkt = p])
      BY DEF Device
    <3> QED
      BY <3>1, <3>2 DEF v
  <2> HIDE DEF t, u
  <2>3. Fine(t) /\ Fine(u)
    BY <2>1, <2>2, TweakFine
  <2> QED
    BY <2>3 DEF t, u
<1>4. ASSUME NEW kind \in {"none", "doubleDelete", "useAfterFree"}
      PROVE  Fine(Fault(r, kind))
  <2> DEFINE t == Fault(r, kind)
  <2>1. Same(t)
    BY <1>1 DEF Device, Fault
  <2> HIDE DEF t
  <2>2. Fine(t)
    BY <2>1, TweakFine
  <2> QED
    BY <2>2 DEF t
<1> HIDE DEF Same
<1> QED
  BY <1>3, <1>4

LEMMA StackOnly ==
  ASSUME IInv, UNCHANGED dev, stack' \in Seq(Frame), LevelOK'
  PROVE  IInv'
BY DEF IInv

LEMMA Adding ==
  ASSUME IInv, NEW d \in Devices, NEW opts \in ForgetOptions, NEW ka \in BOOLEAN,
         addDevice(d, opts, ka)
  PROVE  IInv'
<1> DEFINE r == dev[d]
           timer == r.timer \/ ka
           seen == IF ka THEN "fresh" ELSE r.seen
           wires == r.wires \cup opts
           t == [r EXCEPT !.wires = wires, !.timer = timer, !.seen = seen, !.reg = TRUE]
<1>1. Fine(r) /\ r \in Device
  BY DEF IInv, Fine
<1>2. r.alive = TRUE /\ r.link = "up" /\ Become(d, t) /\ UNCHANGED stack
  BY <1>1 DEF addDevice, Device
<1>3. /\ wires \in SUBSET {"closeForget", "dropForget", "closeKill", "dropKill"}
      /\ seen \in {"invalid", "fresh", "old"}
  BY <1>1, IEleaphAssumption DEF Device, DeviceForgetOptions, ForgetDeviceOnClose,
     ForgetDeviceOnDisconnect, ForgetKillDeviceOnClose, ForgetKillDeviceOnDisconnect
<1>4. timer \in BOOLEAN
  BY Zenon
<1>5. Tethered => "dropForget" \in wires
  BY DEF Tethered
<1> HIDE DEF r, timer, seen, wires
<1>6. /\ t \in Device /\ t.reg = TRUE /\ t.alive = r.alive /\ t.link = r.link
      /\ t.wires = wires /\ t.paired = r.paired
  BY <1>1, <1>3, <1>4 DEF Device
<1> HIDE DEF t
<1>7. Fine(t)
  BY <1>1, <1>2, <1>5, <1>6 DEF Fine, Paired, Held
<1> QED
  BY <1>2, <1>7, SameStack, Becoming

LEMMA Ending ==
  ASSUME IInv, NEW d \in Devices,
         removeDevice(d) \/ close(d) \/ deleteLater(d) \/ KeepAlive(d)
  PROVE  IInv'
<1>1. Fine(dev[d]) /\ dev[d] \in Device /\ LevelOK
  BY DEF IInv, Fine
<1>2. UNCHANGED stack
  BY DEF removeDevice, close, deleteLater, KeepAlive
<1>3. CASE removeDevice(d)
  <2>1. Become(d, Cut(dev[d], TRUE))
    BY <1>1, <1>3, RemovingCuts DEF removeDevice, Dropped, Fine
  <2>2. Fine(Cut(dev[d], TRUE))
    BY <1>1, CutFields, CutFine DEF Fine
  <2> QED
    BY <1>2, <2>1, <2>2, SameStack, Becoming
<1>4. CASE close(d) \/ KeepAlive(d)
  <2>1. PICK unsent \in BOOLEAN : Become(d, Close(dev[d], unsent))
    BY <1>4 DEF close, KeepAlive
  <2>2. Fine(Close(dev[d], unsent))
    BY <1>1, CloseFine
  <2> QED
    BY <1>2, <2>1, <2>2, SameStack, Becoming
<1>5. CASE deleteLater(d)
  <2>1. Become(d, DeleteLater(dev[d]))
    BY <1>5 DEF deleteLater
  <2>2. Fine(DeleteLater(dev[d]))
    BY <1>1, DeleteLaterFine, TweakFine
  <2> QED
    BY <1>2, <2>1, <2>2, SameStack, Becoming
<1> QED
  BY <1>3, <1>4, <1>5

LEMMA Waiting ==
  ASSUME IInv, Wait \/ WaitEnds
  PROVE  IInv'
<1>1. CASE Wait
  BY <1>1, Nesting, StackOnly DEF Wait
<1>2. CASE WaitEnds
  BY <1>2, Returning, StackOnly DEF WaitEnds
<1> QED
  BY <1>1, <1>2

LEMMA Handling ==
  ASSUME IInv, NEW d \in Devices,
         \/ dataHandler(d) \/ LeaveLoop(d) \/ AwaitHeader(d) \/ EmptyPacket(d)
         \/ Kill(d) \/ Progress(d) \/ AwaitContent(d) \/ ReadContent(d)
         \/ CallbackReturns(d)
  PROVE  IInv'
<1>1. Fine(dev[d]) /\ LevelOK
  BY DEF IInv
<1>2. CASE dataHandler(d)
  BY <1>2, Calling, StackOnly DEF dataHandler
<1>3. CASE LeaveLoop(d)
  BY <1>3, Returning, StackOnly DEF LeaveLoop, In
<1>4. CASE AwaitHeader(d)
  <2>1. stack # << >> /\ stack' = Return /\ Become(d, [dev[d] EXCEPT !.pkt = "header"])
    BY <1>4 DEF AwaitHeader, HeaderPending, In
  <2> QED
    BY <1>1, <2>1, HandlerFine, Returning, Becoming
<1>5. CASE EmptyPacket(d)
  <2>1. UNCHANGED stack /\ Become(d, [Touch(dev[d]) EXCEPT !.pkt = "none"])
    BY <1>5 DEF EmptyPacket
  <2> QED
    BY <1>1, <2>1, HandlerFine, SameStack, Becoming
<1>6. CASE Kill(d)
  <2>1. PICK unsent \in BOOLEAN :
          LET r == Close([dev[d] EXCEPT !.pkt = "header"], unsent)
          IN  Become(d, [(IF r.pkt = "none" THEN Fault(r, "doubleDelete") ELSE r)
                         EXCEPT !.pkt = "none"])
    BY <1>6 DEF Kill
  <2> DEFINE r == Close([dev[d] EXCEPT !.pkt = "header"], unsent)
             s == IF r.pkt = "none" THEN Fault(r, "doubleDelete") ELSE r
  <2>2. Fine([dev[d] EXCEPT !.pkt = "header"])
    BY <1>1, HandlerFine
  <2>3. Fine(r)
    BY <1>1, <2>2, CloseFine
  <2>4. Become(d, [s EXCEPT !.pkt = "none"])
    BY <2>1
  <2> HIDE DEF r
  <2>5. Fine(s)
    BY <2>3, HandlerFine
  <2> HIDE DEF s
  <2>6. Fine([s EXCEPT !.pkt = "none"])
    BY <2>5, HandlerFine
  <2>7. UNCHANGED stack
    BY <1>6 DEF Kill
  <2> QED
    BY <2>4, <2>6, <2>7, SameStack, Becoming
<1>7. CASE Progress(d)
  <2>1. /\ stack # << >> /\ stack' = GoTo(d, "progress")
        /\ \/ Become(d, Fault(dev[d], "useAfterFree"))
           \/ Become(d, [Touch(dev[d]) EXCEPT !.pkt = "content"])
    BY <1>7 DEF Progress, In
  <2> QED
    BY <1>1, <2>1, HandlerFine, GoingOn, Becoming
<1>8. CASE AwaitContent(d)
  <2>1. /\ stack # << >> /\ stack' = Return
        /\ Become(d, Fault(dev[d], "useAfterFree")) \/ Become(d, dev[d])
    BY <1>8 DEF AwaitContent, In
  <2> QED
    BY <1>1, <2>1, HandlerFine, Returning, Becoming
<1>9. CASE ReadContent(d)
  <2>1. /\ stack # << >> /\ stack' = GoTo(d, "callback")
        /\ \/ Become(d, Fault(dev[d], "useAfterFree"))
           \/ Become(d, [dev[d] EXCEPT !.pkt = "theirs"])
    BY <1>9 DEF ReadContent, In
  <2> QED
    BY <1>1, <2>1, HandlerFine, GoingOn, Becoming
<1>10. CASE CallbackReturns(d)
  <2>1. /\ stack # << >> /\ stack' = GoTo(d, "loop")
        /\ \/ Become(d, Fault(dev[d], "useAfterFree"))
           \/ Become(d, [dev[d] EXCEPT !.pkt = "none"])
    BY <1>10 DEF CallbackReturns, In
  <2> QED
    BY <1>1, <2>1, HandlerFine, GoingOn, Becoming
<1> QED
  BY <1>2, <1>3, <1>4, <1>5, <1>6, <1>7, <1>8, <1>9, <1>10

\* The connection goes, or the device itself.
LEMMA Losing ==
  ASSUME IInv, NEW d \in Devices,
         PeerDisconnects(d) \/ Flushed(d) \/ Deleted(d)
  PROVE  IInv'
<1>1. Fine(dev[d]) /\ LevelOK /\ UNCHANGED stack
  BY DEF IInv, PeerDisconnects, Flushed, Deleted
<1>2. Become(d, Disconnected(dev[d])) \/ Become(d, Destroy(dev[d]))
  BY DEF PeerDisconnects, Flushed, Deleted
<1> QED
  BY <1>1, <1>2, DisconnectedFine, DestroyFine, SameStack, Becoming

LEMMA Passing ==
  ASSUME IInv, NEW d \in Devices,
         Silence(d) \/ TimerDeleted(d)
  PROVE  IInv'
<1>1. Fine(dev[d]) /\ dev[d] \in Device /\ UNCHANGED stack
  BY DEF IInv, Fine, Silence, TimerDeleted
<1>2. CASE Silence(d)
  <2> DEFINE t == [dev[d] EXCEPT !.seen = "old"]
  <2>1. Become(d, t)
    BY <1>2 DEF Silence
  <2>2. /\ t \in Device /\ t.reg = dev[d].reg /\ t.alive = dev[d].alive
        /\ t.link = dev[d].link /\ t.wires = dev[d].wires /\ t.paired = dev[d].paired
    BY <1>1 DEF Device
  <2> HIDE DEF t
  <2> QED
    BY <1>1, <2>1, <2>2, TweakFine, SameStack, Becoming
<1>3. CASE TimerDeleted(d)
  <2> DEFINE t == [dev[d] EXCEPT !.dying = 0]
  <2>1. Become(d, t)
    BY <1>3 DEF TimerDeleted
  <2>2. 0 \in 0 .. MaxNesting + 1
    BY IEleaphAssumption
  <2>3. /\ t \in Device /\ t.reg = dev[d].reg /\ t.alive = dev[d].alive
        /\ t.link = dev[d].link /\ t.wires = dev[d].wires /\ t.paired = dev[d].paired
    BY <1>1, <2>2 DEF Device
  <2> HIDE DEF t
  <2> QED
    BY <1>1, <2>1, <2>3, TweakFine, SameStack, Becoming
<1> QED
  BY <1>2, <1>3

LEMMA NewDeviceType == NewDevice \in Device
<1>1. 0 \in 0 .. MaxNesting + 1
  BY IEleaphAssumption
<1> QED
  BY <1>1 DEF NewDevice, Device

\* A destroyed device that was not left in lstDevices leaves a clean address.
LEMMA Accepting ==
  ASSUME IInv, NEW d \in Devices, Accepted(d)
  PROVE  IInv'
<1> DEFINE t == [NewDevice EXCEPT !.reg = dev[d].reg]
<1>1. Fine(dev[d]) /\ dev[d] \in Device /\ dev[d].alive = FALSE
  BY DEF IInv, Fine, Accepted, Device
<1>2. Become(d, t) /\ UNCHANGED stack
  BY DEF Accepted
<1>3. NewDevice.wires = {} /\ NewDevice.paired = TRUE
  BY DEF NewDevice
<1>4. t \in Device /\ t.wires = {} /\ t.paired = TRUE /\ t.reg = dev[d].reg
  BY <1>1, <1>3, NewDeviceType DEF Device
<1>5. Tethered => t.reg # TRUE
  BY <1>1, <1>4 DEF Fine, Held
<1> HIDE DEF t
<1>6. Fine(t)
  BY <1>4, <1>5 DEF Fine, Paired, Held
<1> QED
  BY <1>2, <1>6, SameStack, Becoming

-----------------------------------------------------------------------------
\* IInv is inductive.
THEOREM Invariance == Spec => []IInv
<1>1. Init => IInv
  <2> SUFFICES ASSUME Init PROVE IInv
    OBVIOUS
  <2>1. NewDevice.wires = {} /\ NewDevice.paired = TRUE /\ NewDevice.reg = FALSE
    BY DEF NewDevice
  <2>2. Fine(NewDevice)
    BY <2>1, NewDeviceType DEF Fine, Paired, Held
  <2>3. dev \in [Devices -> Device] /\ \A d \in Devices : Fine(dev[d])
    BY <2>2, NewDeviceType DEF Init
  <2>4. stack = << >> /\ stack \in Seq(Frame)
    BY DEF Init
  <2>5. Level = 1
    <3>1. Nests(stack) = {}
      BY <2>4 DEF Nests
    <3> QED
      BY <3>1, LevelIs, FS_EmptySet
  <2>6. LevelOK
    BY <2>5, IEleaphAssumption DEF LevelOK
  <2> QED
    BY <2>3, <2>4, <2>6 DEF IInv
<1>2. IInv /\ [Next]_vars => IInv'
  <2> SUFFICES ASSUME IInv, [Next]_vars PROVE IInv'
    OBVIOUS
  <2>1. ASSUME NEW d \in Devices, NEW opts \in ForgetOptions, NEW ka \in BOOLEAN,
               addDevice(d, opts, ka)
        PROVE  IInv'
    BY <2>1, Adding
  <2>2. ASSUME NEW d \in Devices, removeDevice(d) \/ close(d) \/ deleteLater(d) \/ KeepAlive(d)
        PROVE  IInv'
    BY <2>2, Ending
  <2>3. ASSUME NEW d \in Devices,
               \/ dataHandler(d) \/ LeaveLoop(d) \/ AwaitHeader(d) \/ EmptyPacket(d)
               \/ Kill(d) \/ Progress(d) \/ AwaitContent(d) \/ ReadContent(d)
               \/ CallbackReturns(d)
        PROVE  IInv'
    BY <2>3, Handling
  <2>4. ASSUME NEW d \in Devices,
               \/ PeerDisconnects(d) \/ Flushed(d) \/ Deleted(d)
               \/ Silence(d) \/ TimerDeleted(d) \/ Accepted(d)
        PROVE  IInv'
    BY <2>4, Losing, Passing, Accepting
  <2>5. CASE Wait \/ WaitEnds
    BY <2>5, Waiting
  <2>6. CASE UNCHANGED vars
    BY <2>6, SameStack, StackOnly DEF vars
  <2> QED
    BY <2>1, <2>2, <2>3, <2>4, <2>5, <2>6 DEF Next
<1> QED
  BY <1>1, <1>2, PTL DEF Spec

\* Devices and the call stack keep their types; in particular an object is
\* never to be deleted at a level deeper than event loops nest.
THEOREM TypeCorrect == Spec => []TypeOK
<1>1. IInv => TypeOK
  BY DEF IInv, TypeOK
<1> QED
  BY <1>1, Invariance, PTL

\* Whatever user code does in handlers and nested event loops, the signals of a
\* device do not run removeDevice for a device that is not registered.
THEOREM OnceRemoved == Spec => []RemovedOnce
<1>1. IInv => RemovedOnce
  BY DEF IInv, Fine, Paired, RemovedOnce
<1> QED
  BY <1>1, Invariance, PTL

\* If devices are only added with options that forget them when they are
\* disconnected, lstDevices never holds a destroyed device.
THEOREM NoneDangles ==
  ASSUME \A opts \in ForgetOptions : "dropForget" \in opts
  PROVE  Spec => []NoDangling
<1>1. IInv => NoDangling
  BY DEF IInv, Fine, Held, Tethered, NoDangling
<1> QED
  BY <1>1, Invariance, PTL

-----------------------------------------------------------------------------
(* What signals promise: a device that is to be killed is doomed, and the  *)
(* keep alive timer of a device is there while it is registered.           *)

\* Whom a signal should have killed waits for deletion.
Kept(r) ==
  /\ r.link = "down" /\ "dropKill" \in r.wires => r.doomed # 0
  /\ r.open = FALSE /\ "closeKill" \in r.wires => r.doomed # 0

\* A timer belongs to a registered device, and the time it looks at is valid.
Clocked(r) == r.timer = TRUE => r.reg = TRUE /\ r.seen # "invalid"

\* The application leaves the removal of devices to their signals.
NeverRemoved == "removeDevice" \notin OwnOps /\ "removeDevice" \notin AppOps

\* An old timer is only left on a device whose connection is closed.
Rested(r) == NeverRemoved /\ r.dying # 0 => r.link # "up"

\* What calls and signals make of r: it is registered, open and connected no
\* more than before, and doomed no less.
Follows(t, r) ==
  /\ t.alive = r.alive
  /\ t.reg = TRUE => r.reg = TRUE
  /\ t.open = TRUE => r.open = TRUE
  /\ t.wires \subseteq r.wires
  /\ r.doomed # 0 => t.doomed # 0
  /\ Clocked(r) => Clocked(t)

LEMMA FollowsOn ==
  ASSUME NEW r, NEW s, NEW t, Follows(s, r), Follows(t, s)
  PROVE  Follows(t, r)
BY DEF Follows

LEMMA CutFollows ==
  ASSUME LevelOK, NEW r \in Device
  PROVE  Follows(Cut(r, TRUE), r) /\ Cut(r, TRUE).open = r.open
<1> DEFINE t == Cut(r, TRUE)
<1>1. /\ t.alive = r.alive /\ t.open = r.open /\ t.doomed = r.doomed
      /\ t.wires = r.wires \ ForgetWires /\ t.timer = FALSE /\ t.reg = FALSE
  BY CutFields
<1> HIDE DEF t
<1>2. t.wires \subseteq r.wires
  BY <1>1
<1>3. Follows(t, r)
  BY <1>1, <1>2 DEF Follows, Clocked
<1> QED
  BY <1>1, <1>3 DEF t

LEMMA RemoveDeviceFollows ==
  ASSUME LevelOK, NEW r \in Device, Paired(r), r.reg = TRUE
  PROVE  Follows(RemoveDevice(r), r) /\ RemoveDevice(r).open = r.open
BY RemovingCuts, CutFollows

LEMMA DeleteLaterFollows ==
  ASSUME LevelOK, NEW r \in Device
  PROVE  /\ Follows(DeleteLater(r), r) /\ DeleteLater(r).doomed # 0
         /\ DeleteLater(r).open = r.open /\ DeleteLater(r).dying = r.dying
<1> DEFINE doomed == IF r.doomed = 0 THEN Level ELSE r.doomed
           t == [r EXCEPT !.doomed = doomed]
<1>1. DeleteLater(r) = t
  BY DEF DeleteLater
<1>2. Level # 0
  BY DEF LevelOK
<1>3. doomed # 0
  BY <1>2
<1> HIDE DEF doomed
<1>4. /\ t.alive = r.alive /\ t.reg = r.reg /\ t.open = r.open /\ t.wires = r.wires
      /\ t.doomed = doomed /\ t.timer = r.timer /\ t.seen = r.seen /\ t.dying = r.dying
  BY DEF Device
<1> HIDE DEF t
<1> QED
  BY <1>1, <1>3, <1>4 DEF Follows, Clocked

LEMMA EmitFollows ==
  ASSUME LevelOK, NEW r \in Device, Paired(r), NEW forget \in ForgetWires, NEW kill
  PROVE  /\ Follows(Emit(r, forget, kill), r)
         /\ Emit(r, forget, kill).open = r.open
         /\ kill \in r.wires => Emit(r, forget, kill).doomed # 0
<1> DEFINE s == IF forget \in r.wires THEN RemoveDevice(r) ELSE r
<1>1. s \in Device /\ Follows(s, r) /\ s.open = r.open
  <2>1. CASE forget \in r.wires
    <3>1. r.reg = TRUE
      BY <2>1 DEF Paired
    <3> QED
      BY <2>1, <3>1, RemoveDeviceFine, RemoveDeviceFollows
  <2>2. CASE forget \notin r.wires
    BY <2>2 DEF Follows
  <2> QED
    BY <2>1, <2>2
<1>2. Emit(r, forget, kill) = IF kill \in r.wires THEN DeleteLater(s) ELSE s
  BY DEF Emit
<1> HIDE DEF s
<1>3. /\ Follows(DeleteLater(s), s) /\ DeleteLater(s).doomed # 0
      /\ DeleteLater(s).open = s.open
  BY <1>1, DeleteLaterFollows
<1>4. Follows(DeleteLater(s), r)
  BY <1>1, <1>3, FollowsOn
<1> QED
  BY <1>1, <1>2, <1>3, <1>4

LEMMA AboutToCloseFollows ==
  ASSUME LevelOK, NEW r, Fine(r)
  PROVE  /\ Follows(AboutToClose(r), r)
         /\ "closeKill" \in r.wires => AboutToClose(r).doomed # 0
<1>1. "closeForget" \in ForgetWires /\ r \in Device /\ Paired(r)
  BY DEF ForgetWires, Fine
<1> QED
  BY <1>1, EmitFollows DEF AboutToClose

LEMMA DisconnectedFollows ==
  ASSUME LevelOK, NEW r, Fine(r), Kept(r)
  PROVE  /\ Follows(Disconnected(r), r) /\ Kept(Disconnected(r))
         /\ Disconnected(r).link = "down"
<1> DEFINE s == [r EXCEPT !.link = "down"]
           e == Disconnected(r)
<1>1. r \in Device /\ Paired(r)
  BY DEF Fine
<1>2. /\ s \in Device /\ s.wires = r.wires /\ s.reg = r.reg /\ s.paired = r.paired
      /\ s.alive = r.alive /\ s.open = r.open /\ s.doomed = r.doomed /\ s.timer = r.timer
      /\ s.seen = r.seen /\ s.link = "down"
  BY <1>1 DEF Device
<1>3. "dropForget" \in ForgetWires /\ e = Emit(s, "dropForget", "dropKill")
  BY DEF ForgetWires, Disconnected
<1> HIDE DEF s, e
<1>4. Paired(s)
  BY <1>1, <1>2 DEF Paired
<1>5. /\ Follows(e, s) /\ e.link = "down" /\ e.open = s.open
      /\ "dropKill" \in s.wires => e.doomed # 0
  <2>1. /\ Follows(e, s) /\ e.open = s.open
        /\ "dropKill" \in s.wires => e.doomed # 0
    BY <1>2, <1>3, <1>4, EmitFollows
  <2>2. e.link = s.link
    BY <1>2, <1>3, <1>4, EmitFine
  <2> QED
    BY <1>2, <2>1, <2>2
<1>6. Follows(e, r)
  BY <1>2, <1>5 DEF Follows, Clocked
<1>7. Kept(e)
  BY <1>2, <1>5 DEF Follows, Kept
<1> QED
  BY <1>5, <1>6, <1>7 DEF e

LEMMA CloseFollows ==
  ASSUME LevelOK, NEW r, Fine(r), Kept(r), NEW unsent \in BOOLEAN
  PROVE  /\ Follows(Close(r, unsent), r) /\ Kept(Close(r, unsent))
         /\ Close(r, unsent).link # "up"
<1> DEFINE a == AboutToClose(r)
           c == [a EXCEPT !.open = FALSE]
           closed == IF r.open THEN c ELSE r
<1>1. /\ Fine(a) /\ a \in Device /\ a.link = r.link
      /\ Follows(a, r) /\ ("closeKill" \in r.wires => a.doomed # 0)
  BY AboutToCloseFine, AboutToCloseFollows DEF Fine
<1> HIDE DEF a
<1>2. /\ c \in Device /\ c.alive = a.alive /\ c.reg = a.reg /\ c.wires = a.wires
      /\ c.link = a.link /\ c.paired = a.paired /\ c.doomed = a.doomed
      /\ c.timer = a.timer /\ c.seen = a.seen /\ c.open = FALSE
  BY <1>1 DEF Device
<1> HIDE DEF c
<1>3. Fine(c) /\ Follows(c, r) /\ Kept(c)
  <2>1. Fine(c)
    BY <1>1, <1>2, TweakFine
  <2>2. Follows(c, r)
    BY <1>1, <1>2 DEF Follows, Clocked
  <2>3. Kept(c)
    BY <1>1, <1>2 DEF Follows, Kept
  <2> QED
    BY <2>1, <2>2, <2>3
<1>4. /\ Fine(closed) /\ closed \in Device /\ Follows(closed, r) /\ Kept(closed)
      /\ closed.link = r.link
  <2>1. Follows(r, r)
    BY DEF Follows
  <2> QED
    BY <1>1, <1>2, <1>3, <2>1 DEF Fine
<1>5. Close(r, unsent) = IF r.link # "up" THEN closed
                         ELSE IF unsent THEN [closed EXCEPT !.link = "closing"]
                         ELSE Disconnected(closed)
  BY DEF Close, closed, c, a
<1> HIDE DEF closed
<1> DEFINE u == [closed EXCEPT !.link = "closing"]
<1>6. Follows(u, r) /\ Kept(u) /\ u.link = "closing"
  <2>1. /\ u.alive = closed.alive /\ u.reg = closed.reg /\ u.open = closed.open
        /\ u.wires = closed.wires /\ u.doomed = closed.doomed /\ u.timer = closed.timer
        /\ u.seen = closed.seen /\ u.link = "closing"
    BY <1>4 DEF Device
  <2> HIDE DEF u
  <2> QED
    BY <1>4, <2>1 DEF Follows, Clocked, Kept
<1>7. /\ Follows(Disconnected(closed), r) /\ Kept(Disconnected(closed))
      /\ Disconnected(closed).link = "down"
  BY <1>4, DisconnectedFollows, FollowsOn
<1> HIDE DEF u
<1>8. CASE r.link # "up"
  BY <1>4, <1>5, <1>8
<1>9. CASE r.link = "up" /\ unsent
  BY <1>5, <1>6, <1>9 DEF u
<1>10. CASE r.link = "up" /\ ~unsent
  BY <1>5, <1>7, <1>10
<1> QED
  BY <1>8, <1>9, <1>10

\* Options bound to disconnection connect nothing to the closing of a device,
\* and a destroyed device is connected to nothing.
Leashed(r) ==
  /\ Tethered => r.wires \subseteq {"dropForget", "dropKill"}
  /\ r.alive = FALSE => /\ r.open = FALSE /\ r.timer = FALSE /\ r.wires = {}
                        /\ r.dying = 0 /\ r.doomed = 0

Lasting(r) == Kept(r) /\ Clocked(r) /\ Rested(r) /\ Leashed(r)

Ongoing == \A d \in Devices : Lasting(dev[d])

LEMMA DestroyLasting ==
  ASSUME LevelOK, NEW r, Fine(r)
  PROVE  Lasting(Destroy(r))
<1> DEFINE s == CASE r.link = "up"      -> Close(r, FALSE)
                  [] r.link = "closing" -> Disconnected(r)
                  [] OTHER              -> r
           t == [s EXCEPT !.alive = FALSE, !.open = FALSE, !.wires = {}, !.pkt = "none",
                          !.timer = FALSE, !.seen = "invalid", !.dying = 0, !.doomed = 0]
<1>1. Destroy(r) = t
  BY DEF Destroy
<1>2. r \in Device
  BY DEF Fine
<1>3. s \in Device
  <2>1. Close(r, FALSE) \in Device /\ Disconnected(r) \in Device
    BY CloseFine, DisconnectedFine DEF Fine
  <2> QED
    BY <1>2, <2>1
<1> HIDE DEF s
<1>4. t.wires = {} /\ t.timer = FALSE /\ t.dying = 0 /\ t.open = FALSE /\ t.doomed = 0
  BY <1>3 DEF Device
<1> HIDE DEF t
<1> QED
  BY <1>1, <1>4 DEF Lasting, Kept, Clocked, Rested, Leashed

LEMMA EndingLasts ==
  ASSUME LevelOK, NEW r, Fine(r), Lasting(r), r.alive = TRUE
  PROVE  Lasting(Disconnected(r)) /\ \A unsent \in BOOLEAN : Lasting(Close(r, unsent))
<1>1. Lasting(Disconnected(r))
  BY DisconnectedFollows DEF Lasting, Follows, Rested, Leashed
<1>2. ASSUME NEW unsent \in BOOLEAN PROVE Lasting(Close(r, unsent))
  BY CloseFollows DEF Lasting, Follows, Rested, Leashed
<1> QED
  BY <1>1, <1>2

\* What the fields of Lasting allow to be changed.
LEMMA SameLasting ==
  ASSUME NEW r, Lasting(r), NEW t,
         t.alive = r.alive, t.open = r.open, t.link = r.link, t.wires = r.wires, t.doomed = r.doomed,
         t.timer = r.timer, t.reg = r.reg, t.dying \in {r.dying, 0},
         t.seen = "invalid" => r.seen = "invalid"
  PROVE  Lasting(t)
BY DEF Lasting, Kept, Clocked, Rested, Leashed

\* The forms in which dataHandler, and the passing of time, change a device.
LEMMA HandlerLasting ==
  ASSUME NEW r \in Device, Lasting(r)
  PROVE  /\ \A p \in {"none", "header", "content", "theirs"} :
              Lasting([r EXCEPT !.pkt = p]) /\ Lasting([Touch(r) EXCEPT !.pkt = p])
         /\ \A kind \in {"doubleDelete", "useAfterFree"} : Lasting(Fault(r, kind))
         /\ Lasting([r EXCEPT !.seen = "old"]) /\ Lasting([r EXCEPT !.dying = 0])
<1> DEFINE Same(t) == /\ t.alive = r.alive
                      /\ t.open = r.open /\ t.link = r.link /\ t.wires = r.wires
                      /\ t.doomed = r.doomed /\ t.timer = r.timer /\ t.reg = r.reg
                      /\ t.dying \in {r.dying, 0} /\ (t.seen = "invalid" => r.seen = "invalid")
<1>1. \A t : Same(t) => Lasting(t)
  BY SameLasting
<1>2. ASSUME NEW p \in {"none", "header", "content", "theirs"}
      PROVE  Same([r EXCEPT !.pkt = p]) /\ Same([Touch(r) EXCEPT !.pkt = p])
  BY DEF Device, Touch
<1>3. ASSUME NEW kind PROVE Same(Fault(r, kind))
  BY DEF Device, Fault
<1>4. Same([r EXCEPT !.seen = "old"])
  BY DEF Device
<1>5. Same([r EXCEPT !.dying = 0])
  BY DEF Device
<1> HIDE DEF Same
<1> QED
  BY <1>1, <1>2, <1>3, <1>4, <1>5

LEMMA BecomingLasts ==
  ASSUME IInv, Ongoing, NEW d \in Devices, NEW r, Become(d, r), Lasting(r)
  PROVE  Ongoing'
<1>1. dev \in [Devices -> Device] /\ dev' = [dev EXCEPT ![d] = r]
  BY DEF IInv, Become
<1>2. \A e \in Devices : dev'[e] = IF e = d THEN r ELSE dev[e]
  BY <1>1
<1>3. \A e \in Devices : Lasting(dev'[e])
  BY <1>2 DEF Ongoing
<1> QED
  BY <1>3 DEF Ongoing

\* Devices are added when they are open and connected, so that no signal a
\* kill waits for has passed.
LEMMA AddingLasts ==
  ASSUME IInv, Ongoing, NEW d \in Devices, NEW opts \in ForgetOptions, NEW ka \in BOOLEAN,
         addDevice(d, opts, ka)
  PROVE  Ongoing'
<1> DEFINE r == dev[d]
           timer == r.timer \/ ka
           seen == IF ka THEN "fresh" ELSE r.seen
           wires == r.wires \cup opts
           t == [r EXCEPT !.wires = wires, !.timer = timer, !.seen = seen, !.reg = TRUE]
<1>1. r \in Device /\ Lasting(r)
  BY DEF IInv, Ongoing
<1>2. r.alive = TRUE /\ r.link = "up" /\ r.open = TRUE /\ Become(d, t)
  BY <1>1 DEF addDevice, Device
<1>3. timer = TRUE => seen # "invalid"
  BY <1>1 DEF Lasting, Clocked, Device
<1>6. Tethered => wires \subseteq {"dropForget", "dropKill"}
  <2>1. "dropForget" \in opts => opts \subseteq {"dropForget", "dropKill"}
    BY IEleaphAssumption DEF DeviceForgetOptions, ForgetDeviceOnClose,
       ForgetDeviceOnDisconnect, ForgetKillDeviceOnClose, ForgetKillDeviceOnDisconnect
  <2> QED
    BY <1>1, <2>1 DEF Tethered, Lasting, Leashed
<1> HIDE DEF r, timer, seen, wires
<1>4. /\ t.reg = TRUE /\ t.link = r.link /\ t.open = r.open /\ t.timer = timer /\ t.seen = seen
      /\ t.dying = r.dying /\ t.alive = r.alive /\ t.wires = wires
  BY <1>1 DEF Device
<1> HIDE DEF t
<1>5. Lasting(t)
  BY <1>1, <1>2, <1>3, <1>4, <1>6 DEF Lasting, Kept, Clocked, Rested, Leashed
<1> QED
  BY <1>2, <1>5, BecomingLasts

LEMMA CallsLast ==
  ASSUME IInv, Ongoing, NEW d \in Devices,
         removeDevice(d) \/ close(d) \/ deleteLater(d) \/ KeepAlive(d)
  PROVE  Ongoing'
<1>1. /\ Fine(dev[d]) /\ dev[d] \in Device /\ LevelOK /\ Lasting(dev[d])
  BY DEF IInv, Fine, Ongoing
<1>2. CASE removeDevice(d)
  <2> DEFINE t == Cut(dev[d], TRUE)
  <2>1. dev[d].alive = TRUE /\ Become(d, t)
    BY <1>1, <1>2, RemovingCuts DEF removeDevice, Dropped, Fine, Device
  <2>2. "removeDevice" \in OwnOps \/ "removeDevice" \in AppOps
    BY <1>2 DEF removeDevice, May
  <2>3. Follows(t, dev[d]) /\ t.open = dev[d].open /\ t.link = dev[d].link
    BY <1>1, CutFollows, CutFields
  <2> HIDE DEF t
  <2>4. Lasting(t)
    BY <1>1, <2>1, <2>2, <2>3 DEF Lasting, Kept, Follows, Rested, NeverRemoved, Leashed
  <2> QED
    BY <2>1, <2>4, BecomingLasts
<1>3. CASE close(d) \/ KeepAlive(d)
  <2>1. PICK unsent \in BOOLEAN : Become(d, Close(dev[d], unsent))
    BY <1>3 DEF close, KeepAlive
  <2>2. dev[d].alive = TRUE
    BY <1>1, <1>3 DEF close, KeepAlive, Lasting, Leashed, Device
  <2> QED
    BY <1>1, <2>1, <2>2, EndingLasts, BecomingLasts
<1>4. CASE deleteLater(d)
  <2> DEFINE t == DeleteLater(dev[d])
  <2>1. dev[d].alive = TRUE /\ Become(d, t)
    BY <1>1, <1>4 DEF deleteLater, Device
  <2>2. /\ Follows(t, dev[d]) /\ t.doomed # 0 /\ t.link = dev[d].link /\ t.dying = dev[d].dying
    BY <1>1, DeleteLaterFollows, DeleteLaterFine
  <2> HIDE DEF t
  <2>3. Lasting(t)
    BY <1>1, <2>1, <2>2 DEF Lasting, Kept, Follows, Rested, Leashed
  <2> QED
    BY <2>1, <2>3, BecomingLasts
<1> QED
  BY <1>2, <1>3, <1>4

LEMMA HandlersLast ==
  ASSUME IInv, Ongoing, NEW d \in Devices,
         \/ AwaitHeader(d) \/ EmptyPacket(d) \/ Kill(d) \/ Progress(d) \/ AwaitContent(d)
         \/ ReadContent(d) \/ CallbackReturns(d)
  PROVE  Ongoing'
<1>1. /\ Fine(dev[d]) /\ dev[d] \in Device /\ LevelOK /\ Lasting(dev[d])
  BY DEF IInv, Fine, Ongoing
<1>2. CASE AwaitHeader(d) \/ EmptyPacket(d) \/ Progress(d) \/ ReadContent(d) \/ CallbackReturns(d)
  <2>1. \/ Become(d, Fault(dev[d], "useAfterFree"))
        \/ \E p \in {"none", "header", "content", "theirs"} :
             Become(d, [dev[d] EXCEPT !.pkt = p]) \/ Become(d, [Touch(dev[d]) EXCEPT !.pkt = p])
    BY <1>2 DEF AwaitHeader, EmptyPacket, Progress, ReadContent, CallbackReturns
  <2> QED
    BY <1>1, <2>1, HandlerLasting, BecomingLasts
<1>3. CASE AwaitContent(d)
  <2>1. Become(d, Fault(dev[d], "useAfterFree")) \/ Become(d, dev[d])
    BY <1>3 DEF AwaitContent
  <2> QED
    BY <1>1, <2>1, HandlerLasting, BecomingLasts
<1>4. CASE Kill(d)
  <2>1. PICK unsent \in BOOLEAN :
          LET r == Close([dev[d] EXCEPT !.pkt = "header"], unsent)
          IN  Become(d, [(IF r.pkt = "none" THEN Fault(r, "doubleDelete") ELSE r)
                         EXCEPT !.pkt = "none"])
    BY <1>4 DEF Kill
  <2> DEFINE h == [dev[d] EXCEPT !.pkt = "header"]
             r == Close(h, unsent)
             s == IF r.pkt = "none" THEN Fault(r, "doubleDelete") ELSE r
  <2>2. Fine(h) /\ Lasting(h) /\ h.alive = TRUE
    <3>1. dev[d].alive = TRUE
      BY <1>1, <1>4 DEF Kill, HeaderPending, Lasting, Leashed, Device
    <3> QED
      BY <1>1, <3>1, HandlerFine, HandlerLasting DEF Device
  <2>3. Become(d, [s EXCEPT !.pkt = "none"])
    BY <2>1
  <2> HIDE DEF h
  <2>4. Fine(r) /\ Lasting(r) /\ r \in Device
    BY <1>1, <2>2, CloseFine, EndingLasts DEF Fine
  <2> HIDE DEF r
  <2>5. s \in Device /\ Lasting(s)
    BY <2>4, HandlerFine, HandlerLasting DEF Fine
  <2> HIDE DEF s
  <2> QED
    BY <2>3, <2>5, HandlerLasting, BecomingLasts
<1> QED
  BY <1>2, <1>3, <1>4

LEMMA EventsLast ==
  ASSUME IInv, Ongoing, NEW d \in Devices,
         \/ PeerDisconnects(d) \/ Flushed(d) \/ Deleted(d)
         \/ Silence(d) \/ TimerDeleted(d) \/ Accepted(d)
  PROVE  Ongoing'
<1>1. /\ Fine(dev[d]) /\ dev[d] \in Device /\ LevelOK /\ Lasting(dev[d])
  BY DEF IInv, Fine, Ongoing
<1>2. CASE PeerDisconnects(d) \/ Flushed(d)
  <2>1. dev[d].alive = TRUE /\ Become(d, Disconnected(dev[d]))
    BY <1>1, <1>2 DEF PeerDisconnects, Flushed, Device
  <2> QED
    BY <1>1, <2>1, EndingLasts, BecomingLasts
<1>3. CASE Deleted(d)
  BY <1>1, <1>3, DestroyLasting, BecomingLasts DEF Deleted
<1>4. CASE Silence(d) \/ TimerDeleted(d)
  BY <1>1, <1>4, HandlerLasting, BecomingLasts DEF Silence, TimerDeleted
<1>5. CASE Accepted(d)
  <2> DEFINE t == [NewDevice EXCEPT !.reg = dev[d].reg]
  <2>1. Become(d, t)
    BY <1>5 DEF Accepted
  <2>2. /\ t.alive = TRUE /\ t.link = "up" /\ t.open = TRUE /\ t.timer = FALSE
        /\ t.dying = 0 /\ t.wires = {}
    BY DEF NewDevice
  <2> HIDE DEF t
  <2>3. Lasting(t)
    BY <2>2 DEF Lasting, Kept, Clocked, Rested, Leashed
  <2> QED
    BY <2>1, <2>3, BecomingLasts
<1> QED
  BY <1>2, <1>3, <1>4, <1>5

LEMMA Lasts == Spec => []Ongoing
<1>1. Init => Ongoing
  <2>1. /\ NewDevice.link = "up" /\ NewDevice.open = TRUE /\ NewDevice.timer = FALSE
        /\ NewDevice.dying = 0 /\ NewDevice.alive = TRUE /\ NewDevice.wires = {}
    BY DEF NewDevice
  <2> QED
    BY <2>1 DEF Init, Ongoing, Lasting, Kept, Clocked, Rested, Leashed
<1>2. IInv /\ Ongoing /\ [Next]_vars => Ongoing'
  <2> SUFFICES ASSUME IInv, Ongoing, [Next]_vars PROVE Ongoing'
    OBVIOUS
  <2>1. ASSUME NEW d \in Devices, NEW opts \in ForgetOptions, NEW ka \in BOOLEAN,
               addDevice(d, opts, ka)
        PROVE  Ongoing'
    BY <2>1, AddingLasts
  <2>2. ASSUME NEW d \in Devices, removeDevice(d) \/ close(d) \/ deleteLater(d) \/ KeepAlive(d)
        PROVE  Ongoing'
    BY <2>2, CallsLast
  <2>3. ASSUME NEW d \in Devices,
               \/ AwaitHeader(d) \/ EmptyPacket(d) \/ Kill(d) \/ Progress(d) \/ AwaitContent(d)
               \/ ReadContent(d) \/ CallbackReturns(d)
        PROVE  Ongoing'
    BY <2>3, HandlersLast
  <2>4. ASSUME NEW d \in Devices,
               \/ PeerDisconnects(d) \/ Flushed(d) \/ Deleted(d)
               \/ Silence(d) \/ TimerDeleted(d) \/ Accepted(d)
        PROVE  Ongoing'
    BY <2>4, EventsLast
  <2>5. ASSUME NEW d \in Devices, dataHandler(d) \/ LeaveLoop(d)
        PROVE  Ongoing'
    BY <2>5 DEF dataHandler, LeaveLoop, Ongoing
  <2>6. CASE Wait \/ WaitEnds
    BY <2>6 DEF Wait, WaitEnds, Ongoing
  <2>7. CASE UNCHANGED vars
    BY <2>7 DEF vars, Ongoing
  <2> QED
    BY <2>1, <2>2, <2>3, <2>4, <2>5, <2>6, <2>7 DEF Next
<1> QED
  BY <1>1, <1>2, Invariance, PTL DEF Spec

\* Whatever removals, additions and nested loops come between, a device that
\* was to be killed on a signal waits for its deletion once the signal is past.
THEOREM KillLasts == Spec => []KillIsKept
<1>1. IInv /\ Ongoing => KillIsKept
  BY DEF IInv, Ongoing, Lasting, Kept, KillIsKept, Device
<1> QED
  BY <1>1, Invariance, Lasts, PTL

\* If the application removes devices by closing them, the keep alive system
\* ends no connection of a device that was heard of in time: a timer that still
\* fires for a forgotten device finds its connection closed.
THEOREM LivingAreSpared ==
  ASSUME "removeDevice" \notin OwnOps, "removeDevice" \notin AppOps
  PROVE  Spec => SparesTheLiving
<1>1. IInv /\ Ongoing /\ [Next]_vars =>
        [\A d \in Devices :
           (KeepAlive(d) /\ dev[d].link = "up" /\ dev'[d].link # "up") =>
             dev[d].reg /\ dev[d].seen = "old"]_vars
  <2> SUFFICES ASSUME IInv, Ongoing, NEW d \in Devices, KeepAlive(d), dev[d].link = "up"
               PROVE  dev[d].reg /\ dev[d].seen = "old"
    OBVIOUS
  <2>1. dev[d] \in Device /\ Clocked(dev[d]) /\ Rested(dev[d])
    BY DEF IInv, Ongoing, Lasting
  <2>2. dev[d].dying = 0
    BY <2>1 DEF Rested, NeverRemoved
  <2>3. dev[d].timer = TRUE /\ dev[d].seen # "fresh"
    BY <2>1, <2>2 DEF KeepAlive, Device
  <2>4. dev[d].reg = TRUE /\ dev[d].seen \in {"invalid", "fresh", "old"} /\ dev[d].seen # "invalid"
    BY <2>1, <2>3 DEF Clocked, Device
  <2> QED
    BY <2>3, <2>4
<1> QED
  BY <1>1, Invariance, Lasts, PTL DEF Spec, SparesTheLiving

-----------------------------------------------------------------------------
(* The devices live as DeviceLife says.                                    *)

Exists     == {d \in Devices : dev[d].alive}
Lost       == {d \in Devices : dev[d].alive /\ dev[d].link = "down"}
Registered == {d \in Devices : dev[d].reg}
Mortal     == {d \in Devices : "dropKill" \in dev[d].wires}
Condemned  == {d \in Devices : dev[d].doomed # 0}

\* What DeviceLife does not see.
Alike(t, r) ==
  /\ t.alive = r.alive /\ t.reg = r.reg
  /\ t.link = "down" <=> r.link = "down"
  /\ "dropKill" \in t.wires <=> "dropKill" \in r.wires
  /\ t.doomed = 0 <=> r.doomed = 0

\* The connection of r is lost.
Loses(t, r) ==
  /\ t.alive = TRUE /\ t.reg = FALSE
  /\ t.link = "down" /\ r.link # "down"
  /\ "dropKill" \in t.wires <=> "dropKill" \in r.wires
  /\ t.doomed = 0 <=> r.doomed = 0 /\ "dropKill" \notin r.wires

\* The abstract state when one device has changed.
LEMMA Mapped ==
  ASSUME IInv, NEW d \in Devices, NEW t \in Device, Become(d, t)
  PROVE  /\ Exists' = IF t.alive THEN Exists \cup {d} ELSE Exists \ {d}
         /\ Lost' = IF t.alive /\ t.link = "down" THEN Lost \cup {d} ELSE Lost \ {d}
         /\ Registered' = IF t.reg THEN Registered \cup {d} ELSE Registered \ {d}
         /\ Mortal' = IF "dropKill" \in t.wires THEN Mortal \cup {d} ELSE Mortal \ {d}
         /\ Condemned' = IF t.doomed # 0 THEN Condemned \cup {d} ELSE Condemned \ {d}
<1>1. \A e \in Devices : dev'[e] = IF e = d THEN t ELSE dev[e]
  BY DEF IInv, Become
<1>2. Exists' = IF t.alive THEN Exists \cup {d} ELSE Exists \ {d}
  BY <1>1 DEF Exists
<1>3. Lost' = IF t.alive /\ t.link = "down" THEN Lost \cup {d} ELSE Lost \ {d}
  BY <1>1 DEF Lost
<1>4. Registered' = IF t.reg THEN Registered \cup {d} ELSE Registered \ {d}
  BY <1>1 DEF Registered
<1>5. Mortal' = IF "dropKill" \in t.wires THEN Mortal \cup {d} ELSE Mortal \ {d}
  BY <1>1 DEF Mortal
<1>6. Condemned' = IF t.doomed # 0 THEN Condemned \cup {d} ELSE Condemned \ {d}
  BY <1>1 DEF Condemned
<1> QED
  BY <1>2, <1>3, <1>4, <1>5, <1>6

LEMMA Stutters ==
  ASSUME UNCHANGED <<Exists, Lost, Registered, Mortal, Condemned>>
  PROVE  UNCHANGED Life!vars
BY DEF Life!vars, Exists, Lost, Registered, Mortal, Condemned

LEMMA AlikeStutters ==
  ASSUME IInv, NEW d \in Devices, NEW t \in Device, Become(d, t), Alike(t, dev[d])
  PROVE  UNCHANGED Life!vars
<1>1. dev[d] \in Device
  BY DEF IInv
<1>2. /\ d \in Exists <=> t.alive
      /\ d \in Lost <=> t.alive /\ t.link = "down"
      /\ d \in Registered <=> t.reg
      /\ d \in Mortal <=> "dropKill" \in t.wires
      /\ d \in Condemned <=> t.doomed # 0
  BY DEF Alike, Exists, Lost, Registered, Mortal, Condemned
<1>3. /\ Exists' = IF t.alive THEN Exists \cup {d} ELSE Exists \ {d}
      /\ Lost' = IF t.alive /\ t.link = "down" THEN Lost \cup {d} ELSE Lost \ {d}
      /\ Registered' = IF t.reg THEN Registered \cup {d} ELSE Registered \ {d}
      /\ Mortal' = IF "dropKill" \in t.wires THEN Mortal \cup {d} ELSE Mortal \ {d}
      /\ Condemned' = IF t.doomed # 0 THEN Condemned \cup {d} ELSE Condemned \ {d}
  BY Mapped
<1>4. Exists' = Exists /\ Lost' = Lost /\ Registered' = Registered
  BY <1>2, <1>3
<1>5. Mortal' = Mortal /\ Condemned' = Condemned
  BY <1>2, <1>3
<1> QED
  BY <1>4, <1>5, Stutters

LEMMA LosesIsLose ==
  ASSUME IInv, NEW d \in Devices, NEW t \in Device, Become(d, t),
         dev[d].alive = TRUE, Loses(t, dev[d])
  PROVE  Life!Lose(d)
<1>1. d \in Exists \ Lost /\ (d \in Mortal <=> "dropKill" \in dev[d].wires)
      /\ (d \in Condemned <=> dev[d].doomed # 0)
  BY DEF Loses, Exists, Lost, Mortal, Condemned
<1>2. /\ Exists' = Exists \cup {d} /\ Lost' = Lost \cup {d} /\ Registered' = Registered \ {d}
      /\ Mortal' = IF "dropKill" \in dev[d].wires THEN Mortal \cup {d} ELSE Mortal \ {d}
      /\ Condemned' = IF dev[d].doomed = 0 /\ "dropKill" \notin dev[d].wires
                      THEN Condemned \ {d} ELSE Condemned \cup {d}
  BY Mapped DEF Loses
<1>3. Exists' = Exists /\ Mortal' = Mortal /\ Condemned' = Condemned \cup (Mortal \cap {d})
  BY <1>1, <1>2
<1> QED
  BY <1>1, <1>2, <1>3 DEF Life!Lose, Exists, Lost, Registered, Mortal, Condemned

\* Closing announces nothing to devices with options bound to disconnection.
LEMMA ClosingIsSilent ==
  ASSUME NEW r, r.wires \subseteq {"dropForget", "dropKill"}
  PROVE  AboutToClose(r) = r
BY DEF AboutToClose, Emit

LEMMA DisconnectedLoses ==
  ASSUME LevelOK, Tethered, NEW r, Fine(r), r.alive = TRUE, r.link # "down",
         r.wires \subseteq {"dropForget", "dropKill"}
  PROVE  Loses(Disconnected(r), r)
<1> DEFINE s == [r EXCEPT !.link = "down"]
           f == IF "dropForget" \in r.wires THEN RemoveDevice(s) ELSE s
           e == Disconnected(r)
<1>1. r \in Device /\ Paired(r) /\ Held(r)
  BY DEF Fine
<1>2. /\ s \in Device /\ s.wires = r.wires /\ s.reg = r.reg /\ s.paired = r.paired
      /\ s.alive = TRUE /\ s.doomed = r.doomed /\ s.link = "down"
  BY <1>1 DEF Device
<1>3. e = IF "dropKill" \in r.wires THEN DeleteLater(f) ELSE f
  BY <1>2 DEF Disconnected, Emit
<1> HIDE DEF s, e
<1>4. /\ f \in Device /\ f.alive = TRUE /\ f.reg = FALSE /\ f.link = "down"
      /\ f.doomed = r.doomed /\ ("dropKill" \in f.wires <=> "dropKill" \in r.wires)
  <2>1. CASE "dropForget" \in r.wires
    <3>1. s.reg = TRUE /\ Paired(s)
      BY <1>1, <1>2, <2>1 DEF Paired, ForgetWires
    <3>2. /\ f \in Device /\ f.alive = TRUE /\ f.reg = FALSE /\ f.link = "down"
      BY <1>2, <2>1, <3>1, RemoveDeviceFine
    <3>3. f.doomed = s.doomed /\ f.wires = s.wires \ ForgetWires
      BY <1>2, <2>1 DEF RemoveDevice, Device
    <3> QED
      BY <1>2, <3>2, <3>3 DEF ForgetWires
  <2>2. CASE "dropForget" \notin r.wires
    <3>1. r.reg = FALSE
      BY <1>1, <2>2 DEF Held, Device
    <3> QED
      BY <1>2, <2>2, <3>1
  <2> QED
    BY <2>1, <2>2
<1> HIDE DEF f
<1>5. CASE "dropKill" \in r.wires
  <2>1. e = DeleteLater(f)
    BY <1>3, <1>5
  <2>2. /\ e.alive = TRUE /\ e.reg = FALSE /\ e.link = "down" /\ e.wires = f.wires
    BY <1>4, <2>1, DeleteLaterFine
  <2>3. e.doomed # 0
    BY <1>4, <2>1, DeleteLaterFollows
  <2> QED
    BY <1>4, <1>5, <2>2, <2>3 DEF Loses, e
<1>6. CASE "dropKill" \notin r.wires
  BY <1>3, <1>4, <1>6 DEF Loses, e
<1> QED
  BY <1>5, <1>6

LEMMA CloseLoses ==
  ASSUME LevelOK, Tethered, NEW r, Fine(r), r.alive = TRUE,
         r.wires \subseteq {"dropForget", "dropKill"}, NEW unsent \in BOOLEAN
  PROVE  Alike(Close(r, unsent), r) \/ Loses(Close(r, unsent), r)
<1> DEFINE c == [r EXCEPT !.open = FALSE]
           closed == IF r.open THEN c ELSE r
           u == [closed EXCEPT !.link = "closing"]
<1>1. r \in Device
  BY DEF Fine
<1>2. Close(r, unsent) = IF r.link # "up" THEN closed ELSE IF unsent THEN u
                         ELSE Disconnected(closed)
  BY ClosingIsSilent DEF Close
<1>3. /\ c \in Device /\ c.alive = r.alive /\ c.reg = r.reg /\ c.link = r.link
      /\ c.wires = r.wires /\ c.doomed = r.doomed /\ c.paired = r.paired
  BY <1>1 DEF Device
<1> HIDE DEF c
<1>4. /\ closed \in Device /\ closed.alive = r.alive /\ closed.reg = r.reg
      /\ closed.link = r.link /\ closed.wires = r.wires /\ closed.doomed = r.doomed
      /\ closed.paired = r.paired
  BY <1>1, <1>3
<1> HIDE DEF closed
<1>5. Fine(closed)
  BY <1>4, TweakFine
<1>6. /\ u.alive = closed.alive /\ u.reg = closed.reg /\ u.link = "closing"
      /\ u.wires = closed.wires /\ u.doomed = closed.doomed
  BY <1>4 DEF Device
<1> HIDE DEF u
<1>7. CASE r.link # "up"
  BY <1>2, <1>4, <1>7 DEF Alike
<1>8. CASE r.link = "up" /\ unsent
  BY <1>2, <1>4, <1>6, <1>8 DEF Alike
<1>9. CASE r.link = "up" /\ ~unsent
  <2>1. Close(r, unsent) = Disconnected(closed)
    BY <1>2, <1>9
  <2>2. Loses(Disconnected(closed), closed)
    BY <1>4, <1>5, <1>9, DisconnectedLoses
  <2> QED
    BY <1>4, <2>1, <2>2 DEF Loses
<1> QED
  BY <1>7, <1>8, <1>9

LEMMA DestroyedIsNothing ==
  ASSUME LevelOK, Tethered, NEW r, Fine(r)
  PROVE  /\ Destroy(r) \in Device /\ Destroy(r).alive = FALSE /\ Destroy(r).reg = FALSE
         /\ Destroy(r).wires = {} /\ Destroy(r).doomed = 0
<1> DEFINE s == CASE r.link = "up"      -> Close(r, FALSE)
                  [] r.link = "closing" -> Disconnected(r)
                  [] OTHER              -> r
           t == [s EXCEPT !.alive = FALSE, !.open = FALSE, !.wires = {}, !.pkt = "none",
                          !.timer = FALSE, !.seen = "invalid", !.dying = 0, !.doomed = 0]
<1>1. Destroy(r) = t
  BY DEF Destroy
<1>2. s \in Device
  <2>1. Close(r, FALSE) \in Device /\ Disconnected(r) \in Device /\ r \in Device
    BY CloseFine, DisconnectedFine DEF Fine
  <2> QED
    BY <2>1
<1> HIDE DEF s
<1>3. t.alive = FALSE /\ t.wires = {} /\ t.doomed = 0
  BY <1>2 DEF Device
<1>4. Fine(t)
  BY <1>1, DestroyFine
<1> HIDE DEF t
<1>5. t \in Device /\ t.reg = FALSE
  BY <1>3, <1>4 DEF Fine, Held, Device
<1> QED
  BY <1>1, <1>3, <1>5
LEMMA AlikeRefines ==
  ASSUME IInv, NEW d \in Devices, NEW t \in Device, Become(d, t),
         \/ Alike(t, dev[d])
         \/ dev[d].alive = TRUE /\ Loses(t, dev[d])
  PROVE  [Life!Next]_(Life!vars)
<1>1. CASE Alike(t, dev[d])
  BY <1>1, AlikeStutters
<1>2. CASE dev[d].alive = TRUE /\ Loses(t, dev[d])
  <2>1. Life!Lose(d)
    BY <1>2, LosesIsLose
  <2> QED
    BY <2>1 DEF Life!Next
<1> QED
  BY <1>1, <1>2

LEMMA AddingRefines ==
  ASSUME Tethered, IInv, NEW d \in Devices, NEW opts \in ForgetOptions,
         NEW ka \in BOOLEAN, addDevice(d, opts, ka)
  PROVE  Life!Register(d, "dropKill" \in opts)
<1> DEFINE r == dev[d]
           timer == r.timer \/ ka
           seen == IF ka THEN "fresh" ELSE r.seen
           wires == r.wires \cup opts
           t == [r EXCEPT !.wires = wires, !.timer = timer, !.seen = seen, !.reg = TRUE]
<1>1. r \in Device /\ LevelOK
  BY DEF IInv
<1>2. r.alive = TRUE /\ r.link = "up" /\ r.reg = FALSE /\ Become(d, t)
  BY <1>1 DEF addDevice, Device
<1>3. /\ wires \in SUBSET {"closeForget", "dropForget", "closeKill", "dropKill"}
      /\ seen \in {"invalid", "fresh", "old"}
  BY <1>1, IEleaphAssumption DEF Device, DeviceForgetOptions, ForgetDeviceOnClose,
     ForgetDeviceOnDisconnect, ForgetKillDeviceOnClose, ForgetKillDeviceOnDisconnect
<1>4. timer \in BOOLEAN
  BY Zenon
<1>5. "dropKill" \in wires <=> "dropKill" \in r.wires \/ "dropKill" \in opts
  OBVIOUS
<1>6. /\ d \in Exists \ (Lost \cup Registered)
      /\ d \in Mortal <=> "dropKill" \in r.wires
      /\ d \in Condemned <=> r.doomed # 0
  BY <1>2 DEF Exists, Lost, Registered, Mortal, Condemned
<1> HIDE DEF r, timer, seen, wires
<1>7. /\ t \in Device /\ t.reg = TRUE /\ t.alive = r.alive /\ t.link = r.link
      /\ t.wires = wires /\ t.doomed = r.doomed
  BY <1>1, <1>3, <1>4 DEF Device
<1> HIDE DEF t
<1>8. /\ Exists' = Exists \cup {d}
      /\ Lost' = Lost \ {d}
      /\ Registered' = Registered \cup {d}
      /\ Mortal' = IF "dropKill" \in wires THEN Mortal \cup {d} ELSE Mortal \ {d}
      /\ Condemned' = IF r.doomed # 0 THEN Condemned \cup {d} ELSE Condemned \ {d}
  BY <1>2, <1>7, Mapped
<1>9. /\ Exists' = Exists /\ Lost' = Lost /\ Condemned' = Condemned
      /\ Mortal' = IF "dropKill" \in opts THEN Mortal \cup {d} ELSE Mortal
  BY <1>5, <1>6, <1>8
<1> QED
  BY <1>6, <1>8, <1>9 DEF Life!Register, Exists, Lost, Registered, Mortal, Condemned

\* Removing a device that is not registered changes nothing DeviceLife sees.
LEMMA RemovingRefines ==
  ASSUME IInv, NEW d \in Devices, removeDevice(d)
  PROVE  [Life!Next]_(Life!vars)
<1> DEFINE r == dev[d]
           t == Cut(r, TRUE)
<1>1. r \in Device /\ LevelOK
  BY DEF IInv
<1>2. r.alive = TRUE /\ Become(d, t)
  BY <1>1, RemovingCuts DEF removeDevice, Dropped, IInv, Fine, Device
<1>3. /\ t \in Device /\ t.reg = FALSE /\ t.link = r.link /\ t.alive = r.alive
      /\ t.doomed = r.doomed /\ t.wires = r.wires \ ForgetWires
  BY <1>1, CutFields
<1>4. /\ d \in Exists
      /\ d \in Registered <=> r.reg
      /\ d \in Lost <=> r.link = "down"
      /\ d \in Mortal <=> "dropKill" \in r.wires
      /\ d \in Condemned <=> r.doomed # 0
  BY <1>2 DEF Exists, Lost, Registered, Mortal, Condemned
<1> HIDE DEF r, t
<1>5. "dropKill" \in t.wires <=> "dropKill" \in r.wires
  BY <1>3 DEF ForgetWires
<1>6. CASE r.reg = FALSE
  <2>1. Alike(t, r)
    BY <1>3, <1>5, <1>6 DEF Alike
  <2> QED
    BY <1>2, <1>3, <2>1, AlikeStutters DEF r
<1>7. CASE r.reg = TRUE
  <2>1. /\ Exists' = Exists \cup {d}
        /\ Lost' = IF t.link = "down" THEN Lost \cup {d} ELSE Lost \ {d}
        /\ Registered' = Registered \ {d}
        /\ Mortal' = IF "dropKill" \in t.wires THEN Mortal \cup {d} ELSE Mortal \ {d}
        /\ Condemned' = IF t.doomed # 0 THEN Condemned \cup {d} ELSE Condemned \ {d}
    BY <1>2, <1>3, Mapped
  <2>2. Exists' = Exists /\ Lost' = Lost
    BY <1>3, <1>4, <2>1
  <2>3. Mortal' = Mortal /\ Condemned' = Condemned
    BY <1>3, <1>4, <1>5, <2>1
  <2>4. Life!Forget(d)
    BY <1>4, <1>7, <2>1, <2>2, <2>3
       DEF Life!Forget, Exists, Lost, Registered, Mortal, Condemned
  <2> QED
    BY <2>4 DEF Life!Next
<1> QED
  BY <1>1, <1>6, <1>7 DEF Device

LEMMA DoomingRefines ==
  ASSUME IInv, Ongoing, NEW d \in Devices, deleteLater(d)
  PROVE  Life!Condemn(d)
<1> DEFINE r == dev[d]
           t == DeleteLater(r)
<1>1. r \in Device /\ LevelOK
  BY DEF IInv
<1>2. r.alive = TRUE /\ Become(d, t)
  BY <1>1 DEF deleteLater, Device
<1>3. /\ t \in Device /\ t.reg = r.reg /\ t.link = r.link /\ t.alive = r.alive
      /\ t.wires = r.wires
  BY <1>1, DeleteLaterFine
<1>4. t.doomed # 0
  BY <1>1, DeleteLaterFollows
<1>5. /\ d \in Exists
      /\ d \in Lost <=> r.link = "down"
      /\ d \in Registered <=> r.reg
      /\ d \in Mortal <=> "dropKill" \in r.wires
  BY <1>2 DEF Exists, Lost, Registered, Mortal
<1> HIDE DEF r, t
<1>6. /\ Exists' = Exists \cup {d}
      /\ Lost' = IF r.link = "down" THEN Lost \cup {d} ELSE Lost \ {d}
      /\ Registered' = IF r.reg THEN Registered \cup {d} ELSE Registered \ {d}
      /\ Mortal' = IF "dropKill" \in r.wires THEN Mortal \cup {d} ELSE Mortal \ {d}
      /\ Condemned' = Condemned \cup {d}
  BY <1>2, <1>3, <1>4, Mapped
<1>7. Exists' = Exists /\ Lost' = Lost
  BY <1>5, <1>6
<1>8. Registered' = Registered /\ Mortal' = Mortal
  BY <1>5, <1>6
<1> QED
  BY <1>5, <1>6, <1>7, <1>8 DEF Life!Condemn, Exists, Lost, Registered, Mortal, Condemned

LEMMA DeletedRefines ==
  ASSUME Tethered, IInv, NEW d \in Devices, Deleted(d)
  PROVE  Life!Destroy(d)
<1> DEFINE t == Destroy(dev[d])
<1>1. dev[d] \in Device /\ Fine(dev[d]) /\ LevelOK /\ Become(d, t)
  BY DEF IInv, Fine, Deleted
<1>2. dev[d].doomed # 0
  <2>1. dev[d].doomed >= Level /\ Level \in 1 .. MaxNesting + 1
    BY <1>1 DEF Deleted, LevelOK
  <2> QED
    BY <2>1, IEleaphAssumption
<1>3. d \in Condemned
  BY <1>2 DEF Condemned
<1>4. /\ t \in Device /\ t.alive = FALSE /\ t.reg = FALSE /\ t.wires = {} /\ t.doomed = 0
  BY <1>1, DestroyedIsNothing
<1> HIDE DEF t
<1>5. /\ Exists' = Exists \ {d} /\ Lost' = Lost \ {d} /\ Registered' = Registered \ {d}
      /\ Mortal' = Mortal \ {d} /\ Condemned' = Condemned \ {d}
  BY <1>1, <1>4, Mapped
<1> QED
  BY <1>3, <1>5 DEF Life!Destroy, Exists, Lost, Registered, Mortal, Condemned

LEMMA AcceptedRefines ==
  ASSUME Tethered, IInv, Ongoing, NEW d \in Devices, Accepted(d)
  PROVE  Life!Create(d)
<1> DEFINE t == [NewDevice EXCEPT !.reg = dev[d].reg]
<1>1. dev[d] \in Device /\ Fine(dev[d]) /\ Lasting(dev[d])
  BY DEF IInv, Fine, Ongoing
<1>2. dev[d].alive = FALSE /\ Become(d, t)
  BY <1>1 DEF Accepted, Device
<1>3. dev[d].reg = FALSE /\ dev[d].wires = {} /\ dev[d].doomed = 0
  BY <1>1, <1>2 DEF Fine, Held, Lasting, Leashed, Device
<1>4. /\ d \notin Exists /\ d \notin Lost /\ d \notin Registered /\ d \notin Mortal
      /\ d \notin Condemned
  BY <1>2, <1>3 DEF Exists, Lost, Registered, Mortal, Condemned
<1>5. /\ NewDevice \in Device /\ NewDevice.alive = TRUE /\ NewDevice.link = "up"
      /\ NewDevice.wires = {} /\ NewDevice.doomed = 0
  BY NewDeviceType DEF NewDevice
<1>6. /\ t \in Device /\ t.alive = TRUE /\ t.link = "up" /\ t.wires = {} /\ t.doomed = 0
      /\ t.reg = FALSE
  BY <1>3, <1>5 DEF Device
<1> HIDE DEF t
<1>7. /\ Exists' = Exists \cup {d} /\ Lost' = Lost \ {d} /\ Registered' = Registered \ {d}
      /\ Mortal' = Mortal \ {d} /\ Condemned' = Condemned \ {d}
  BY <1>2, <1>6, Mapped
<1>8. Lost' = Lost /\ Registered' = Registered /\ Mortal' = Mortal /\ Condemned' = Condemned
  BY <1>4, <1>7
<1> QED
  BY <1>4, <1>7, <1>8 DEF Life!Create, Exists, Lost, Registered, Mortal, Condemned
\* A device that is closed loses its connection, at once or when its last bytes
\* are sent.
LEMMA ClosingRefines ==
  ASSUME Tethered, IInv, Ongoing, NEW d \in Devices,
         \/ close(d) \/ KeepAlive(d) \/ PeerDisconnects(d) \/ Flushed(d)
  PROVE  [Life!Next]_(Life!vars)
<1>1. /\ Fine(dev[d]) /\ dev[d] \in Device /\ LevelOK
      /\ dev[d].wires \subseteq {"dropForget", "dropKill"}
  BY DEF IInv, Fine, Ongoing, Lasting, Leashed
<1>2. CASE close(d) \/ KeepAlive(d)
  <2>1. PICK unsent \in BOOLEAN : Become(d, Close(dev[d], unsent))
    BY <1>2 DEF close, KeepAlive
  <2> DEFINE t == Close(dev[d], unsent)
  <2>2. dev[d].alive = TRUE
    BY <1>1, <1>2 DEF close, KeepAlive, Ongoing, Lasting, Leashed, Device
  <2>3. t \in Device
    BY <1>1, CloseFine DEF Fine
  <2>4. Alike(t, dev[d]) \/ Loses(t, dev[d])
    BY <1>1, <2>2, CloseLoses
  <2> HIDE DEF t
  <2> QED
    BY <2>1, <2>2, <2>3, <2>4, AlikeRefines DEF t
<1>3. CASE PeerDisconnects(d) \/ Flushed(d)
  <2> DEFINE t == Disconnected(dev[d])
  <2>1. dev[d].alive = TRUE /\ dev[d].link # "down" /\ Become(d, t)
    BY <1>1, <1>3 DEF PeerDisconnects, Flushed, Device
  <2>2. t \in Device
    BY <1>1, DisconnectedFine DEF Fine
  <2>3. Loses(t, dev[d])
    BY <1>1, <2>1, DisconnectedLoses
  <2> HIDE DEF t
  <2> QED
    BY <2>1, <2>2, <2>3, AlikeRefines
<1> QED
  BY <1>2, <1>3

\* What a handler does to the packet and the clock of a device.
LEMMA HandlerAlike ==
  ASSUME NEW r \in Device
  PROVE  /\ \A p \in {"none", "header", "content", "theirs"} :
              /\ [r EXCEPT !.pkt = p] \in Device /\ Alike([r EXCEPT !.pkt = p], r)
              /\ [Touch(r) EXCEPT !.pkt = p] \in Device
              /\ Alike([Touch(r) EXCEPT !.pkt = p], r)
         /\ \A kind \in {"doubleDelete", "useAfterFree"} :
              Fault(r, kind) \in Device /\ Alike(Fault(r, kind), r)
         /\ [r EXCEPT !.seen = "old"] \in Device /\ Alike([r EXCEPT !.seen = "old"], r)
         /\ [r EXCEPT !.dying = 0] \in Device /\ Alike([r EXCEPT !.dying = 0], r)
         /\ Alike(r, r)
<1> DEFINE Same(t) == /\ t \in Device /\ t.alive = r.alive /\ t.reg = r.reg
                      /\ t.link = r.link /\ t.wires = r.wires /\ t.doomed = r.doomed
<1>1. \A t : Same(t) => t \in Device /\ Alike(t, r)
  BY DEF Alike
<1>2. ASSUME NEW p \in {"none", "header", "content", "theirs"}
      PROVE  Same([r EXCEPT !.pkt = p]) /\ Same([Touch(r) EXCEPT !.pkt = p])
  <2>1. Same([r EXCEPT !.pkt = p])
    BY DEF Device
  <2> DEFINE v == Touch(r)
  <2>2. Same(v)
    BY DEF Device, Touch
  <2> HIDE DEF v
  <2>3. Same([v EXCEPT !.pkt = p])
    BY <2>2 DEF Device
  <2> QED
    BY <2>1, <2>3 DEF v
<1>3. ASSUME NEW kind \in {"doubleDelete", "useAfterFree"} PROVE Same(Fault(r, kind))
  BY DEF Device, Fault
<1>4. Same([r EXCEPT !.seen = "old"])
  BY DEF Device
<1>5. Same([r EXCEPT !.dying = 0])
  <2>1. 0 \in 0 .. MaxNesting + 1
    BY IEleaphAssumption
  <2> QED
    BY <2>1 DEF Device
<1>6. Same(r)
  OBVIOUS
<1> HIDE DEF Same
<1> QED
  BY <1>1, <1>2, <1>3, <1>4, <1>5, <1>6

LEMMA AlikeTwice ==
  ASSUME NEW q, NEW r, NEW t, Alike(t, r), Alike(r, q) \/ Loses(r, q)
  PROVE  Alike(t, q) \/ Loses(t, q)
<1>1. CASE Alike(r, q)
  BY <1>1 DEF Alike
<1>2. CASE Loses(r, q)
  BY <1>2 DEF Alike, Loses
<1> QED
  BY <1>1, <1>2

\* An activation of dataHandler loses the connection or changes nothing that
\* DeviceLife sees.
LEMMA HandlingRefines ==
  ASSUME Tethered, IInv, Ongoing, NEW d \in Devices,
         \/ AwaitHeader(d) \/ EmptyPacket(d) \/ Kill(d) \/ Progress(d) \/ AwaitContent(d)
         \/ ReadContent(d) \/ CallbackReturns(d) \/ Silence(d) \/ TimerDeleted(d)
  PROVE  [Life!Next]_(Life!vars)
<1>1. /\ Fine(dev[d]) /\ dev[d] \in Device /\ LevelOK
      /\ dev[d].wires \subseteq {"dropForget", "dropKill"}
  BY DEF IInv, Fine, Ongoing, Lasting, Leashed
<1>2. CASE AwaitHeader(d) \/ EmptyPacket(d) \/ Progress(d) \/ ReadContent(d) \/ CallbackReturns(d)
  <2>1. \/ Become(d, Fault(dev[d], "useAfterFree"))
        \/ \E p \in {"none", "header", "content", "theirs"} :
             Become(d, [dev[d] EXCEPT !.pkt = p]) \/ Become(d, [Touch(dev[d]) EXCEPT !.pkt = p])
    BY <1>2 DEF AwaitHeader, EmptyPacket, Progress, ReadContent, CallbackReturns
  <2> QED
    BY <1>1, <2>1, HandlerAlike, AlikeRefines
<1>3. CASE AwaitContent(d)
  <2>1. Become(d, Fault(dev[d], "useAfterFree")) \/ Become(d, dev[d])
    BY <1>3 DEF AwaitContent
  <2> QED
    BY <1>1, <2>1, HandlerAlike, AlikeRefines
<1>4. CASE Silence(d) \/ TimerDeleted(d)
  <2>1. Become(d, [dev[d] EXCEPT !.seen = "old"]) \/ Become(d, [dev[d] EXCEPT !.dying = 0])
    BY <1>4 DEF Silence, TimerDeleted
  <2> QED
    BY <1>1, <2>1, HandlerAlike, AlikeRefines
<1>5. CASE Kill(d)
  <2>1. PICK unsent \in BOOLEAN :
          LET r == Close([dev[d] EXCEPT !.pkt = "header"], unsent)
          IN  Become(d, [(IF r.pkt = "none" THEN Fault(r, "doubleDelete") ELSE r)
                         EXCEPT !.pkt = "none"])
    BY <1>5 DEF Kill
  <2> DEFINE h == [dev[d] EXCEPT !.pkt = "header"]
             r == Close(h, unsent)
             s == IF r.pkt = "none" THEN Fault(r, "doubleDelete") ELSE r
             t == [s EXCEPT !.pkt = "none"]
  <2>2. dev[d].alive = TRUE
    BY <1>1, <1>5 DEF Kill, HeaderPending, Ongoing, Lasting, Leashed, Device
  <2>3. Fine(h)
    BY <1>1, HandlerFine
  <2>4. h.link = dev[d].link /\ h.reg = dev[d].reg /\ h.wires = dev[d].wires
        /\ h.doomed = dev[d].doomed /\ h.alive = dev[d].alive
    BY <1>1 DEF Device
  <2>5. Become(d, t)
    BY <2>1
  <2> HIDE DEF h
  <2>6. r \in Device
    BY <1>1, <2>3, CloseFine DEF Fine
  <2>7. Alike(r, h) \/ Loses(r, h)
    BY <1>1, <2>2, <2>3, <2>4, CloseLoses
  <2> HIDE DEF r
  <2>8. Alike(r, dev[d]) \/ Loses(r, dev[d])
    BY <2>4, <2>7 DEF Alike, Loses
  <2>9. s \in Device /\ Alike(s, r)
    BY <2>6, HandlerAlike
  <2> HIDE DEF s
  <2>10. t \in Device /\ Alike(t, s)
    BY <2>9, HandlerAlike
  <2> HIDE DEF t
  <2>11. Alike(s, dev[d]) \/ Loses(s, dev[d])
    BY <2>8, <2>9, AlikeTwice
  <2>12. Alike(t, dev[d]) \/ Loses(t, dev[d])
    BY <2>10, <2>11, AlikeTwice
  <2> QED
    BY <2>2, <2>5, <2>10, <2>12, AlikeRefines
<1> QED
  BY <1>2, <1>3, <1>4, <1>5

\* If devices are only added with options that forget them when they are
\* disconnected, their registration, condemnation and destruction are those of
\* DeviceLife, whatever calls, signals, timers and event loops come between.
THEOREM LivesAsPromised ==
  ASSUME \A opts \in ForgetOptions : "dropForget" \in opts
  PROVE  Spec => ImplementsDeviceLife
<1>1. Tethered
  BY DEF Tethered
<1>2. Init => Life!Init
  <2>1. /\ NewDevice.alive = TRUE /\ NewDevice.link = "up" /\ NewDevice.reg = FALSE
        /\ NewDevice.wires = {} /\ NewDevice.doomed = 0
    BY DEF NewDevice
  <2> QED
    BY <2>1 DEF Init, Life!Init
<1>3. IInv /\ Ongoing /\ [Next]_vars => [Life!Next]_(Life!vars)
  <2> SUFFICES ASSUME IInv, Ongoing, [Next]_vars PROVE [Life!Next]_(Life!vars)
    OBVIOUS
  <2>1. ASSUME NEW d \in Devices, NEW opts \in ForgetOptions, NEW ka \in BOOLEAN,
               addDevice(d, opts, ka)
        PROVE  [Life!Next]_(Life!vars)
    <3>1. Life!Register(d, "dropKill" \in opts) /\ ("dropKill" \in opts) \in BOOLEAN
      BY <1>1, <2>1, AddingRefines
    <3> QED
      BY <3>1 DEF Life!Next
  <2>2. ASSUME NEW d \in Devices,
               \/ removeDevice(d) \/ deleteLater(d) \/ Deleted(d) \/ Accepted(d)
        PROVE  [Life!Next]_(Life!vars)
    <3>1. CASE removeDevice(d)
      BY <3>1, RemovingRefines
    <3>2. Life!Condemn(d) \/ Life!Destroy(d) \/ Life!Create(d) => [Life!Next]_(Life!vars)
      BY DEF Life!Next
    <3> QED
      BY <1>1, <2>2, <3>1, <3>2, DoomingRefines, DeletedRefines, AcceptedRefines
  <2>3. ASSUME NEW d \in Devices,
               \/ close(d) \/ KeepAlive(d) \/ PeerDisconnects(d) \/ Flushed(d)
        PROVE  [Life!Next]_(Life!vars)
    BY <1>1, <2>3, ClosingRefines
  <2>4. ASSUME NEW d \in Devices,
               \/ AwaitHeader(d) \/ EmptyPacket(d) \/ Kill(d) \/ Progress(d)
               \/ AwaitContent(d) \/ ReadContent(d) \/ CallbackReturns(d) \/ Silence(d)
               \/ TimerDeleted(d)
        PROVE  [Life!Next]_(Life!vars)
    BY <1>1, <2>4, HandlingRefines
  <2>5. ASSUME UNCHANGED dev PROVE [Life!Next]_(Life!vars)
    BY <2>5 DEF Life!vars
  <2>6. (\E d \in Devices : dataHandler(d) \/ LeaveLoop(d)) \/ Wait \/ WaitEnds
          \/ UNCHANGED vars => UNCHANGED dev
    BY DEF dataHandler, LeaveLoop, Wait, WaitEnds, vars
  <2> QED
    BY <2>1, <2>2, <2>3, <2>4, <2>5, <2>6 DEF Next
<1> QED
  BY <1>2, <1>3, Invariance, Lasts, PTL DEF Spec, ImplementsDeviceLife, Life!Spec
==============================================================================
