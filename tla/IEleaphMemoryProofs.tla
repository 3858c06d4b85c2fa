-------------------------- MODULE IEleaphMemoryProofs --------------------------
(***************************************************************************)
(* Who owns the packet of a device, whatever user code, peers, timers and  *)
(* deletions do: a device that is forgotten keeps nothing, and memory is   *)
(* corrupted in no other ways than OnlyHandlersCorrupt names.              *)
(***************************************************************************)
EXTENDS IEleaphProofs

Places == {"loop", "progress", "callback"}

\* dataHandler runs on d, in the stack s, and has reached the point at.
Runs(s, d, at) == \E i \in 1 .. Len(s) : s[i] = Handler(d, at)

\* One activation of dataHandler for each device; only the innermost is not in
\* user code.
Shaped(s) ==
  /\ \A i, j \in 1 .. Len(s) : \A d, at, to :
       s[i] = Handler(d, at) /\ s[j] = Handler(d, to) => i = j
  /\ \A i \in 1 .. Len(s) : \A d : s[i] = Handler(d, "loop") => i = Len(s)

\* A cached packet belongs to a registered device.
Holds(r) == r.pkt # "none" => r.alive = TRUE /\ r.reg = TRUE

\* The packet of d is where its handler, if there is one, has left it, or it is
\* gone with the registration or the device.
Owner(r, s, d) ==
  /\ r.pkt = "theirs" => Runs(s, d, "callback")
  /\ Runs(s, d, "callback") /\ r.alive = TRUE => r.pkt = "theirs"
  /\ Runs(s, d, "progress") => r.pkt \in {"content", "none"}
  /\ Runs(s, d, "loop") => r.alive = TRUE /\ r.reg = TRUE

Owned ==
  /\ Shaped(stack)
  /\ \A d \in Devices : Holds(dev[d])
  /\ Sound => \A d \in Devices : Owner(dev[d], stack, d)

\* What OnlyHandlersCorrupt says of d.
Excused(d) ==
  dev'[d].fault # dev[d].fault =>
    \/ UserCodeFor(d) /\ (dev[d].pkt = "none" \/ (dev[d].reg /\ ~dev'[d].reg))
    \/ Kill(d) /\ dev[d].reg

-----------------------------------------------------------------------------
(* The calls and signals, on device records.                               *)

\* They leave a device as registered as it was, with its packet, or remove it.
Same(t, r) ==
  t.alive = r.alive /\ t.reg = r.reg /\ t.pkt = r.pkt /\ t.fault = r.fault

Removed(t, r) ==
  /\ t.alive = r.alive /\ t.reg = FALSE /\ t.pkt = "none"
  /\ t.fault = IF r.pkt = "theirs" THEN "doubleDelete" ELSE r.fault

Outcome(t, r) == Same(t, r) \/ Removed(t, r)

LEMMA OutcomeTwice ==
  ASSUME NEW r, NEW s, NEW t, Outcome(s, r), Outcome(t, s)
  PROVE  Outcome(t, r)
<1>1. CASE Same(s, r)
  BY <1>1 DEF Outcome, Same, Removed
<1>2. CASE Removed(s, r)
  BY <1>2 DEF Outcome, Same, Removed
<1> QED
  BY <1>1, <1>2 DEF Outcome

LEMMA CutOutcome ==
  ASSUME LevelOK, NEW r \in Device
  PROVE  Removed(Cut(r, TRUE), r)
<1> DEFINE t == Cut(r, TRUE)
<1>1. /\ t.alive = r.alive /\ t.reg = FALSE /\ t.pkt = "none"
      /\ t.fault = IF r.pkt = "theirs" THEN "doubleDelete" ELSE r.fault
  BY CutFields
<1> HIDE DEF t
<1> QED
  BY <1>1 DEF Removed, t

LEMMA DeleteLaterOutcome ==
  ASSUME NEW r \in Device
  PROVE  Same(DeleteLater(r), r)
<1> DEFINE doomed == IF r.doomed = 0 THEN Level ELSE r.doomed
           t == [r EXCEPT !.doomed = doomed]
<1>1. DeleteLater(r) = t
  BY DEF DeleteLater
<1> HIDE DEF doomed
<1>2. t.alive = r.alive /\ t.reg = r.reg /\ t.pkt = r.pkt /\ t.fault = r.fault
  BY DEF Device
<1> HIDE DEF t
<1> QED
  BY <1>1, <1>2 DEF Same

LEMMA EmitOutcome ==
  ASSUME LevelOK, NEW r \in Device, Paired(r), NEW forget \in ForgetWires, NEW kill
  PROVE  Outcome(Emit(r, forget, kill), r)
<1> DEFINE s == IF forget \in r.wires THEN RemoveDevice(r) ELSE r
<1>1. s \in Device /\ Outcome(s, r)
  <2>1. CASE forget \in r.wires
    <3>1. r.reg = TRUE
      BY <2>1 DEF Paired
    <3>2. RemoveDevice(r) = Cut(r, TRUE) /\ RemoveDevice(r) \in Device
      BY <3>1, RemovingCuts, RemoveDeviceFine
    <3>3. Removed(Cut(r, TRUE), r)
      BY CutOutcome
    <3> QED
      BY <2>1, <3>2, <3>3 DEF Outcome
  <2>2. CASE forget \notin r.wires
    BY <2>2 DEF Outcome, Same
  <2> QED
    BY <2>1, <2>2
<1>2. Emit(r, forget, kill) = IF kill \in r.wires THEN DeleteLater(s) ELSE s
  BY DEF Emit
<1> HIDE DEF s
<1>3. Outcome(DeleteLater(s), s)
  BY <1>1, DeleteLaterOutcome DEF Outcome
<1>4. Outcome(DeleteLater(s), r)
  BY <1>1, <1>3, OutcomeTwice
<1> QED
  BY <1>1, <1>2, <1>4

LEMMA DisconnectedOutcome ==
  ASSUME LevelOK, NEW r, Fine(r)
  PROVE  Outcome(Disconnected(r), r)
<1> DEFINE s == [r EXCEPT !.link = "down"]
<1>1. r \in Device /\ Paired(r)
  BY DEF Fine
<1>2. /\ s \in Device /\ s.wires = r.wires /\ s.reg = r.reg /\ s.paired = r.paired
      /\ s.fault = r.fault /\ s.pkt = r.pkt /\ s.alive = r.alive
  BY <1>1 DEF Device
<1>3. "dropForget" \in ForgetWires /\ Disconnected(r) = Emit(s, "dropForget", "dropKill")
  BY DEF ForgetWires, Disconnected
<1> HIDE DEF s
<1>4. Paired(s) /\ Outcome(s, r)
  BY <1>1, <1>2 DEF Paired, Outcome, Same
<1>5. Outcome(Disconnected(r), s)
  BY <1>2, <1>3, <1>4, EmitOutcome
<1> QED
  BY <1>4, <1>5, OutcomeTwice

LEMMA CloseOutcome ==
  ASSUME LevelOK, NEW r, Fine(r), NEW unsent \in BOOLEAN
  PROVE  Outcome(Close(r, unsent), r)
<1> DEFINE a == AboutToClose(r)
           c == [a EXCEPT !.open = FALSE]
           closed == IF r.open THEN c ELSE r
           u == [closed EXCEPT !.link = "closing"]
<1>1. Fine(a) /\ a \in Device
  BY AboutToCloseFine DEF Fine
<1>2. Outcome(a, r)
  <2>1. "closeForget" \in ForgetWires /\ r \in Device /\ Paired(r)
    BY DEF ForgetWires, Fine
  <2> QED
    BY <2>1, EmitOutcome DEF AboutToClose
<1>3. Close(r, unsent) = IF r.link # "up" THEN closed
                         ELSE IF unsent THEN u ELSE Disconnected(closed)
  BY DEF Close
<1> HIDE DEF a
<1>4. /\ c \in Device /\ c.reg = a.reg /\ c.alive = a.alive /\ c.link = a.link
      /\ c.wires = a.wires /\ c.paired = a.paired /\ c.fault = a.fault /\ c.pkt = a.pkt
  BY <1>1 DEF Device
<1> HIDE DEF c
<1>5. Fine(c) /\ Outcome(c, a)
  BY <1>1, <1>4, TweakFine DEF Outcome, Same
<1>6. Fine(closed) /\ Outcome(closed, r)
  <2>1. Outcome(c, r) /\ Outcome(r, r)
    BY <1>2, <1>5, OutcomeTwice DEF Outcome, Same
  <2> QED
    BY <1>5, <2>1
<1> HIDE DEF closed
<1>7. Outcome(u, r)
  <2>1. u.reg = closed.reg /\ u.alive = closed.alive /\ u.fault = closed.fault
        /\ u.pkt = closed.pkt
    BY <1>6 DEF Fine, Device
  <2> HIDE DEF u
  <2>2. Outcome(u, closed)
    BY <2>1 DEF Outcome, Same
  <2> QED
    BY <1>6, <2>2, OutcomeTwice
<1>8. Outcome(Disconnected(closed), r)
  BY <1>6, DisconnectedOutcome, OutcomeTwice
<1> HIDE DEF u
<1> QED
  BY <1>3, <1>6, <1>7, <1>8

\* What happens to the packet when a device is removed or destroyed, and what
\* is left of it otherwise.
Ends(t, r) ==
  /\ t.alive = TRUE => r.alive = TRUE
  /\ t.fault # r.fault => r.pkt = "theirs" /\ t.reg = FALSE
  /\ \/ t.pkt = r.pkt /\ t.alive = r.alive /\ (r.reg = TRUE => t.reg = TRUE)
     \/ t.pkt = "none" /\ (r.pkt = "theirs" /\ t.alive = TRUE => t.fault # "none")

LEMMA OutcomeEnds ==
  ASSUME NEW r, NEW t, Outcome(t, r)
  PROVE  Ends(t, r)
<1>1. CASE Same(t, r)
  BY <1>1 DEF Same, Ends
<1>2. CASE Removed(t, r)
  BY <1>2 DEF Removed, Ends
<1> QED
  BY <1>1, <1>2 DEF Outcome

LEMMA DestroyEnds ==
  ASSUME LevelOK, NEW r, Fine(r)
  PROVE  Ends(Destroy(r), r)
<1> DEFINE s == CASE r.link = "up"      -> Close(r, FALSE)
                  [] r.link = "closing" -> Disconnected(r)
                  [] OTHER              -> r
           t == [s EXCEPT !.alive = FALSE, !.open = FALSE, !.wires = {}, !.pkt = "none",
                          !.timer = FALSE, !.seen = "invalid", !.dying = 0, !.doomed = 0]
<1>1. s \in Device /\ Outcome(s, r)
  <2>1. Close(r, FALSE) \in Device /\ Disconnected(r) \in Device /\ r \in Device
    BY CloseFine, DisconnectedFine DEF Fine
  <2>2. Outcome(Close(r, FALSE), r) /\ Outcome(Disconnected(r), r) /\ Outcome(r, r)
    BY CloseOutcome, DisconnectedOutcome DEF Outcome, Same
  <2>3. s = Close(r, FALSE) \/ s = Disconnected(r) \/ s = r
    OBVIOUS
  <2> HIDE DEF s
  <2> QED
    BY <2>1, <2>2, <2>3
<1>2. Destroy(r) = t
  BY DEF Destroy
<1> HIDE DEF s
<1>3. t.alive = FALSE /\ t.pkt = "none" /\ t.fault = s.fault /\ t.reg = s.reg
  BY <1>1 DEF Device
<1> HIDE DEF t
<1>4. Ends(s, r)
  BY <1>1, OutcomeEnds
<1> QED
  BY <1>2, <1>3, <1>4 DEF Ends

-----------------------------------------------------------------------------
(* The stack.                                                              *)

LEMMA Frames ==
  /\ \A d, at : at \in Places => Handler(d, at) # Nested
  /\ \A d, e, at, to : Handler(d, at) = Handler(e, to) => d = e /\ at = to
<1>1. ASSUME NEW d, NEW at \in Places PROVE Handler(d, at) # Nested
  <2>1. Handler(d, at).at = at /\ Nested.at = "eventLoop"
    BY DEF Handler, Nested
  <2> QED
    BY <2>1 DEF Places
<1>2. ASSUME NEW d, NEW e, NEW at, NEW to, Handler(d, at) = Handler(e, to)
      PROVE  d = e /\ at = to
  <2>1. /\ Handler(d, at).at = at /\ Handler(d, at).on = d
        /\ Handler(e, to).at = to /\ Handler(e, to).on = e
    BY DEF Handler
  <2> QED
    BY <1>2, <2>1
<1> QED
  BY <1>1, <1>2

LEMMA Pushed ==
  ASSUME NEW s \in Seq(Frame), NEW f \in Frame, Shaped(s), \A e : ~Runs(s, e, "loop")
  PROVE  /\ \A e, at : Runs(Append(s, f), e, at) <=> Runs(s, e, at) \/ f = Handler(e, at)
         /\ (\A e, at : f = Handler(e, at) => \A to : ~Runs(s, e, to)) => Shaped(Append(s, f))
<1> DEFINE n == Len(s)
           t == Append(s, f)
<1>1. n \in Nat /\ Len(t) = n + 1 /\ t[n + 1] = f /\ \A i \in 1 .. n : t[i] = s[i]
  OBVIOUS
<1>2. Len(s) = n
  OBVIOUS
<1> HIDE DEF n, t
<1>3. /\ \A i \in 1 .. n + 1 : i \in 1 .. n \/ i = n + 1
      /\ 1 .. n \subseteq 1 .. n + 1 /\ n + 1 \in 1 .. n + 1
  BY <1>1
<1>4. ASSUME NEW e, NEW at
      PROVE  Runs(t, e, at) <=> Runs(s, e, at) \/ f = Handler(e, at)
  BY <1>1, <1>2, <1>3 DEF Runs
<1>5. ASSUME \A e, at : f = Handler(e, at) => \A to : ~Runs(s, e, to)
      PROVE  Shaped(t)
  <2>1. ASSUME NEW i \in 1 .. n + 1, NEW j \in 1 .. n + 1, NEW d, NEW at, NEW to,
               t[i] = Handler(d, at), t[j] = Handler(d, to)
        PROVE  i = j
    <3>1. CASE i \in 1 .. n /\ j \in 1 .. n
      BY <1>1, <1>2, <2>1, <3>1 DEF Shaped
    <3>2. CASE i = n + 1 /\ j \in 1 .. n
      BY <1>1, <1>2, <1>5, <2>1, <3>2 DEF Runs
    <3>3. CASE i \in 1 .. n /\ j = n + 1
      BY <1>1, <1>2, <1>5, <2>1, <3>3 DEF Runs
    <3> QED
      BY <1>3, <3>1, <3>2, <3>3
  <2>2. ASSUME NEW i \in 1 .. n + 1, NEW d, t[i] = Handler(d, "loop")
        PROVE  i = n + 1
    BY <1>1, <1>2, <1>3, <2>2 DEF Runs
  <2> QED
    BY <1>1, <2>1, <2>2 DEF Shaped
<1> QED
  BY <1>4, <1>5 DEF t

\* The stack without its top.
Below(s) == SubSeq(s, 1, Len(s) - 1)

LEMMA Popped ==
  ASSUME NEW s \in Seq(Frame), s # << >>, Shaped(s)
  PROVE  /\ Below(s) \in Seq(Frame) /\ Shaped(Below(s))
         /\ \A e : ~Runs(Below(s), e, "loop")
         /\ \A e, at : Runs(Below(s), e, at) <=> Runs(s, e, at) /\ s[Len(s)] # Handler(e, at)
         /\ \A e, at, to : s[Len(s)] = Handler(e, to) => ~Runs(Below(s), e, at)
<1> DEFINE p == Below(s)
<1> DEFINE n == Len(s)
<1>1. n \in Nat /\ n >= 1 /\ Len(s) = n
  OBVIOUS
<1>2. /\ p \in Seq(Frame) /\ Len(p) = n - 1
      /\ \A i \in 1 .. n - 1 : p[i] = s[i]
  <2>1. p \in Seq(Frame) /\ p = [i \in 1 .. n - 1 |-> s[i]]
    BY <1>1 DEF Below
  <2>2. Len(p) = n - 1
    <3>1. Len(p) \in Nat /\ DOMAIN p = 1 .. Len(p) /\ DOMAIN p = 1 .. n - 1 /\ n - 1 \in Nat
      BY <1>1, <2>1
    <3> HIDE DEF n
    <3> QED
      BY <3>1
  <2> QED
    BY <2>1, <2>2
<1> HIDE DEF n, p
<1>3. /\ \A i \in 1 .. n : i \in 1 .. n - 1 \/ i = n
      /\ 1 .. n - 1 \subseteq 1 .. n /\ n \in 1 .. n /\ n \notin 1 .. n - 1
  BY <1>1
<1>4. ASSUME NEW e, NEW at, NEW to, s[n] = Handler(e, to) PROVE ~Runs(p, e, at)
  BY <1>1, <1>2, <1>3, <1>4 DEF Runs, Shaped
<1>5. ASSUME NEW e PROVE ~Runs(p, e, "loop")
  BY <1>1, <1>2, <1>3 DEF Runs, Shaped
<1>6. ASSUME NEW e, NEW at PROVE Runs(p, e, at) <=> Runs(s, e, at) /\ s[n] # Handler(e, at)
  <2>1. Runs(p, e, at) => Runs(s, e, at)
    BY <1>1, <1>2, <1>3 DEF Runs
  <2>2. Runs(s, e, at) /\ s[n] # Handler(e, at) => Runs(p, e, at)
    BY <1>1, <1>2, <1>3 DEF Runs
  <2> QED
    BY <1>4, <2>1, <2>2
<1>7. Shaped(p)
  BY <1>1, <1>2, <1>3, <1>5 DEF Shaped, Runs
<1> QED
  BY <1>1, <1>2, <1>4, <1>5, <1>6, <1>7 DEF p

\* While an event loop or user code runs, no activation is elsewhere.
LEMMA NoneInLoop ==
  ASSUME Owned, stack \in Seq(Frame),
         InEventLoop \/ \E e \in Devices : InUserCode(e)
  PROVE  \A d : ~Runs(stack, d, "loop")
<1> SUFFICES ASSUME NEW d, Runs(stack, d, "loop") PROVE FALSE
  OBVIOUS
<1>1. stack[Len(stack)] = Handler(d, "loop") /\ stack # << >>
  BY DEF Owned, Shaped, Runs
<1>2. Handler(d, "loop") # Nested
  BY Frames DEF Places
<1>3. \A e : Handler(d, "loop") # Handler(e, "progress") /\ Handler(d, "loop") # Handler(e, "callback")
  BY Frames
<1> QED
  BY <1>1, <1>2, <1>3 DEF InEventLoop, InUserCode, In, Top

LEMMA AtTop ==
  ASSUME stack \in Seq(Frame), NEW d, NEW at, In(d, at)
  PROVE  Runs(stack, d, at) /\ stack # << >> /\ stack[Len(stack)] = Handler(d, at)
<1>1. stack # << >> /\ stack[Len(stack)] = Handler(d, at)
  BY DEF In, Top
<1>2. Len(stack) \in 1 .. Len(stack)
  BY <1>1
<1> QED
  BY <1>1, <1>2 DEF Runs

LEMMA CallIsUserCode ==
  ASSUME NEW d, Runs(stack, d, "progress") \/ Runs(stack, d, "callback")
  PROVE  UserCodeFor(d)
BY DEF Runs, UserCodeFor

-----------------------------------------------------------------------------
(* Steps.                                                                  *)

\* A step that changes d only, and no activation but perhaps d's.
LEMMA OneDevice ==
  ASSUME IInv, Owned, Sound, NEW d \in Devices, NEW t, Become(d, t), Shaped(stack'),
         \A e \in Devices \ {d}, at \in Places : Runs(stack', e, at) <=> Runs(stack, e, at),
         Holds(t),
         t.fault = "none" => Owner(t, stack', d),
         t.fault # dev[d].fault =>
           \/ UserCodeFor(d) /\ (dev[d].pkt = "none" \/ (dev[d].reg = TRUE /\ t.reg = FALSE))
           \/ Kill(d) /\ dev[d].reg = TRUE
  PROVE  Owned' /\ \A e \in Devices : Excused(e)
<1>1. dev'[d] = t /\ \A e \in Devices \ {d} : dev'[e] = dev[e]
  BY DEF Become, IInv
<1>2. \A e \in Devices : Holds(dev'[e])
  BY <1>1 DEF Owned
<1>3. ASSUME Sound', NEW e \in Devices PROVE Owner(dev'[e], stack', e)
  <2>1. CASE e = d
    BY <1>1, <1>3, <2>1 DEF Sound
  <2>2. CASE e # d
    BY <1>1, <2>2 DEF Owned, Owner, Places
  <2> QED
    BY <2>1, <2>2
<1>4. \A e \in Devices : Excused(e)
  BY <1>1 DEF Excused
<1> QED
  BY <1>2, <1>3, <1>4 DEF Owned

\* A call, a signal or a deletion while no activation is in its loop.
LEMMA EndingOwned ==
  ASSUME IInv, Owned, Sound, NEW d \in Devices, NEW t, Become(d, t), UNCHANGED stack,
         Ends(t, dev[d]), ~Runs(stack, d, "loop")
  PROVE  Owned' /\ \A e \in Devices : Excused(e)
<1> DEFINE r == dev[d]
<1>1. /\ Shaped(stack') /\ Holds(r) /\ Owner(r, stack, d) /\ r.fault = "none"
  BY DEF Owned, Sound
<1>2. Ends(t, r)
  OBVIOUS
<1> HIDE DEF r
<1>3. Holds(t)
  BY <1>1, <1>2 DEF Holds, Ends
<1>4. t.fault = "none" => Owner(t, stack', d)
  BY <1>1, <1>2 DEF Owner, Ends
<1>5. t.fault # r.fault => UserCodeFor(d) /\ r.reg = TRUE /\ t.reg = FALSE
  BY <1>1, <1>2, CallIsUserCode DEF Owner, Ends, Holds
<1> QED
  BY <1>1, <1>3, <1>4, <1>5, OneDevice DEF r

\* What leaves the packet, the registration and the device alone.
LEMMA TweakingOwned ==
  ASSUME IInv, Owned, Sound, NEW d \in Devices, NEW t, Become(d, t), UNCHANGED stack,
         Same(t, dev[d])
  PROVE  Owned' /\ \A e \in Devices : Excused(e)
<1> DEFINE r == dev[d]
<1>1. /\ Shaped(stack') /\ Holds(r) /\ Owner(r, stack, d)
  BY DEF Owned
<1>2. Same(t, r)
  OBVIOUS
<1> HIDE DEF r
<1>3. Holds(t) /\ Owner(t, stack', d) /\ t.fault = r.fault
  BY <1>1, <1>2 DEF Holds, Owner, Same
<1> QED
  BY <1>1, <1>3, OneDevice DEF r

\* Only the stack changes.
LEMMA TurningOwned ==
  ASSUME IInv, Owned, Sound, UNCHANGED dev, Shaped(stack'),
         \A d \in Devices :
           /\ Runs(stack', d, "callback") <=> Runs(stack, d, "callback")
           /\ Runs(stack', d, "progress") => Runs(stack, d, "progress")
           /\ Runs(stack', d, "loop") /\ ~Runs(stack, d, "loop") =>
                dev[d].alive = TRUE /\ dev[d].reg = TRUE
  PROVE  Owned' /\ \A e \in Devices : Excused(e)
<1>1. \A d \in Devices : Owner(dev[d], stack', d)
  BY DEF Owned, Owner
<1> QED
  BY <1>1 DEF Owned, Excused

\* The application's calls, and events.
LEMMA OutsideOwned ==
  ASSUME IInv, Owned, Sound, NEW d \in Devices,
         \/ removeDevice(d) \/ close(d) \/ deleteLater(d) \/ KeepAlive(d)
         \/ PeerDisconnects(d) \/ Flushed(d) \/ Deleted(d)
  PROVE  Owned' /\ \A e \in Devices : Excused(e)
<1>1. Fine(dev[d]) /\ dev[d] \in Device /\ LevelOK /\ stack \in Seq(Frame)
  BY DEF IInv, Fine
<1>2. UNCHANGED stack /\ ~Runs(stack, d, "loop")
  BY <1>1, NoneInLoop
     DEF removeDevice, close, deleteLater, KeepAlive, PeerDisconnects, Flushed, Deleted, May
<1>3. CASE removeDevice(d)
  <2>1. Become(d, Cut(dev[d], TRUE))
    BY <1>1, <1>3, RemovingCuts DEF removeDevice, Dropped, Fine
  <2>2. Ends(Cut(dev[d], TRUE), dev[d])
    BY <1>1, CutOutcome, OutcomeEnds DEF Outcome
  <2> QED
    BY <1>2, <2>1, <2>2, EndingOwned
<1>4. CASE close(d) \/ KeepAlive(d)
  <2>1. PICK unsent \in BOOLEAN : Become(d, Close(dev[d], unsent))
    BY <1>4 DEF close, KeepAlive
  <2>2. Ends(Close(dev[d], unsent), dev[d])
    BY <1>1, CloseOutcome, OutcomeEnds
  <2> QED
    BY <1>2, <2>1, <2>2, EndingOwned
<1>5. CASE deleteLater(d)
  <2>1. Become(d, DeleteLater(dev[d]))
    BY <1>5 DEF deleteLater
  <2>2. Same(DeleteLater(dev[d]), dev[d])
    BY <1>1, DeleteLaterOutcome
  <2> QED
    BY <1>2, <2>1, <2>2, TweakingOwned
<1>6. CASE PeerDisconnects(d) \/ Flushed(d)
  <2>1. Become(d, Disconnected(dev[d]))
    BY <1>6 DEF PeerDisconnects, Flushed
  <2>2. Ends(Disconnected(dev[d]), dev[d])
    BY <1>1, DisconnectedOutcome, OutcomeEnds
  <2> QED
    BY <1>2, <2>1, <2>2, EndingOwned
<1>7. CASE Deleted(d)
  <2>1. Become(d, Destroy(dev[d]))
    BY <1>7 DEF Deleted
  <2>2. Ends(Destroy(dev[d]), dev[d])
    BY <1>1, DestroyEnds
  <2> QED
    BY <1>2, <2>1, <2>2, EndingOwned
<1> QED
  BY <1>3, <1>4, <1>5, <1>6, <1>7

LEMMA PassingOwned ==
  ASSUME IInv, Owned, Sound, NEW d \in Devices, Silence(d) \/ TimerDeleted(d)
  PROVE  Owned' /\ \A e \in Devices : Excused(e)
<1> DEFINE s == [dev[d] EXCEPT !.seen = "old"]
           t == [dev[d] EXCEPT !.dying = 0]
<1>1. UNCHANGED stack /\ (Become(d, s) \/ Become(d, t))
  BY DEF Silence, TimerDeleted
<1>2. Same(s, dev[d]) /\ Same(t, dev[d])
  BY DEF IInv, Device, Same
<1> HIDE DEF s, t
<1> QED
  BY <1>1, <1>2, TweakingOwned

LEMMA AddingOwned ==
  ASSUME IInv, Owned, Sound, NEW d \in Devices, NEW opts \in ForgetOptions, NEW ka \in BOOLEAN,
         addDevice(d, opts, ka)
  PROVE  Owned' /\ \A e \in Devices : Excused(e)
<1> DEFINE r == dev[d]
           timer == r.timer \/ ka
           seen == IF ka THEN "fresh" ELSE r.seen
           wires == r.wires \cup opts
           t == [r EXCEPT !.wires = wires, !.timer = timer, !.seen = seen, !.reg = TRUE]
<1>1. r \in Device /\ stack \in Seq(Frame)
  BY DEF IInv
<1>2. Become(d, t) /\ UNCHANGED stack /\ ~Runs(stack, d, "loop")
  BY <1>1, NoneInLoop DEF addDevice
<1> HIDE DEF r, timer, seen, wires
<1>3. t.alive = r.alive /\ t.reg = TRUE /\ t.pkt = r.pkt /\ t.fault = r.fault
  BY <1>1 DEF Device
<1> HIDE DEF t
<1>4. Ends(t, r)
  BY <1>3 DEF Ends
<1> QED
  BY <1>2, <1>4, EndingOwned DEF r

LEMMA AcceptingOwned ==
  ASSUME IInv, Owned, Sound, NEW d \in Devices, Accepted(d)
  PROVE  Owned' /\ \A e \in Devices : Excused(e)
<1> DEFINE t == [NewDevice EXCEPT !.reg = dev[d].reg]
<1>1. Become(d, t) /\ UNCHANGED stack /\ ~Active(d)
  BY DEF Accepted
<1>2. t.fault = "none" /\ t.pkt = "none"
  BY DEF NewDevice
<1> HIDE DEF t
<1>3. \A at \in Places : ~Runs(stack, d, at)
  <2> SUFFICES ASSUME NEW at \in Places, NEW i \in 1 .. Len(stack), stack[i] = Handler(d, at)
               PROVE  FALSE
    BY DEF Runs
  <2>1. stack[i] # Nested /\ stack[i].on = d
    BY Frames DEF Handler
  <2> QED
    BY <1>1, <2>1 DEF Active
<1>4. Holds(t) /\ Owner(t, stack', d)
  BY <1>1, <1>2, <1>3 DEF Holds, Owner, Places
<1>5. Shaped(stack') /\ t.fault = dev[d].fault
  BY <1>1, <1>2 DEF Owned, Sound
<1> QED
  BY <1>1, <1>4, <1>5, OneDevice

-----------------------------------------------------------------------------
(* The activations of dataHandler.                                         *)

\* An activation whose frame is on top is at one place, and returns or goes on.
LEMMA OnlyThere ==
  ASSUME Owned, stack \in Seq(Frame), NEW d, NEW at, In(d, at)
  PROVE  \A to : Runs(stack, d, to) => to = at
<1> SUFFICES ASSUME NEW to, Runs(stack, d, to) PROVE to = at
  OBVIOUS
<1>1. PICK i \in 1 .. Len(stack) : stack[i] = Handler(d, to)
  BY DEF Runs
<1>2. PICK j \in 1 .. Len(stack) : stack[j] = Handler(d, at)
  BY AtTop DEF Runs
<1>3. i = j
  BY <1>1, <1>2 DEF Owned, Shaped
<1> QED
  BY <1>1, <1>2, <1>3, Frames

LEMMA PoppedReturn ==
  ASSUME Owned, stack \in Seq(Frame), stack # << >>
  PROVE  /\ Return \in Seq(Frame) /\ Shaped(Return)
         /\ \A e : ~Runs(Return, e, "loop")
         /\ \A e, at : Runs(Return, e, at) <=> Runs(stack, e, at) /\ Top # Handler(e, at)
         /\ \A e, at, to : Top = Handler(e, to) => ~Runs(Return, e, at)
<1>1. Return = Below(stack) /\ Shaped(stack)
  BY DEF Return, Below, Owned
<1> QED
  BY <1>1, Popped DEF Top

LEMMA Returns ==
  ASSUME Owned, stack \in Seq(Frame), NEW d, NEW at, In(d, at), stack' = Return
  PROVE  /\ Shaped(stack')
         /\ \A to : ~Runs(stack', d, to)
         /\ \A e \in Devices \ {d}, to \in Places : Runs(stack', e, to) <=> Runs(stack, e, to)
<1>1. stack # << >> /\ Top = Handler(d, at)
  BY DEF In
<1>2. /\ Shaped(Return)
      /\ \A e, to : Runs(Return, e, to) <=> Runs(stack, e, to) /\ Top # Handler(e, to)
      /\ \A to : ~Runs(Return, d, to)
  BY <1>1, PoppedReturn
<1>3. \A e, to : e # d => Handler(d, at) # Handler(e, to)
  BY Frames
<1> QED
  BY <1>1, <1>2, <1>3

LEMMA GoesOn ==
  ASSUME Owned, stack \in Seq(Frame), NEW d \in Devices, NEW at, In(d, at),
         NEW x \in Places, stack' = GoTo(d, x)
  PROVE  /\ Shaped(stack')
         /\ \A to : Runs(stack', d, to) <=> to = x
         /\ \A e \in Devices \ {d}, to \in Places : Runs(stack', e, to) <=> Runs(stack, e, to)
<1>1. stack # << >> /\ Top = Handler(d, at)
  BY DEF In
<1>2. /\ Return \in Seq(Frame) /\ Shaped(Return)
      /\ \A e : ~Runs(Return, e, "loop")
      /\ \A e, to : Runs(Return, e, to) <=> Runs(stack, e, to) /\ Top # Handler(e, to)
      /\ \A to : ~Runs(Return, d, to)
  BY <1>1, PoppedReturn
<1>3. Handler(d, x) \in Frame
  BY DEF Handler, Frame, Places
<1>4. \A e, to, y : Handler(d, y) = Handler(e, to) => d = e /\ y = to
  BY Frames
<1>5. /\ \A e, to : Runs(stack', e, to) <=> Runs(Return, e, to) \/ Handler(d, x) = Handler(e, to)
      /\ (\A e, to : Handler(d, x) = Handler(e, to) => \A y : ~Runs(Return, e, y)) => Shaped(stack')
  BY <1>2, <1>3, Pushed DEF GoTo
<1>6. Shaped(stack')
  BY <1>2, <1>4, <1>5
<1>7. \A to : Runs(stack', d, to) <=> to = x
  BY <1>2, <1>4, <1>5
<1>8. \A e \in Devices \ {d}, to \in Places : Runs(stack', e, to) <=> Runs(stack, e, to)
  BY <1>1, <1>2, <1>4, <1>5
<1> QED
  BY <1>6, <1>7, <1>8

\* dataHandler is called, or leaves its loop; event loops begin and end.
LEMMA StackOwned ==
  ASSUME IInv, Owned, Sound,
         Wait \/ WaitEnds \/ \E d \in Devices : dataHandler(d) \/ LeaveLoop(d)
  PROVE  Owned' /\ \A e \in Devices : Excused(e)
<1>1. stack \in Seq(Frame) /\ Shaped(stack)
  BY DEF IInv, Owned
<1>2. CASE Wait
  <2>1. /\ UNCHANGED dev /\ stack' = Append(stack, Nested)
        /\ InEventLoop \/ \E e \in Devices : InUserCode(e)
    BY <1>2 DEF Wait
  <2>2. Nested \in Frame /\ \A e : ~Runs(stack, e, "loop")
    BY <1>1, <2>1, NoneInLoop DEF Frame
  <2>3. \A e, at : Runs(stack', e, at) <=> Runs(stack, e, at) \/ Nested = Handler(e, at)
    BY <1>1, <2>1, <2>2, Pushed
  <2>6. \A e, at : Nested # Handler(e, at)
    <3>1. \A e, at : "on" \in DOMAIN Handler(e, at)
      BY DEF Handler
    <3>2. "on" \notin DOMAIN Nested
      BY DEF Nested
    <3> QED
      BY <3>1, <3>2
  <2>7. Shaped(stack')
    BY <1>1, <2>1, <2>2, <2>6, Pushed
  <2>8. \A e \in Devices :
          /\ Runs(stack', e, "callback") <=> Runs(stack, e, "callback")
          /\ Runs(stack', e, "progress") => Runs(stack, e, "progress")
          /\ Runs(stack', e, "loop") /\ ~Runs(stack, e, "loop") =>
               dev[e].alive = TRUE /\ dev[e].reg = TRUE
    BY <2>3, <2>6
  <2> QED
    BY <2>1, <2>7, <2>8, TurningOwned
<1>3. CASE WaitEnds
  <2>1. UNCHANGED dev /\ stack # << >> /\ Top = Nested /\ stack' = Return
    BY <1>3 DEF WaitEnds
  <2>2. /\ Shaped(stack')
        /\ \A e, at : Runs(stack', e, at) <=> Runs(stack, e, at) /\ Nested # Handler(e, at)
    BY <1>1, <2>1, PoppedReturn
  <2>3. \A e : Nested # Handler(e, "callback")
    BY Frames DEF Places
  <2>4. \A e \in Devices :
          /\ Runs(stack', e, "callback") <=> Runs(stack, e, "callback")
          /\ Runs(stack', e, "progress") => Runs(stack, e, "progress")
          /\ Runs(stack', e, "loop") /\ ~Runs(stack, e, "loop") =>
               dev[e].alive = TRUE /\ dev[e].reg = TRUE
    BY <2>2, <2>3
  <2> QED
    BY <2>1, <2>2, <2>4, TurningOwned
<1>4. ASSUME NEW d \in Devices, dataHandler(d) PROVE Owned' /\ \A e \in Devices : Excused(e)
  <2>1. /\ UNCHANGED dev /\ stack' = Append(stack, Handler(d, "loop")) /\ InEventLoop
        /\ dev[d].alive /\ dev[d].reg /\ ~Active(d)
    BY <1>4 DEF dataHandler
  <2>2. Handler(d, "loop") \in Frame /\ \A e : ~Runs(stack, e, "loop")
    BY <1>1, <2>1, NoneInLoop DEF Frame, Handler
  <2>3. \A to : ~Runs(stack, d, to)
    <3> SUFFICES ASSUME NEW to, NEW i \in 1 .. Len(stack), stack[i] = Handler(d, to)
                 PROVE  FALSE
      BY DEF Runs
    <3>1. "on" \in DOMAIN Handler(d, to) /\ "on" \notin DOMAIN Nested /\ Handler(d, to).on = d
      BY DEF Handler, Nested
    <3>2. stack[i] # Nested /\ stack[i].on = d
      BY <3>1
    <3> QED
      BY <2>1, <3>2 DEF Active
  <2>4. \A e, to : Handler(d, "loop") = Handler(e, to) => d = e /\ "loop" = to
    BY Frames
  <2>5. \A e, at : Runs(stack', e, at) <=> Runs(stack, e, at) \/ Handler(d, "loop") = Handler(e, at)
    BY <1>1, <2>1, <2>2, Pushed
  <2>6. Shaped(stack')
    BY <1>1, <2>1, <2>2, <2>3, <2>4, Pushed
  <2>7. dev[d].alive = TRUE /\ dev[d].reg = TRUE
    BY <2>1 DEF IInv, Device
  <2>8. \A e \in Devices :
          /\ Runs(stack', e, "callback") <=> Runs(stack, e, "callback")
          /\ Runs(stack', e, "progress") => Runs(stack, e, "progress")
          /\ Runs(stack', e, "loop") /\ ~Runs(stack, e, "loop") =>
               dev[e].alive = TRUE /\ dev[e].reg = TRUE
    BY <2>4, <2>5, <2>7
  <2> QED
    BY <2>1, <2>6, <2>8, TurningOwned
<1>5. ASSUME NEW d \in Devices, LeaveLoop(d) PROVE Owned' /\ \A e \in Devices : Excused(e)
  <2>1. UNCHANGED dev /\ In(d, "loop") /\ stack' = Return
    BY <1>5 DEF LeaveLoop
  <2>2. /\ Shaped(stack') /\ \A to : ~Runs(stack', d, to)
        /\ \A e \in Devices \ {d}, to \in Places : Runs(stack', e, to) <=> Runs(stack, e, to)
    BY <1>1, <2>1, Returns
  <2>3. ~Runs(stack, d, "callback")
    BY <1>1, <2>1, OnlyThere
  <2>4. \A e \in Devices :
          /\ Runs(stack', e, "callback") <=> Runs(stack, e, "callback")
          /\ Runs(stack', e, "progress") => Runs(stack, e, "progress")
          /\ Runs(stack', e, "loop") /\ ~Runs(stack, e, "loop") =>
               dev[e].alive = TRUE /\ dev[e].reg = TRUE
    BY <2>2, <2>3 DEF Places
  <2> QED
    BY <2>1, <2>2, <2>4, TurningOwned
<1> QED
  BY <1>2, <1>3, <1>4, <1>5

\* In its loop, a handler has a registered device and no packet of the user's.
LEMMA InLoop ==
  ASSUME IInv, Owned, Sound, NEW d \in Devices, In(d, "loop")
  PROVE  /\ dev[d].alive = TRUE /\ dev[d].reg = TRUE /\ dev[d].pkt # "theirs"
         /\ Shaped(stack) /\ \A to : Runs(stack, d, to) => to = "loop"
<1>1. stack \in Seq(Frame)
  BY DEF IInv
<1>2. Runs(stack, d, "loop") /\ \A to : Runs(stack, d, to) => to = "loop"
  BY <1>1, AtTop, OnlyThere
<1> QED
  BY <1>2 DEF Owned, Owner

\* The header, a ping, and the call of packetDownloadProcess.
LEMMA HeaderOwned ==
  ASSUME IInv, Owned, Sound, NEW d \in Devices, AwaitHeader(d) \/ EmptyPacket(d) \/ Progress(d)
  PROVE  Owned' /\ \A e \in Devices : Excused(e)
<1>1. stack \in Seq(Frame) /\ dev[d] \in Device /\ In(d, "loop")
  BY DEF IInv, AwaitHeader, EmptyPacket, Progress, HeaderPending
<1>2. /\ dev[d].alive = TRUE /\ dev[d].reg = TRUE /\ dev[d].pkt # "theirs"
      /\ Shaped(stack) /\ \A to : Runs(stack, d, to) => to = "loop"
  BY <1>1, InLoop
<1> DEFINE r == dev[d]
           Stays(t) == t.alive = TRUE /\ t.reg = TRUE /\ t.fault = r.fault
<1>3. ASSUME NEW p \in {"none", "header", "content"}
      PROVE  /\ Stays([r EXCEPT !.pkt = p]) /\ [r EXCEPT !.pkt = p].pkt = p
             /\ Stays([Touch(r) EXCEPT !.pkt = p]) /\ [Touch(r) EXCEPT !.pkt = p].pkt = p
  BY <1>1, <1>2 DEF Device, Touch
<1>4. CASE AwaitHeader(d)
  <2> DEFINE t == [r EXCEPT !.pkt = "header"]
  <2>1. Become(d, t) /\ stack' = Return
    BY <1>4 DEF AwaitHeader
  <2>2. Stays(t) /\ t.pkt = "header"
    BY <1>3
  <2> HIDE DEF t
  <2>3. /\ Shaped(stack') /\ \A to : ~Runs(stack', d, to)
        /\ \A e \in Devices \ {d}, to \in Places : Runs(stack', e, to) <=> Runs(stack, e, to)
    BY <1>1, <2>1, Returns
  <2>4. Holds(t) /\ Owner(t, stack', d)
    BY <2>2, <2>3 DEF Holds, Owner
  <2> QED
    BY <2>1, <2>2, <2>3, <2>4, OneDevice
<1>5. CASE EmptyPacket(d)
  <2> DEFINE t == [Touch(r) EXCEPT !.pkt = "none"]
  <2>1. Become(d, t) /\ UNCHANGED stack
    BY <1>5 DEF EmptyPacket
  <2>2. Stays(t) /\ t.pkt = "none"
    BY <1>3
  <2> HIDE DEF t
  <2>3. Holds(t) /\ Owner(t, stack', d)
    BY <1>2, <2>1, <2>2 DEF Holds, Owner
  <2> QED
    BY <1>2, <2>1, <2>2, <2>3, OneDevice
<1>6. CASE Progress(d)
  <2> DEFINE t == [Touch(r) EXCEPT !.pkt = "content"]
  <2>1. Become(d, t) /\ stack' = GoTo(d, "progress")
    BY <1>2, <1>6 DEF Progress
  <2>2. Stays(t) /\ t.pkt = "content"
    BY <1>3
  <2> HIDE DEF t
  <2>3. /\ Shaped(stack') /\ \A to : Runs(stack', d, to) <=> to = "progress"
        /\ \A e \in Devices \ {d}, to \in Places : Runs(stack', e, to) <=> Runs(stack, e, to)
    BY <1>1, <2>1, GoesOn DEF Places
  <2>4. Holds(t) /\ Owner(t, stack', d)
    BY <2>2, <2>3 DEF Holds, Owner
  <2> QED
    BY <2>1, <2>2, <2>3, <2>4, OneDevice
<1> QED
  BY <1>4, <1>5, <1>6

\* A registered device is killed.
LEMMA KillOwned ==
  ASSUME IInv, Owned, Sound, NEW d \in Devices, Kill(d)
  PROVE  Owned' /\ \A e \in Devices : Excused(e)
<1>1. Fine(dev[d]) /\ dev[d] \in Device /\ LevelOK /\ In(d, "loop") /\ UNCHANGED stack
  BY DEF IInv, Fine, Kill, HeaderPending
<1>2. /\ dev[d].alive = TRUE /\ dev[d].reg = TRUE
      /\ Shaped(stack) /\ \A to : Runs(stack, d, to) => to = "loop"
  BY <1>1, InLoop
<1>3. PICK unsent \in BOOLEAN :
        LET r == Close([dev[d] EXCEPT !.pkt = "header"], unsent)
        IN  Become(d, [(IF r.pkt = "none" THEN Fault(r, "doubleDelete") ELSE r)
                       EXCEPT !.pkt = "none"])
  BY DEF Kill
<1> DEFINE h == [dev[d] EXCEPT !.pkt = "header"]
           r == Close(h, unsent)
           s == IF r.pkt = "none" THEN Fault(r, "doubleDelete") ELSE r
           t == [s EXCEPT !.pkt = "none"]
<1>4. /\ Fine(h) /\ h.pkt = "header" /\ h.alive = TRUE /\ h.reg = TRUE
      /\ Become(d, t)
  BY <1>1, <1>2, <1>3, HandlerFine DEF Device
<1> HIDE DEF h
<1>5. Outcome(r, h) /\ r \in Device
  BY <1>1, <1>4, CloseOutcome, CloseFine DEF Fine
<1> HIDE DEF r
<1>6. /\ t.pkt = "none" /\ t.alive = r.alive /\ t.reg = r.reg
      /\ r.pkt = "none" => t.fault = "doubleDelete"
  BY <1>5 DEF Fault, Device
<1> HIDE DEF t
<1>7. Holds(t) /\ (t.fault = "none" => Owner(t, stack', d))
  <2>1. t.fault = "none" => t.alive = TRUE /\ t.reg = TRUE
    BY <1>4, <1>5, <1>6 DEF Outcome, Same, Removed
  <2> QED
    BY <1>1, <1>2, <1>6, <2>1 DEF Holds, Owner
<1> QED
  BY <1>1, <1>2, <1>4, <1>7, OneDevice

\* packetDownloadProcess returns.
LEMMA ContentOwned ==
  ASSUME IInv, Owned, Sound, NEW d \in Devices, AwaitContent(d) \/ ReadContent(d)
  PROVE  Owned' /\ \A e \in Devices : Excused(e)
<1>1. stack \in Seq(Frame) /\ dev[d] \in Device /\ In(d, "progress")
  BY DEF IInv, AwaitContent, ReadContent
<1> DEFINE r == dev[d]
           f == Fault(r, "useAfterFree")
           c == [r EXCEPT !.pkt = "theirs"]
<1>2. Holds(r) /\ Runs(stack, d, "progress") /\ r.pkt \in {"content", "none"}
  BY <1>1, AtTop DEF Owned, Owner
<1>3. UserCodeFor(d)
  BY <1>2, CallIsUserCode
<1>4. PacketLost(d) => r.pkt = "none"
  BY <1>1, <1>2 DEF PacketLost, Holds, Device
<1>5. ~PacketLost(d) => r.pkt = "content" /\ r.alive = TRUE /\ r.reg = TRUE
  BY <1>1, <1>2 DEF PacketLost, Holds, Device
<1>6. /\ f.fault # "none" /\ f.pkt = r.pkt /\ f.alive = r.alive /\ f.reg = r.reg
      /\ c.fault = r.fault /\ c.pkt = "theirs" /\ c.alive = r.alive /\ c.reg = r.reg
  BY <1>1 DEF Fault, Device
<1>7. CASE AwaitContent(d)
  <2>1. Become(d, IF PacketLost(d) THEN f ELSE r) /\ stack' = Return
    BY <1>7 DEF AwaitContent
  <2> HIDE DEF f, r
  <2>2. /\ Shaped(stack') /\ \A to : ~Runs(stack', d, to)
        /\ \A e \in Devices \ {d}, to \in Places : Runs(stack', e, to) <=> Runs(stack, e, to)
    BY <1>1, <2>1, Returns
  <2>3. Holds(f)
    BY <1>2, <1>6 DEF Holds
  <2>4. CASE PacketLost(d)
    BY <1>3, <1>4, <1>6, <2>1, <2>2, <2>3, <2>4, OneDevice DEF r
  <2>5. CASE ~PacketLost(d)
    <3>1. Owner(r, stack', d)
      BY <1>5, <2>2, <2>5 DEF Owner
    <3> QED
      BY <1>2, <2>1, <2>2, <2>5, <3>1, OneDevice DEF r
  <2> QED
    BY <2>4, <2>5
<1>8. CASE ReadContent(d)
  <2>1. Become(d, IF PacketLost(d) THEN f ELSE c) /\ stack' = GoTo(d, "callback")
    BY <1>8 DEF ReadContent
  <2> HIDE DEF f, c, r
  <2>2. /\ Shaped(stack') /\ \A to : Runs(stack', d, to) <=> to = "callback"
        /\ \A e \in Devices \ {d}, to \in Places : Runs(stack', e, to) <=> Runs(stack, e, to)
    BY <1>1, <2>1, GoesOn DEF Places
  <2>3. Holds(f)
    BY <1>2, <1>6 DEF Holds
  <2>4. CASE PacketLost(d)
    BY <1>3, <1>4, <1>6, <2>1, <2>2, <2>3, <2>4, OneDevice DEF r
  <2>5. CASE ~PacketLost(d)
    <3>1. Holds(c) /\ Owner(c, stack', d)
      BY <1>5, <1>6, <2>2, <2>5 DEF Owner, Holds
    <3> QED
      BY <1>6, <2>1, <2>2, <2>5, <3>1, OneDevice DEF r
  <2> QED
    BY <2>4, <2>5
<1> QED
  BY <1>7, <1>8

\* newDataPacketReceived returns.
LEMMA CallbackOwned ==
  ASSUME IInv, Owned, Sound, NEW d \in Devices, CallbackReturns(d)
  PROVE  Owned' /\ \A e \in Devices : Excused(e)
<1>1. stack \in Seq(Frame) /\ dev[d] \in Device /\ In(d, "callback")
  BY DEF IInv, CallbackReturns
<1> DEFINE r == dev[d]
           f == Fault(r, "useAfterFree")
           c == [r EXCEPT !.pkt = "none"]
<1>2. Holds(r) /\ Runs(stack, d, "callback") /\ Owner(r, stack, d)
  BY <1>1, AtTop DEF Owned
<1>3. UserCodeFor(d)
  BY <1>2, CallIsUserCode
<1>4. /\ ~r.alive => r.pkt = "none"
      /\ r.alive => r.alive = TRUE /\ r.reg = TRUE
  BY <1>1, <1>2 DEF Owner, Holds, Device
<1>5. /\ f.fault # "none" /\ f.pkt = r.pkt /\ f.alive = r.alive /\ f.reg = r.reg
      /\ c.fault = r.fault /\ c.pkt = "none" /\ c.alive = r.alive /\ c.reg = r.reg
  BY <1>1 DEF Fault, Device
<1>6. Become(d, IF ~r.alive THEN f ELSE c) /\ stack' = GoTo(d, "loop")
  BY DEF CallbackReturns
<1> HIDE DEF f, c, r
<1>7. /\ Shaped(stack') /\ \A to : Runs(stack', d, to) <=> to = "loop"
      /\ \A e \in Devices \ {d}, to \in Places : Runs(stack', e, to) <=> Runs(stack, e, to)
  BY <1>1, <1>6, GoesOn DEF Places
<1>8. CASE ~r.alive
  <2>1. Holds(f)
    BY <1>2, <1>5 DEF Holds
  <2> QED
    BY <1>3, <1>4, <1>5, <1>6, <1>7, <1>8, <2>1, OneDevice DEF r
<1>9. CASE r.alive
  <2>1. Holds(c) /\ Owner(c, stack', d)
    BY <1>4, <1>5, <1>7, <1>9 DEF Owner, Holds
  <2> QED
    BY <1>5, <1>6, <1>7, <1>9, <2>1, OneDevice DEF r
<1> QED
  BY <1>8, <1>9

-----------------------------------------------------------------------------
LEMMA StepOwned ==
  ASSUME IInv, Owned, [Next]_vars
  PROVE  Owned' /\ [\A e \in Devices : Excused(e)]_vars
<1>1. CASE UNCHANGED vars
  <2>1. UNCHANGED stack /\ dev' = dev
    BY <1>1 DEF vars
  <2>2. Owned'
    BY <2>1 DEF Owned, Sound
  <2> QED
    BY <1>1, <2>2
<1>2. CASE Next
  <2>1. Sound
    BY <1>2 DEF Next
  <2>2. ASSUME NEW d \in Devices, NEW opts \in ForgetOptions, NEW ka \in BOOLEAN,
               addDevice(d, opts, ka)
        PROVE  Owned' /\ \A e \in Devices : Excused(e)
    BY <2>1, <2>2, AddingOwned
  <2>3. ASSUME NEW d \in Devices,
               \/ removeDevice(d) \/ close(d) \/ deleteLater(d) \/ KeepAlive(d)
               \/ PeerDisconnects(d) \/ Flushed(d) \/ Deleted(d)
        PROVE  Owned' /\ \A e \in Devices : Excused(e)
    BY <2>1, <2>3, OutsideOwned
  <2>4. ASSUME NEW d \in Devices, Silence(d) \/ TimerDeleted(d) \/ Accepted(d)
        PROVE  Owned' /\ \A e \in Devices : Excused(e)
    BY <2>1, <2>4, PassingOwned, AcceptingOwned
  <2>5. ASSUME NEW d \in Devices,
               \/ AwaitHeader(d) \/ EmptyPacket(d) \/ Kill(d) \/ Progress(d)
               \/ AwaitContent(d) \/ ReadContent(d) \/ CallbackReturns(d)
        PROVE  Owned' /\ \A e \in Devices : Excused(e)
    BY <2>1, <2>5, HeaderOwned, KillOwned, ContentOwned, CallbackOwned
  <2>6. CASE Wait \/ WaitEnds \/ \E d \in Devices : dataHandler(d) \/ LeaveLoop(d)
    BY <2>1, <2>6, StackOwned
  <2> QED
    BY <1>2, <2>2, <2>3, <2>4, <2>5, <2>6 DEF Next
<1> QED
  BY <1>1, <1>2

LEMMA OwnedFirst ==
  ASSUME Init
  PROVE  Owned
<1>1. stack = << >> /\ Len(stack) = 0 /\ \A d \in Devices : dev[d] = NewDevice
  BY DEF Init
<1>2. NewDevice.pkt = "none"
  BY DEF NewDevice
<1>3. \A d, at : ~Runs(stack, d, at)
  BY <1>1 DEF Runs
<1> QED
  BY <1>1, <1>2, <1>3 DEF Owned, Shaped, Holds, Owner

\* Whatever user code, timers, signals, peers and deletions do, a device that is
\* no longer registered keeps no packet, no timer and no connection to
\* removeDevice.
THEOREM NothingIsKept == Spec => []ForgottenIsClean
<1>1. IInv /\ Ongoing /\ Owned => ForgottenIsClean
  BY DEF IInv, Fine, Paired, Device, Ongoing, Lasting, Clocked, Owned, Holds, ForgottenIsClean
<1> QED
  BY <1>1, OwnedFirst, StepOwned, Invariance, Lasts, PTL DEF Spec

\* Memory is corrupted in no other ways than by removing or destroying a device
\* under its own handler, and by killing a registered device for an oversized
\* packet: for any devices, options, user code, nesting of event loops and
\* coincidence of closing, disconnecting, timers and deletions.
THEOREM HandlersAloneCorrupt == Spec => OnlyHandlersCorrupt
<1>1. IInv /\ Owned /\ [Next]_vars => Owned'
  BY StepOwned
<1>2. IInv /\ Owned /\ [Next]_vars =>
        [\A d \in Devices : dev'[d].fault # dev[d].fault =>
           \/ UserCodeFor(d) /\ (dev[d].pkt = "none" \/ (dev[d].reg /\ ~dev'[d].reg))
           \/ Kill(d) /\ dev[d].reg]_vars
  BY StepOwned DEF Excused
<1> QED
  BY <1>1, <1>2, OwnedFirst, Invariance, PTL DEF Spec, OnlyHandlersCorrupt
================================================================================
