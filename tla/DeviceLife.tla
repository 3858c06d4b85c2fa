------------------------------ MODULE DeviceLife ------------------------------
(***************************************************************************)
(* What IEleaph promises to an application about the devices it adds with  *)
(* options that forget them on disconnection, whatever signals, handlers,  *)
(* timers and event loops do underneath: a device is forgotten in the      *)
(* moment its connection is lost and is never registered afterwards; it is *)
(* then condemned if an option said so, no matter whether it was still     *)
(* registered; a sentence is never withdrawn; and only a condemned device  *)
(* is destroyed, which leaves no trace of it.                              *)
(***************************************************************************)
CONSTANT Devices

VARIABLES
  exists,      \* the devices there are
  lost,        \* those whose connection is lost
  registered,  \* those in lstDevices
  mortal,      \* those to be killed when they lose their connection
  condemned    \* those that are to be deleted

vars == <<exists, lost, registered, mortal, condemned>>

Init ==
  /\ exists = Devices
  /\ lost = {} /\ registered = {} /\ mortal = {} /\ condemned = {}

Register(d, kill) ==
  /\ d \in exists \ (lost \cup registered)
  /\ registered' = registered \cup {d}
  /\ mortal' = IF kill THEN mortal \cup {d} ELSE mortal
  /\ UNCHANGED <<exists, lost, condemned>>

Forget(d) ==
  /\ d \in registered
  /\ registered' = registered \ {d}
  /\ UNCHANGED <<exists, lost, mortal, condemned>>

Lose(d) ==
  /\ d \in exists \ lost
  /\ lost' = lost \cup {d}
  /\ registered' = registered \ {d}
  /\ condemned' = condemned \cup (mortal \cap {d})
  /\ UNCHANGED <<exists, mortal>>

Condemn(d) ==
  /\ d \in exists
  /\ condemned' = condemned \cup {d}
  /\ UNCHANGED <<exists, lost, registered, mortal>>

Destroy(d) ==
  /\ d \in condemned
  /\ exists' = exists \ {d}
  /\ lost' = lost \ {d}
  /\ registered' = registered \ {d}
  /\ mortal' = mortal \ {d}
  /\ condemned' = condemned \ {d}

Create(d) ==
  /\ d \notin exists
  /\ exists' = exists \cup {d}
  /\ UNCHANGED <<lost, registered, mortal, condemned>>

Next ==
  \E d \in Devices :
    \/ \E kill \in BOOLEAN : Register(d, kill)
    \/ Forget(d) \/ Lose(d) \/ Condemn(d) \/ Destroy(d) \/ Create(d)

Spec == Init /\ [][Next]_vars
==============================================================================
