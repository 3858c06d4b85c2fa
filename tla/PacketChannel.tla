---------------------------- MODULE PacketChannel ----------------------------
(***************************************************************************)
(* What one direction of an Eleaph connection promises to the code above   *)
(* it, whatever the chunks in which the bytes of the stream arrive: the    *)
(* packets the peer sends are handed to newDataPacketReceived one by one,  *)
(* in order, each exactly once; empty packets (the keep alive pings) are   *)
(* swallowed; the first packet longer than MaxDataLength is refused and    *)
(* ends the connection.  Removing the device may void the contract: from   *)
(* then on nothing is promised about what the receiver sees.               *)
(***************************************************************************)
EXTENDS Naturals, Sequences

CONSTANT MaxDataLength

VARIABLES
  sent,       \* the packets handed to sendDataPacket, oldest first
  handled,    \* how many of them the receiver is done with
  received,   \* the packets given to newDataPacketReceived, oldest first
  open,       \* the receiving device is open
  attached,   \* the receiving device is registered
  intact      \* the contract is not void

vars == <<sent, handled, received, open, attached, intact>>

Init ==
  /\ sent = << >>
  /\ handled = 0
  /\ received = << >>
  /\ open = TRUE
  /\ attached = FALSE
  /\ intact = TRUE

Send ==
  /\ Len(sent') = Len(sent) + 1
  /\ SubSeq(sent', 1, Len(sent)) = sent
  /\ UNCHANGED <<handled, received, open, attached, intact>>

Attach ==
  /\ attached' = TRUE
  /\ UNCHANGED <<sent, handled, received, open, intact>>

Detach ==
  /\ attached' = FALSE
  /\ intact' \in {intact, FALSE}
  /\ UNCHANGED <<sent, handled, received, open>>

\* The next packet, if there is one, on a channel that is still in order.
HandleNext ==
  /\ open
  /\ intact
  /\ handled < Len(sent)
  /\ handled' = handled + 1
  /\ UNCHANGED <<sent, intact>>

Swallow ==
  /\ HandleNext
  /\ sent[handled + 1].len = 0
  /\ UNCHANGED <<received, open, attached>>

Deliver ==
  /\ HandleNext
  /\ sent[handled + 1].len \in 1 .. MaxDataLength
  /\ received' = Append(received, sent[handled + 1])
  /\ UNCHANGED <<open, attached>>

Refuse ==
  /\ HandleNext
  /\ sent[handled + 1].len > MaxDataLength
  /\ open' = FALSE
  /\ attached' \in {attached, FALSE}
  /\ UNCHANGED received

\* A channel whose contract is void may hand over anything.
Garbled ==
  /\ ~intact
  /\ UNCHANGED <<sent, intact>>

Handle == Swallow \/ Deliver \/ Refuse

Next == Send \/ Attach \/ Detach \/ Handle \/ Garbled

Spec == Init /\ [][Next]_vars

\* A packet sent to a device that stays registered is eventually dealt with.
Fairness == WF_vars(attached /\ Handle)
==============================================================================
