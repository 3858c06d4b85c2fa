---------------------------- MODULE PacketFraming ----------------------------
(***************************************************************************)
(* One direction of a connection: sendDataPacket of the peer, the byte     *)
(* stream, and the packet parser IEleaph::dataHandler that cuts the stream *)
(* into packets again (src/ieleaph.cpp).                                   *)
(*                                                                         *)
(* Bytes are represented by their offsets in the stream.  A packet is the  *)
(* range of its payload, [at |-> first offset, len |-> length]; its header *)
(* is the HeaderSize bytes in front of it.  A header read at an offset     *)
(* where the peer has written one yields its length; a read anywhere else  *)
(* yields an arbitrary length, since payload bytes are arbitrary.          *)
(***************************************************************************)
EXTENDS Integers, Sequences

CONSTANTS
  HeaderSize,     \* sizeof(PACKETLENGTHTYPE)
  LenSpace,       \* number of values of PACKETLENGTHTYPE, 2^32
  MaxDataLength,  \* intMaxDataLength
  SendLengths,    \* lengths of the packets the peer sends
  MaxFrames       \* bound: number of packets the peer sends

ASSUME FramingAssumption ==
  /\ HeaderSize \in Nat \ {0}
  /\ LenSpace \in Nat \ {0}
  /\ MaxDataLength \in 0 .. LenSpace - 1
  /\ SendLengths \subseteq 0 .. LenSpace - 1
  /\ MaxFrames \in Nat

VARIABLES
  sent,        \* packets the peer has sent, oldest first
  written,     \* bytes the peer has written
  arrived,     \* bytes that have reached the receiving device
  taken,       \* bytes dataHandler has read from the device
  pkt,         \* property PROPERTYNAME_PACKET: NoPacket or intPacktLength
  pc,          \* control of dataHandler; user code runs in progress and callback
  sampled,     \* intAvailableDataLength while packetDownloadProcess runs
  open,        \* ioPacketDevice->isOpen()
  registered,  \* the device is in lstDevices and its readyRead is connected
  received,    \* packets given to newDataPacketReceived, oldest first
  handled,     \* history: packets parsed
  scrambled,   \* history: removed after the header of a packet was read
  unseen       \* history: bytes that were not announced when they arrived and
               \* that no pass of the loop has counted since

vars == <<sent, written, arrived, taken, pkt, pc, sampled, open, registered,
          received, handled, scrambled, unseen>>

NoPacket == -1

Init ==
  /\ sent = << >>
  /\ written = 0 /\ arrived = 0 /\ taken = 0
  /\ pkt = NoPacket
  /\ pc = "idle"
  /\ open = TRUE
  /\ registered = FALSE
  /\ received = << >>
  /\ handled = 0
  /\ scrambled = FALSE
  /\ sampled = 0
  /\ unseen = 0

-----------------------------------------------------------------------------
(* The peer and the network.                                               *)

\* sendDataPacket: the length, then the data.
sendDataPacket(n) ==
  /\ Len(sent) < MaxFrames
  /\ sent' = Append(sent, [at |-> written + HeaderSize, len |-> n])
  /\ written' = written + HeaderSize + n
  /\ UNCHANGED <<arrived, taken, pkt, pc, sampled, open, registered, received,
                 handled, scrambled, unseen>>

\* k more bytes reach the device: while the event loop runs, or one that user
\* code under dataHandler spins.  Qt announces them with readyRead if that is
\* connected, but not while a slot connected to it is running.
Arrive(k) ==
  /\ open
  /\ pc # "loop"
  /\ arrived' = arrived + k
  /\ pc' = IF pc = "idle" /\ registered THEN "loop" ELSE pc
  /\ unseen' = IF registered /\ pc # "progress" THEN unseen ELSE unseen + k
  /\ UNCHANGED <<sent, written, taken, pkt, sampled, open, registered, received,
                 handled, scrambled>>

-----------------------------------------------------------------------------
(* dataHandler: one action per way through the body of its while loop, cut *)
(* where user code is called.                                              *)

\* bytesAvailable() narrowed to PACKETLENGTHTYPE.
Available == IF open THEN (arrived - taken) % LenSpace ELSE 0

\* The loop's condition has counted all bytes there are.
Pass == pc = "loop" /\ unseen' = 0

\* What a header read at offset pos can yield.
FramesAfter(pos) == {k \in 1 .. Len(sent) : sent[k].at = pos + HeaderSize}
HeaderAt(pos) == IF FramesAfter(pos) # {} THEN {sent[k].len : k \in FramesAfter(pos)}
                                          ELSE 0 .. LenSpace - 1

\* Mutation: a packet still without its header is taken for one with it.
HeaderPending_ZeroOnly == pkt = 0

HeaderPending == pkt \in {NoPacket, 0}

LeaveLoop ==
  /\ Pass
  /\ Available = 0
  /\ pc' = "idle"
  /\ UNCHANGED <<sent, written, arrived, taken, pkt, sampled, open, registered,
                 received, handled, scrambled>>

AwaitHeader ==
  /\ Pass
  /\ HeaderPending
  /\ Available \in 1 .. HeaderSize - 1
  /\ pkt' = 0
  /\ pc' = "idle"
  /\ UNCHANGED <<sent, written, arrived, taken, sampled, open, registered,
                 received, handled, scrambled>>

CanReadHeader == Pass /\ HeaderPending /\ Available >= HeaderSize

\* Mutation: the limit is not checked.
ReadHeader_NoLimit ==
  /\ CanReadHeader
  /\ \E n \in HeaderAt(taken) : n # 0 /\ pkt' = n
  /\ taken' = taken + HeaderSize
  /\ sampled' = Available - HeaderSize
  /\ pc' = "progress"
  /\ UNCHANGED <<sent, written, arrived, open, registered, received, handled, scrambled>>

\* The length is allowed: the packet is kept and packetDownloadProcess called.
ReadHeader ==
  /\ CanReadHeader
  /\ \E n \in HeaderAt(taken) :
       /\ n # 0 /\ n <= MaxDataLength
       /\ pkt' = n
  /\ taken' = taken + HeaderSize
  /\ sampled' = Available - HeaderSize
  /\ pc' = "progress"
  /\ UNCHANGED <<sent, written, arrived, open, registered, received, handled, scrambled>>

\* "goto cleanup_packet": a ping.
EmptyPacket ==
  /\ CanReadHeader
  /\ 0 \in HeaderAt(taken)
  /\ taken' = taken + HeaderSize
  /\ pkt' = NoPacket
  /\ handled' = handled + 1
  /\ UNCHANGED <<sent, written, arrived, pc, sampled, open, registered, received,
                 scrambled>>

\* "goto kill": the device is closed, which unregisters it at once or, when
\* only its disconnection does and unsent data delays that, later.
Kill ==
  /\ CanReadHeader
  /\ \E n \in HeaderAt(taken) : n > MaxDataLength
  /\ taken' = taken + HeaderSize
  /\ pkt' = NoPacket
  /\ open' = FALSE
  /\ registered' \in {registered, FALSE}
  /\ handled' = handled + 1
  /\ UNCHANGED <<sent, written, arrived, pc, sampled, received, scrambled>>

\* More of a content whose header was read before: packetDownloadProcess is
\* called.
MoreContent ==
  /\ Pass
  /\ ~HeaderPending
  /\ Available # 0
  /\ sampled' = Available
  /\ pc' = "progress"
  /\ UNCHANGED <<sent, written, arrived, taken, pkt, open, registered, received,
                 handled, scrambled>>

\* packetDownloadProcess returns.  What counts is what was available before
\* the call: that the rest has arrived meanwhile goes unnoticed.
AwaitContent ==
  /\ pc = "progress"
  /\ sampled < pkt
  /\ pc' = "idle"
  /\ sampled' = 0
  /\ UNCHANGED <<sent, written, arrived, taken, pkt, open, registered, received,
                 handled, scrambled, unseen>>

\* Mutation: all available bytes are read instead of the content.
ReadContent_ReadAll ==
  /\ pc = "progress"
  /\ sampled >= pkt
  /\ taken' = arrived
  /\ received' = Append(received, [at |-> taken, len |-> pkt])
  /\ pc' = "callback"
  /\ sampled' = 0
  /\ handled' = handled + 1
  /\ UNCHANGED <<sent, written, arrived, pkt, open, registered, scrambled, unseen>>

\* ... or the whole content was there: newDataPacketReceived is called.
ReadContent ==
  /\ pc = "progress"
  /\ sampled >= pkt
  /\ taken' = taken + pkt
  /\ received' = Append(received, [at |-> taken, len |-> pkt])
  /\ pc' = "callback"
  /\ sampled' = 0
  /\ handled' = handled + 1
  /\ UNCHANGED <<sent, written, arrived, pkt, open, registered, scrambled, unseen>>

\* Mutation: dataHandler returns after a packet instead of going round.
CallbackReturns_Leaves ==
  /\ pc = "callback"
  /\ pkt' = NoPacket
  /\ pc' = "idle"
  /\ UNCHANGED <<sent, written, arrived, taken, sampled, open, registered, received,
                 handled, scrambled, unseen>>

\* newDataPacketReceived returns and the loop goes round.
CallbackReturns ==
  /\ pc = "callback"
  /\ pkt' = NoPacket
  /\ pc' = "loop"
  /\ UNCHANGED <<sent, written, arrived, taken, sampled, open, registered, received,
                 handled, scrambled, unseen>>

dataHandler ==
  \/ LeaveLoop \/ AwaitHeader \/ ReadHeader \/ EmptyPacket \/ Kill
  \/ MoreContent \/ AwaitContent \/ ReadContent \/ CallbackReturns

-----------------------------------------------------------------------------
(* The application, from the event loop.                                   *)

addDevice ==
  /\ pc = "idle"
  /\ ~registered
  /\ registered' = TRUE
  /\ UNCHANGED <<sent, written, arrived, taken, pkt, pc, sampled, open, received,
                 handled, scrambled, unseen>>

\* The cached packet goes with the registration.
removeDevice ==
  /\ pc = "idle"
  /\ registered
  /\ registered' = FALSE
  /\ pkt' = NoPacket
  /\ scrambled' = (scrambled \/ ~HeaderPending)
  /\ UNCHANGED <<sent, written, arrived, taken, pc, sampled, open, received, handled,
                 unseen>>

-----------------------------------------------------------------------------
Next ==
  \/ \E n \in SendLengths : sendDataPacket(n)
  \/ \E k \in 1 .. written - arrived : Arrive(k)
  \/ dataHandler
  \/ addDevice
  \/ removeDevice

Spec == Init /\ [][Next]_vars

\* The network delivers what was written, a running handler runs on, and
\* user code called by it returns.  Nothing is assumed of the application.
Fairness ==
  /\ WF_vars(\E k \in 1 .. written - arrived : Arrive(k))
  /\ WF_vars(dataHandler)

FairSpec == Spec /\ Fairness

-----------------------------------------------------------------------------
Packet == [at : Nat, len : Nat]

TypeOK ==
  /\ sent \in Seq(Packet)
  /\ written \in Nat /\ arrived \in Nat /\ taken \in Nat
  /\ pkt \in Nat \cup {NoPacket}
  /\ pc \in {"idle", "loop", "progress", "callback"}
  /\ sampled \in Nat /\ unseen \in Nat
  /\ open \in BOOLEAN /\ registered \in BOOLEAN /\ scrambled \in BOOLEAN
  /\ received \in Seq(Packet)
  /\ handled \in Nat

\* Offset of the header of the k-th packet of the stream.
HeaderOffset(k) == IF k <= Len(sent) THEN sent[k].at - HeaderSize ELSE written

\* The parser never loses the packet boundaries: between packets it stands at
\* the header of the packet it has to parse next, and with a header read it
\* stands at that packet's content and holds its length.  Only a removeDevice
\* between header and content, which drops the cached packet, breaks this.
Aligned ==
  open /\ ~scrambled =>
    /\ handled <= Len(sent)
    /\ (HeaderPending \/ pc = "callback") => taken = HeaderOffset(handled + 1)
    /\ (~HeaderPending /\ pc # "callback") =>
         /\ handled < Len(sent)
         /\ sent[handled + 1] = [at |-> taken, len |-> pkt]

\* What dataHandler was called for or has looked at.
Counted == arrived - unseen

\* readyRead is not emitted again for bytes already announced, so dataHandler
\* must not go back to the event loop while it could still make progress: when
\* it is not running, what is left is less than a header or than the content,
\* but for bytes that nothing has announced and no pass of the loop counted:
\* those that arrived during the last packetDownloadProcess, or before the
\* device was registered.  (Excepted are devices with 2^32 bytes or more, and
\* those whose stream was cut between header and content.)
NeverSleepsOnPacket ==
  (pc = "idle" /\ open /\ ~scrambled /\ Counted - taken < LenSpace) =>
    Counted - taken < (IF HeaderPending THEN HeaderSize ELSE pkt)

\* The channel this parser implements.
Channel == INSTANCE PacketChannel WITH attached <- registered, intact <- ~scrambled

\* The parser delivers the packets of the stream in order, each exactly once,
\* swallows pings and stops at the first oversized packet.
ImplementsChannel == Channel!Spec

\* ... and, on a device that stays registered, gets round to every packet,
\* unless the last bytes to arrive are never counted.
GetsRoundToEveryPacket == []<>(unseen = 0) => Channel!Fairness
==============================================================================
