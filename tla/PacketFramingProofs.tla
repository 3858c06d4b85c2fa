------------------------- MODULE PacketFramingProofs -------------------------
(***************************************************************************)
(* For every header size, length space, limit and set of packet lengths:   *)
(* the types of PacketFraming, the alignment of the parser, the absence of *)
(* packets it sleeps on, and that it implements PacketChannel.             *)
(***************************************************************************)
EXTENDS PacketFraming, TLAPS

-----------------------------------------------------------------------------
(* The inductive invariant.                                                *)

\* The stream is a gapless row of frames: each packet ends where the next
\* header starts, and headers do not overlap.
Directory ==
  /\ HeaderOffset(1) = 0
  /\ \A k \in 1 .. Len(sent) : HeaderOffset(k + 1) = sent[k].at + sent[k].len
  /\ \A j, k \in 1 .. Len(sent) + 1 :
       j < k => HeaderOffset(j) + HeaderSize <= HeaderOffset(k)

\* Nothing is read before it has arrived and been counted, or arrives before it
\* is written, and what is cached is an allowed length.
Bounds ==
  /\ taken + unseen <= arrived
  /\ arrived <= written
  /\ pkt <= MaxDataLength
  /\ pc \in {"progress", "callback"} => ~HeaderPending

\* What was available before packetDownloadProcess is still there, and was all
\* that is counted unless the narrowing cut it.
Sampling ==
  pc = "progress" =>
    /\ open
    /\ sampled <= Counted - taken
    /\ Counted - taken < LenSpace => sampled = Counted - taken

IInv == TypeOK /\ Bounds /\ Sampling /\ Directory /\ Aligned

-----------------------------------------------------------------------------
(* Arithmetic and sequences.                                               *)

LEMMA Narrowing ==
  ASSUME NEW x \in Nat
  PROVE  /\ x % LenSpace \in Nat
         /\ x % LenSpace <= x
         /\ x < LenSpace => x % LenSpace = x
         /\ x >= LenSpace => x % LenSpace <= x - LenSpace
BY SMT, FramingAssumption

\* bytesAvailable, narrowed or not, never promises bytes that are not there.
LEMMA AvailableIsThere ==
  ASSUME TypeOK, Bounds
  PROVE  /\ Available \in Nat
         /\ Available <= arrived - taken
         /\ Available # 0 => open
         /\ open /\ arrived - taken < LenSpace => Available = arrived - taken
         /\ arrived - taken >= LenSpace => Available <= arrived - taken - LenSpace
<1>1. arrived - taken \in Nat
  BY DEF TypeOK, Bounds
<1>2. CASE open
  BY <1>1, <1>2, Narrowing DEF Available
<1>3. CASE ~open
  BY <1>1, <1>3, FramingAssumption DEF Available
<1> QED
  BY <1>2, <1>3

\* A header never yields a negative length.
LEMMA HeaderIsNatural ==
  ASSUME TypeOK, NEW n \in HeaderAt(taken)
  PROVE  n \in Nat
<1>1. CASE FramesAfter(taken) = {}
  BY <1>1, FramingAssumption DEF HeaderAt
<1>2. CASE FramesAfter(taken) # {}
  <2>1. PICK k \in 1 .. Len(sent) : n = sent[k].len
    BY <1>2 DEF HeaderAt, FramesAfter
  <2>2. sent[k] \in Packet
    BY DEF TypeOK
  <2> QED
    BY <2>1, <2>2 DEF Packet
<1> QED
  BY <1>1, <1>2

\* Sending extends the directory at its end and moves no header.
LEMMA SendExtends ==
  ASSUME TypeOK, NEW n \in SendLengths, sendDataPacket(n)
  PROVE  /\ n \in Nat
         /\ sent' \in Seq(Packet)
         /\ Len(sent') = Len(sent) + 1
         /\ \A k \in 1 .. Len(sent) : sent'[k] = sent[k]
         /\ sent'[Len(sent) + 1] = [at |-> written + HeaderSize, len |-> n]
         /\ \A k \in 1 .. Len(sent) + 1 : HeaderOffset(k)' = HeaderOffset(k)
         /\ HeaderOffset(Len(sent) + 1)' = written'
<1> DEFINE p == [at |-> written + HeaderSize, len |-> n]
<1>1. n \in Nat /\ p \in Packet /\ sent \in Seq(Packet)
  BY FramingAssumption DEF TypeOK, Packet
<1>2. sent' = Append(sent, p)
  BY DEF sendDataPacket
<1> HIDE DEF p
<1>3. /\ sent' \in Seq(Packet)
      /\ Len(sent') = Len(sent) + 1
      /\ \A k \in 1 .. Len(sent) : sent'[k] = sent[k]
      /\ sent'[Len(sent) + 1] = p
  BY <1>1, <1>2
<1>4. Len(sent) \in Nat
  BY <1>1
<1>5. ASSUME NEW k \in 1 .. Len(sent)
      PROVE  HeaderOffset(k)' = HeaderOffset(k)
  BY <1>3, <1>4 DEF HeaderOffset
<1>6. ASSUME NEW k, k = Len(sent) + 1
      PROVE  HeaderOffset(k)' = HeaderOffset(k)
  <2>1. p.at = written + HeaderSize
    BY DEF p
  <2>2. HeaderOffset(k)' = p.at - HeaderSize
    BY <1>3, <1>4, <1>6 DEF HeaderOffset
  <2>3. HeaderOffset(k) = written
    BY <1>4, <1>6 DEF HeaderOffset
  <2> QED
    BY <2>1, <2>2, <2>3, FramingAssumption DEF TypeOK
<1>7. HeaderOffset(Len(sent) + 1)' = written'
  BY <1>3, <1>4 DEF HeaderOffset
<1>8. ASSUME NEW k \in 1 .. Len(sent) + 1
      PROVE  HeaderOffset(k)' = HeaderOffset(k)
  <2>1. k \in 1 .. Len(sent) \/ k = Len(sent) + 1
    BY <1>4
  <2> QED
    BY <1>5, <1>6, <2>1
<1> QED
  BY <1>1, <1>3, <1>7, <1>8 DEF p

\* When an aligned parser reads a header, it is the header of the packet it
\* has to parse next, and it reads that packet's length.
LEMMA HeaderIsNext ==
  ASSUME IInv, CanReadHeader, ~scrambled
  PROVE  /\ open
         /\ handled < Len(sent)
         /\ sent[handled + 1].at = taken + HeaderSize
         /\ HeaderOffset(handled + 2) = taken + HeaderSize + sent[handled + 1].len
         /\ HeaderAt(taken) = {sent[handled + 1].len}
<1> USE FramingAssumption
<1> DEFINE h == handled + 1
<1>1. Available >= HeaderSize /\ HeaderPending /\ pc = "loop"
  BY DEF CanReadHeader, Pass
<1>2. open /\ taken + HeaderSize <= written
  BY <1>1, AvailableIsThere DEF IInv, TypeOK, Bounds
<1>3. handled <= Len(sent) /\ taken = HeaderOffset(h)
  BY <1>1, <1>2 DEF IInv, Aligned
<1>4. Len(sent) \in Nat /\ handled \in Nat /\ taken \in Nat /\ written \in Nat
  BY DEF IInv, TypeOK
<1>5. handled < Len(sent)
  BY <1>2, <1>3, <1>4 DEF HeaderOffset
<1>6. h \in 1 .. Len(sent)
  BY <1>4, <1>5
<1>7. ASSUME NEW k \in 1 .. Len(sent)
      PROVE  sent[k].at \in Nat /\ sent[k].len \in Nat
  <2>1. sent[k] \in Packet
    BY DEF IInv, TypeOK
  <2> QED
    BY <2>1 DEF Packet
<1>8. sent[h].at = taken + HeaderSize
  BY <1>3, <1>4, <1>6, <1>7 DEF HeaderOffset
<1>9. HeaderOffset(handled + 2) = taken + HeaderSize + sent[h].len
  <2>1. HeaderOffset(h + 1) = sent[h].at + sent[h].len
    BY <1>6 DEF IInv, Directory
  <2>2. h + 1 = handled + 2
    BY <1>4
  <2> QED
    BY <1>8, <2>1, <2>2
<1>10. FramesAfter(taken) = {h}
  <2>1. h \in FramesAfter(taken)
    BY <1>6, <1>8 DEF FramesAfter
  <2>2. ASSUME NEW k \in FramesAfter(taken), k # h
        PROVE  FALSE
    <3>1. k \in 1 .. Len(sent) /\ sent[k].at = sent[h].at
      BY <1>8 DEF FramesAfter
    <3>2. HeaderOffset(k) = HeaderOffset(h)
      BY <1>6, <3>1 DEF HeaderOffset
    <3>3. HeaderOffset(k) \in Int /\ HeaderOffset(h) \in Int
      BY <1>6, <1>7, <3>1 DEF HeaderOffset
    <3>. k \in 1 .. Len(sent) + 1 /\ h \in 1 .. Len(sent) + 1 /\ k \in Int /\ h \in Int
      BY <1>4, <1>6, <3>1
    <3> HIDE DEF h
    <3>4. k < h => HeaderOffset(k) + HeaderSize <= HeaderOffset(h)
      BY DEF IInv, Directory
    <3>5. h < k => HeaderOffset(h) + HeaderSize <= HeaderOffset(k)
      BY DEF IInv, Directory
    <3>6. k < h \/ h < k
      BY <1>4, <2>2, <3>1
    <3> QED
      BY <3>2, <3>3, <3>4, <3>5, <3>6
  <2> QED
    BY <2>1, <2>2
<1>11. HeaderAt(taken) = {sent[h].len}
  BY <1>10 DEF HeaderAt
<1> QED
  BY <1>2, <1>5, <1>8, <1>9, <1>11

\* When an aligned parser reads content, it is the whole content of the
\* packet it has to parse next.
LEMMA ContentIsNext ==
  ASSUME IInv, ReadContent, ~scrambled
  PROVE  /\ open
         /\ handled < Len(sent)
         /\ sent[handled + 1] = [at |-> taken, len |-> pkt]
         /\ HeaderOffset(handled + 2) = taken + pkt
<1> USE FramingAssumption
<1>1. pc = "progress" /\ sampled >= pkt
  BY DEF ReadContent
<1>2. ~HeaderPending
  BY <1>1 DEF IInv, Bounds
<1>3. open
  BY <1>1 DEF IInv, Sampling
<1>4. handled < Len(sent) /\ sent[handled + 1] = [at |-> taken, len |-> pkt]
  BY <1>1, <1>2, <1>3 DEF IInv, Aligned
<1>5. handled \in Nat /\ Len(sent) \in Nat
  BY DEF IInv, TypeOK
<1>6. HeaderOffset(handled + 1 + 1) = sent[handled + 1].at + sent[handled + 1].len
  BY <1>4, <1>5 DEF IInv, Directory
<1>7. handled + 1 + 1 = handled + 2
  BY <1>5
<1> QED
  BY <1>3, <1>4, <1>6, <1>7

-----------------------------------------------------------------------------
(* The invariant, part by part.                                            *)

LEMMA InitIInv == Init => IInv
<1> SUFFICES ASSUME Init PROVE IInv
  OBVIOUS
<1> USE FramingAssumption DEF Init
<1>1. sent = << >> /\ Len(sent) = 0 /\ sent \in Seq(Packet) /\ received \in Seq(Packet)
  OBVIOUS
<1>2. TypeOK
  BY <1>1 DEF TypeOK, NoPacket
<1>3. Bounds
  BY DEF Bounds, NoPacket
<1>4. HeaderOffset(1) = 0
  BY <1>1 DEF HeaderOffset
<1>5. Directory
  BY <1>1, <1>4 DEF Directory
<1>6. Aligned
  BY <1>1, <1>4 DEF Aligned, HeaderPending, NoPacket
<1>7. Sampling
  BY DEF Sampling
<1> QED
  BY <1>2, <1>3, <1>5, <1>6, <1>7 DEF IInv

LEMMA TypeStep == ASSUME IInv, [Next]_vars PROVE TypeOK'
<1> USE FramingAssumption DEF TypeOK
<1>0. IInv /\ TypeOK
  BY DEF IInv
<1>a. Available \in Nat
  BY <1>0, AvailableIsThere DEF IInv
<1>1. ASSUME NEW n \in SendLengths, sendDataPacket(n) PROVE TypeOK'
  <2>1. n \in Nat /\ sent' \in Seq(Packet)
    BY <1>0, <1>1, SendExtends
  <2> QED
    BY <1>0, <1>1, <2>1 DEF sendDataPacket
<1>2. ASSUME NEW k \in 1 .. written - arrived, Arrive(k) PROVE TypeOK'
  BY <1>0, <1>2 DEF Arrive
<1>3. CASE LeaveLoop
  BY <1>0, <1>3 DEF LeaveLoop, Pass
<1>4. CASE AwaitHeader
  BY <1>0, <1>4 DEF AwaitHeader, Pass
<1>5. CASE ReadHeader
  <2>1. pkt' \in Nat
    BY <1>0, <1>5, HeaderIsNatural DEF ReadHeader
  <2> QED
    BY <1>0, <1>a, <1>5, <2>1 DEF ReadHeader, CanReadHeader, Pass
<1>6. CASE EmptyPacket
  BY <1>0, <1>6 DEF EmptyPacket, CanReadHeader, Pass
<1>7. CASE Kill
  <2>1. registered' = registered \/ registered' = FALSE
    BY <1>7 DEF Kill
  <2>2. registered' \in BOOLEAN
    BY <1>0, <2>1
  <2>3. /\ UNCHANGED <<sent, written, arrived, pc, sampled, received, scrambled>>
        /\ open' = FALSE /\ unseen' = 0
    BY <1>7 DEF Kill, CanReadHeader, Pass
  <2>4. pkt' = NoPacket /\ taken' \in Nat /\ handled' \in Nat
    BY <1>0, <1>7 DEF Kill
  <2> QED
    BY <1>0, <2>2, <2>3, <2>4
<1>8. CASE AwaitContent
  BY <1>0, <1>8 DEF AwaitContent
<1>14. CASE MoreContent
  BY <1>0, <1>a, <1>14 DEF MoreContent, Pass
<1>9. CASE ReadContent
  <2>1. pkt \in Nat
    BY <1>0, <1>9 DEF ReadContent, IInv, Bounds, HeaderPending
  <2>2. [at |-> taken, len |-> pkt] \in Packet
    BY <1>0, <2>1 DEF Packet
  <2>3. received' \in Seq(Packet)
    BY <1>0, <1>9, <2>2 DEF ReadContent
  <2> QED
    BY <1>0, <1>9, <2>1, <2>3 DEF ReadContent
<1>10. CASE CallbackReturns
  BY <1>0, <1>10 DEF CallbackReturns
<1>11. CASE addDevice
  BY <1>0, <1>11 DEF addDevice
<1>12. CASE removeDevice
  BY <1>0, <1>12 DEF removeDevice
<1>13. CASE UNCHANGED vars
  BY <1>0, <1>13 DEF vars
<1> QED
  BY <1>1, <1>2, <1>3, <1>4, <1>5, <1>6, <1>7, <1>8, <1>9, <1>10, <1>11, <1>12,
     <1>13, <1>14 DEF Next, dataHandler

LEMMA BoundsStep == ASSUME IInv, [Next]_vars PROVE Bounds'
<1> USE FramingAssumption DEF Bounds, HeaderPending
<1>0. TypeOK /\ Bounds
  BY DEF IInv
<1>a. Available \in Nat /\ Available <= arrived - taken
  BY <1>0, AvailableIsThere
<1>b. Sampling
  BY DEF IInv
<1>1. ASSUME NEW n \in SendLengths, sendDataPacket(n) PROVE Bounds'
  <2>1. n \in Nat
    OBVIOUS
  <2> QED
    BY <1>0, <1>1, <2>1 DEF sendDataPacket, TypeOK
<1>2. ASSUME NEW k \in 1 .. written - arrived, Arrive(k) PROVE Bounds'
  BY <1>0, <1>2 DEF Arrive, TypeOK
<1>3. CASE LeaveLoop
  BY <1>0, <1>3 DEF LeaveLoop, Pass, TypeOK
<1>4. CASE AwaitHeader
  BY <1>0, <1>4 DEF AwaitHeader, Pass, TypeOK
<1>5. CASE ReadHeader
  <2>1. PICK n \in HeaderAt(taken) : n # 0 /\ n <= MaxDataLength /\ pkt' = n
    BY <1>5 DEF ReadHeader
  <2>2. n \in Nat
    BY <1>0, <2>1, HeaderIsNatural
  <2>3. /\ Available >= HeaderSize /\ unseen' = 0 /\ taken' = taken + HeaderSize
        /\ UNCHANGED <<written, arrived>>
    BY <1>5 DEF ReadHeader, CanReadHeader, Pass
  <2> QED
    BY <1>0, <1>a, <2>1, <2>2, <2>3 DEF TypeOK, NoPacket
<1>6. CASE EmptyPacket
  BY <1>0, <1>a, <1>6 DEF EmptyPacket, CanReadHeader, Pass, TypeOK, NoPacket
<1>7. CASE Kill
  BY <1>0, <1>a, <1>7 DEF Kill, CanReadHeader, Pass, TypeOK, NoPacket
<1>8. CASE AwaitContent
  BY <1>0, <1>8 DEF AwaitContent
<1>14. CASE MoreContent
  BY <1>0, <1>14 DEF MoreContent, Pass, TypeOK
<1>9. CASE ReadContent
  BY <1>0, <1>b, <1>9 DEF ReadContent, Sampling, Counted, TypeOK, NoPacket
<1>10. CASE CallbackReturns
  BY <1>0, <1>10 DEF CallbackReturns, NoPacket
<1>11. CASE addDevice
  BY <1>0, <1>11 DEF addDevice
<1>12. CASE removeDevice
  BY <1>0, <1>12 DEF removeDevice, NoPacket
<1>13. CASE UNCHANGED vars
  BY <1>0, <1>13 DEF vars
<1> QED
  BY <1>1, <1>2, <1>3, <1>4, <1>5, <1>6, <1>7, <1>8, <1>9, <1>10, <1>11, <1>12,
     <1>13, <1>14 DEF Next, dataHandler

\* The sample stays true while packetDownloadProcess runs, whatever arrives.
LEMMA SamplingStep == ASSUME IInv, [Next]_vars PROVE Sampling'
<1> USE FramingAssumption
<1>0. TypeOK /\ Bounds /\ Sampling
  BY DEF IInv
<1>a. /\ Available \in Nat /\ Available <= arrived - taken
      /\ Available # 0 => open
      /\ open /\ arrived - taken < LenSpace => Available = arrived - taken
      /\ arrived - taken >= LenSpace => Available <= arrived - taken - LenSpace
  BY <1>0, AvailableIsThere
<1>1. CASE pc' # "progress"
  BY <1>1 DEF Sampling
<1>2. ASSUME UNCHANGED <<arrived, taken, pc, sampled, open, unseen>>
      PROVE  Sampling'
  BY <1>0, <1>2 DEF Sampling, Counted
<1>3. ASSUME NEW k \in 1 .. written - arrived, Arrive(k), pc' = "progress"
      PROVE  Sampling'
  <2>1. /\ pc = "progress"
        /\ arrived' = arrived + k /\ unseen' = unseen + k
        /\ UNCHANGED <<taken, sampled, open>>
    BY <1>3 DEF Arrive
  <2>2. Counted' = Counted
    BY <1>0, <2>1 DEF Counted, TypeOK
  <2> QED
    BY <1>0, <2>1, <2>2 DEF Sampling
<1>4. CASE ReadHeader
  <2>1. /\ Available >= HeaderSize
        /\ unseen' = 0 /\ arrived' = arrived /\ open' = open
        /\ taken' = taken + HeaderSize /\ sampled' = Available - HeaderSize
    BY <1>4 DEF ReadHeader, CanReadHeader, Pass
  <2>2. open
    BY <1>a, <2>1
  <2>3. Counted' - taken' = arrived - taken - HeaderSize
    BY <1>0, <2>1 DEF Counted, TypeOK
  <2>4. sampled' <= Counted' - taken'
    BY <1>0, <1>a, <2>1, <2>3 DEF TypeOK
  <2>5. CASE arrived - taken < LenSpace
    BY <1>0, <1>a, <2>1, <2>2, <2>3, <2>4, <2>5 DEF Sampling, TypeOK
  <2>6. CASE arrived - taken >= LenSpace
    BY <1>0, <1>a, <2>1, <2>2, <2>3, <2>4, <2>6 DEF Sampling, TypeOK
  <2> QED
    BY <1>0, <2>5, <2>6, FramingAssumption DEF TypeOK
<1>5. CASE MoreContent
  <2>1. /\ Available # 0 /\ unseen' = 0 /\ sampled' = Available
        /\ UNCHANGED <<arrived, taken, open>>
    BY <1>5 DEF MoreContent, Pass
  <2>2. Counted' - taken' = arrived - taken
    BY <1>0, <2>1 DEF Counted, TypeOK
  <2> QED
    BY <1>a, <2>1, <2>2 DEF Sampling
<1>6. ASSUME NEW n \in SendLengths, sendDataPacket(n) PROVE Sampling'
  BY <1>2, <1>6 DEF sendDataPacket
<1>7. CASE LeaveLoop \/ AwaitHeader \/ EmptyPacket \/ Kill \/ AwaitContent
           \/ ReadContent \/ CallbackReturns
  BY <1>1, <1>7 DEF LeaveLoop, AwaitHeader, EmptyPacket, Kill, AwaitContent,
                    ReadContent, CallbackReturns, CanReadHeader, Pass
<1>8. CASE addDevice \/ removeDevice
  BY <1>1, <1>8 DEF addDevice, removeDevice
<1>9. CASE UNCHANGED vars
  BY <1>2, <1>9 DEF vars
<1> QED
  BY <1>1, <1>3, <1>4, <1>5, <1>6, <1>7, <1>8, <1>9 DEF Next, dataHandler

\* Only sending moves the directory.
LEMMA SameStream ==
  ASSUME [Next]_vars, \A n \in SendLengths : ~sendDataPacket(n)
  PROVE  UNCHANGED <<sent, written>>
BY DEF Next, Arrive, dataHandler, LeaveLoop, AwaitHeader, ReadHeader, EmptyPacket,
       Kill, MoreContent, AwaitContent, ReadContent, CallbackReturns, addDevice,
       removeDevice, CanReadHeader, Pass, vars

LEMMA DirectoryStep == ASSUME IInv, [Next]_vars PROVE Directory'
<1> USE FramingAssumption
<1>0. TypeOK /\ Directory
  BY DEF IInv
<1>1. ASSUME NEW n \in SendLengths, sendDataPacket(n) PROVE Directory'
  <2> DEFINE L == Len(sent)
  <2>1. /\ n \in Nat
        /\ Len(sent') = L + 1
        /\ \A k \in 1 .. L : sent'[k] = sent[k]
        /\ sent'[L + 1] = [at |-> written + HeaderSize, len |-> n]
        /\ \A k \in 1 .. L + 1 : HeaderOffset(k)' = HeaderOffset(k)
    BY <1>0, <1>1, SendExtends
  <2>2. L \in Nat /\ written \in Nat /\ written' = written + HeaderSize + n
    BY <1>0, <1>1 DEF TypeOK, sendDataPacket
  <2>3. HeaderOffset(L + 1) = written
    BY <2>2 DEF HeaderOffset
  <2>4. ASSUME NEW k, k = L + 2 PROVE HeaderOffset(k)' = written'
    BY <2>1, <2>2, <2>4 DEF HeaderOffset
  <2>5. HeaderOffset(1)' = 0
    BY <1>0, <2>1, <2>2 DEF Directory
  <2>6. ASSUME NEW k \in 1 .. Len(sent')
        PROVE  HeaderOffset(k + 1)' = sent'[k].at + sent'[k].len
    <3>1. CASE k \in 1 .. L
      <4>1. k + 1 \in 1 .. L + 1
        BY <2>2, <3>1
      <4>2. HeaderOffset(k + 1)' = HeaderOffset(k + 1)
        BY <2>1, <4>1
      <4> QED
        BY <1>0, <2>1, <3>1, <4>2 DEF Directory
    <3>2. CASE k = L + 1
      <4>1. k + 1 = L + 2
        BY <2>2, <3>2
      <4>2. HeaderOffset(k + 1)' = written'
        BY <2>4, <4>1
      <4> QED
        BY <2>1, <2>2, <3>2, <4>2
    <3> QED
      BY <2>1, <2>2, <3>1, <3>2
  <2>7. ASSUME NEW j \in 1 .. Len(sent') + 1, NEW k \in 1 .. Len(sent') + 1, j < k
        PROVE  HeaderOffset(j)' + HeaderSize <= HeaderOffset(k)'
    <3>1. j \in 1 .. L + 1
      BY <2>1, <2>2, <2>7
    <3>2. CASE k \in 1 .. L + 1
      BY <1>0, <2>1, <2>7, <3>1, <3>2 DEF Directory
    <3>3. CASE k = L + 2
      <4>1. HeaderOffset(k)' = written + HeaderSize + n
        BY <2>2, <2>4, <3>3
      <4>2. HeaderOffset(j)' = HeaderOffset(j)
        BY <2>1, <3>1
      <4>3. CASE j = L + 1
        BY <2>1, <2>2, <2>3, <4>1, <4>2, <4>3
      <4>4. CASE j \in 1 .. L
        <5>1. sent[j] \in Packet
          BY <1>0, <4>4 DEF TypeOK
        <5>2. HeaderOffset(j) \in Int
          BY <2>2, <4>4, <5>1 DEF HeaderOffset, Packet
        <5>3. j \in 1 .. L + 1 /\ L + 1 \in 1 .. L + 1 /\ j < L + 1
          BY <2>2, <4>4
        <5>4. HeaderOffset(j) + HeaderSize <= HeaderOffset(L + 1)
          BY <1>0, <5>3 DEF Directory
        <5> QED
          BY <2>1, <2>2, <2>3, <4>1, <4>2, <5>2, <5>4
      <4> QED
        BY <2>2, <3>1, <4>3, <4>4
    <3> QED
      BY <2>1, <2>2, <3>2, <3>3
  <2> QED
    BY <2>5, <2>6, <2>7 DEF Directory
<1>2. CASE UNCHANGED <<sent, written>>
  BY <1>0, <1>2 DEF Directory, HeaderOffset
<1> QED
  BY <1>1, <1>2, SameStream

LEMMA AlignedStep == ASSUME IInv, [Next]_vars PROVE Aligned'
<1> USE FramingAssumption
<1>0. TypeOK /\ Bounds /\ Directory /\ Aligned
  BY DEF IInv
<1>1. ASSUME NEW n \in SendLengths, sendDataPacket(n)
      PROVE Aligned'
  <2> SUFFICES ASSUME open', ~scrambled' PROVE Aligned'
    BY DEF Aligned
  <2>1. /\ Len(sent') = Len(sent) + 1
        /\ \A k \in 1 .. Len(sent) : sent'[k] = sent[k]
        /\ \A k \in 1 .. Len(sent) + 1 : HeaderOffset(k)' = HeaderOffset(k)
    BY <1>0, <1>1, SendExtends
  <2>2. UNCHANGED <<taken, pkt, pc, handled, open, scrambled>>
    BY <1>1 DEF sendDataPacket
  <2>3. handled \in Nat /\ Len(sent) \in Nat
    BY <1>0 DEF TypeOK
  <2>4. handled <= Len(sent)
    BY <1>0, <2>2 DEF Aligned
  <2>5. handled + 1 \in 1 .. Len(sent) + 1
    BY <2>3, <2>4
  <2>6. HeaderOffset(handled + 1)' = HeaderOffset(handled + 1)
    <3>1. ASSUME NEW k, k = handled + 1 PROVE HeaderOffset(k)' = HeaderOffset(k)
      BY <2>1, <2>5, <3>1
    <3> QED
      BY <2>2, <3>1 DEF HeaderOffset
  <2>7. handled < Len(sent) => sent'[handled + 1] = sent[handled + 1]
    BY <2>1, <2>3
  <2>8. HeaderPending' = HeaderPending
    BY <2>2 DEF HeaderPending
  <2> QED
    BY <1>0, <2>1, <2>2, <2>3, <2>4, <2>6, <2>7, <2>8 DEF Aligned
<1>2. ASSUME UNCHANGED <<sent, written, taken, pkt, handled, open, scrambled>>,
             (pc = "callback") = (pc' = "callback")
      PROVE  Aligned'
  BY <1>0, <1>2 DEF Aligned, HeaderPending, HeaderOffset
<1>3. CASE AwaitHeader
  BY <1>0, <1>3 DEF AwaitHeader, Pass, Aligned, HeaderPending, HeaderOffset
<1>4. CASE ReadHeader
  <2> SUFFICES ASSUME open', ~scrambled' PROVE Aligned'
    BY DEF Aligned
  <2>1. CanReadHeader /\ ~scrambled /\ pc' = "progress"
    BY <1>4 DEF ReadHeader
  <2>2. /\ handled < Len(sent)
        /\ sent[handled + 1].at = taken + HeaderSize
        /\ HeaderAt(taken) = {sent[handled + 1].len}
    BY <2>1, HeaderIsNext
  <2>3. /\ pkt' = sent[handled + 1].len /\ pkt' # 0
        /\ taken' = taken + HeaderSize
        /\ UNCHANGED <<sent, handled>>
    BY <1>4, <2>2 DEF ReadHeader
  <2>4. sent[handled + 1] \in Packet
    BY <1>0, <2>2 DEF TypeOK
  <2>5. ~HeaderPending'
    BY <2>3, <2>4 DEF HeaderPending, Packet, NoPacket
  <2>6. sent[handled + 1] = [at |-> taken', len |-> pkt']
    BY <2>2, <2>3, <2>4 DEF Packet
  <2> QED
    BY <2>1, <2>2, <2>3, <2>5, <2>6, <1>0 DEF TypeOK, Aligned
<1>5. CASE EmptyPacket
  <2> SUFFICES ASSUME open', ~scrambled' PROVE Aligned'
    BY DEF Aligned
  <2>1. CanReadHeader /\ ~scrambled /\ pc' = "loop"
    BY <1>5 DEF EmptyPacket, CanReadHeader, Pass
  <2>2. /\ handled < Len(sent)
        /\ HeaderOffset(handled + 2) = taken + HeaderSize + sent[handled + 1].len
        /\ HeaderAt(taken) = {sent[handled + 1].len}
    BY <2>1, HeaderIsNext
  <2>3. /\ sent[handled + 1].len = 0
        /\ taken' = taken + HeaderSize
        /\ handled' = handled + 1
        /\ pkt' = NoPacket
        /\ UNCHANGED <<sent, written>>
    BY <1>5, <2>2 DEF EmptyPacket
  <2>4. handled' + 1 = handled + 2 /\ handled' <= Len(sent')
    BY <1>0, <2>2, <2>3 DEF TypeOK
  <2>5. HeaderOffset(handled + 1)' = HeaderOffset(handled + 2)
    BY <2>3, <2>4 DEF HeaderOffset
  <2>6. taken' = HeaderOffset(handled + 2)
    BY <1>0, <2>2, <2>3 DEF TypeOK
  <2> QED
    BY <2>1, <2>3, <2>4, <2>5, <2>6 DEF HeaderPending, Aligned
<1>6. CASE Kill
  BY <1>6 DEF Kill, Aligned
<1>7. CASE ReadContent
  <2> SUFFICES ASSUME open', ~scrambled' PROVE Aligned'
    BY DEF Aligned
  <2>1. pc' = "callback" /\ ~scrambled
    BY <1>7 DEF ReadContent
  <2>2. /\ handled < Len(sent)
        /\ HeaderOffset(handled + 2) = taken + pkt
    BY <1>7, <2>1, ContentIsNext
  <2>3. /\ taken' = taken + pkt
        /\ handled' = handled + 1
        /\ UNCHANGED <<sent, written>>
    BY <1>7 DEF ReadContent
  <2>4. handled' + 1 = handled + 2 /\ handled' <= Len(sent')
    BY <1>0, <2>2, <2>3 DEF TypeOK
  <2>5. HeaderOffset(handled + 1)' = HeaderOffset(handled + 2)
    BY <2>3, <2>4 DEF HeaderOffset
  <2> QED
    BY <2>1, <2>2, <2>3, <2>4, <2>5 DEF Aligned
<1>8. CASE CallbackReturns
  BY <1>0, <1>8 DEF CallbackReturns, Aligned, HeaderPending, HeaderOffset
<1>9. CASE removeDevice
  BY <1>0, <1>9 DEF removeDevice, Aligned, HeaderPending, HeaderOffset
<1>10. CASE LeaveLoop
  BY <1>2, <1>10 DEF LeaveLoop, Pass
<1>11. CASE AwaitContent
  BY <1>2, <1>11 DEF AwaitContent
<1>15. CASE MoreContent
  BY <1>2, <1>15 DEF MoreContent, Pass
<1>12. CASE addDevice
  BY <1>2, <1>12 DEF addDevice
<1>13. ASSUME NEW k \in 1 .. written - arrived, Arrive(k) PROVE Aligned'
  BY <1>2, <1>13 DEF Arrive
<1>14. CASE UNCHANGED vars
  BY <1>2, <1>14 DEF vars
<1> QED
  BY <1>1, <1>3, <1>4, <1>5, <1>6, <1>7, <1>8, <1>9, <1>10, <1>11, <1>12, <1>13,
     <1>14, <1>15 DEF Next, dataHandler

-----------------------------------------------------------------------------
(* The theorems.                                                           *)

\* The strengthened invariant holds in every state of every execution.
THEOREM Invariance == Spec => []IInv
<1>1. IInv /\ [Next]_vars => IInv'
  BY TypeStep, BoundsStep, SamplingStep, DirectoryStep, AlignedStep DEF IInv
<1> QED
  BY <1>1, InitIInv, PTL DEF Spec

\* Every variable of the parser keeps its type: in particular what is cached
\* as intPacktLength and what is taken from the device are natural numbers.
THEOREM TypeCorrect == Spec => []TypeOK
<1>1. IInv => TypeOK
  BY DEF IInv
<1> QED
  BY <1>1, Invariance, PTL

\* dataHandler never loses the packet boundaries of the stream, whatever the
\* sizes and limits, however the bytes arrive and even if the number of
\* available bytes is narrowed.
THEOREM Alignment == Spec => []Aligned
<1>1. IInv => Aligned
  BY DEF IInv
<1> QED
  BY <1>1, Invariance, PTL

-----------------------------------------------------------------------------
(* No packet is slept on.                                                  *)

LEMMA NoSleepStep ==
  ASSUME IInv, NeverSleepsOnPacket, [Next]_vars
  PROVE  NeverSleepsOnPacket'
<1> USE FramingAssumption
<1>0. TypeOK /\ Bounds /\ Sampling
  BY DEF IInv
<1>a. /\ Available \in Nat
      /\ open /\ arrived - taken < LenSpace => Available = arrived - taken
  BY <1>0, AvailableIsThere
<1>b. Counted \in Int
  BY <1>0 DEF Counted, TypeOK
<1>1. CASE pc' # "idle"
  BY <1>1 DEF NeverSleepsOnPacket
<1>2. ASSUME Counted' = Counted, UNCHANGED <<taken, pkt, pc, open, scrambled>>
      PROVE  NeverSleepsOnPacket'
  BY <1>2 DEF NeverSleepsOnPacket, HeaderPending
<1>3. ASSUME Pass, UNCHANGED <<arrived, taken>>
      PROVE  Counted' - taken' = arrived - taken
  BY <1>0, <1>3 DEF Pass, Counted, TypeOK
<1>4. CASE LeaveLoop
  <2>1. Available = 0 /\ Pass /\ UNCHANGED <<arrived, taken, pkt, open, scrambled>>
    BY <1>4 DEF LeaveLoop
  <2>2. ~HeaderPending => pkt > 0
    BY <1>0 DEF HeaderPending, TypeOK
  <2>3. Counted' - taken' = arrived - taken
    BY <1>3, <2>1
  <2> QED
    BY <1>0, <1>a, <2>1, <2>2, <2>3 DEF NeverSleepsOnPacket, HeaderPending, TypeOK
<1>5. CASE AwaitHeader
  <2>1. /\ Available < HeaderSize /\ Pass /\ pkt' = 0
        /\ UNCHANGED <<arrived, taken, open, scrambled>>
    BY <1>5 DEF AwaitHeader
  <2>2. Counted' - taken' = arrived - taken
    BY <1>3, <2>1
  <2> QED
    BY <1>0, <1>a, <2>1, <2>2 DEF NeverSleepsOnPacket, HeaderPending, TypeOK
<1>6. CASE AwaitContent
  <2>1. /\ sampled < pkt /\ pc = "progress"
        /\ UNCHANGED <<arrived, unseen, taken, pkt, open, scrambled>>
    BY <1>6 DEF AwaitContent
  <2>2. ~HeaderPending /\ Counted' = Counted
    BY <1>0, <2>1 DEF Bounds, Counted
  <2>3. ~HeaderPending'
    BY <2>1, <2>2 DEF HeaderPending
  <2> QED
    BY <1>0, <2>1, <2>2, <2>3 DEF NeverSleepsOnPacket, Sampling
<1>7. CASE removeDevice
  <2>1. /\ pc = "idle" /\ UNCHANGED <<arrived, unseen, taken, pc, open>>
        /\ pkt' = NoPacket /\ scrambled' = (scrambled \/ ~HeaderPending)
    BY <1>7 DEF removeDevice
  <2>2. Counted' = Counted /\ HeaderPending'
    BY <2>1 DEF Counted, HeaderPending
  <2> QED
    BY <2>1, <2>2 DEF NeverSleepsOnPacket
<1>8. CASE addDevice
  BY <1>2, <1>8 DEF addDevice, Counted
<1>9. ASSUME NEW n \in SendLengths, sendDataPacket(n) PROVE NeverSleepsOnPacket'
  BY <1>2, <1>9 DEF sendDataPacket, Counted
<1>10. ASSUME NEW k \in 1 .. written - arrived, Arrive(k), pc' = "idle"
       PROVE  NeverSleepsOnPacket'
  <2>1. /\ pc = "idle" /\ arrived' = arrived + k /\ unseen' = unseen + k
        /\ UNCHANGED <<taken, pkt, open, scrambled>>
    BY <1>10 DEF Arrive
  <2>2. Counted' = Counted
    BY <1>0, <2>1 DEF Counted, TypeOK
  <2> QED
    BY <1>2, <1>10, <2>1, <2>2
<1>11. CASE ReadHeader \/ MoreContent \/ EmptyPacket \/ Kill \/ ReadContent
            \/ CallbackReturns
  BY <1>1, <1>11 DEF ReadHeader, MoreContent, EmptyPacket, Kill, ReadContent,
                     CallbackReturns, CanReadHeader, Pass
<1>12. CASE UNCHANGED vars
  BY <1>2, <1>12 DEF vars, Counted
<1> QED
  BY <1>1, <1>4, <1>5, <1>6, <1>7, <1>8, <1>9, <1>10, <1>11, <1>12
     DEF Next, dataHandler

\* dataHandler only returns to the event loop when it cannot make progress with
\* the bytes it was called for or has looked at: no packet that is complete
\* among those lies unparsed, waiting for a readyRead that nothing will emit.
THEOREM NoSleep == Spec => []NeverSleepsOnPacket
<1>1. Init => NeverSleepsOnPacket
  BY FramingAssumption DEF Init, NeverSleepsOnPacket, Counted, HeaderPending, NoPacket
<1>2. IInv /\ NeverSleepsOnPacket /\ [Next]_vars => NeverSleepsOnPacket'
  BY NoSleepStep
<1> QED
  BY <1>1, <1>2, Invariance, PTL DEF Spec

-----------------------------------------------------------------------------
(* Refinement.                                                             *)

\* Each step of the parser is a step of the channel or leaves it alone.
LEMMA StepRefines ==
  ASSUME IInv, [Next]_vars
  PROVE  [Channel!Next]_(Channel!vars)
<1> USE FramingAssumption
<1>0. TypeOK /\ Bounds
  BY DEF IInv
<1>1. ASSUME NEW n \in SendLengths, sendDataPacket(n) PROVE Channel!Send
  <2>1. /\ sent' \in Seq(Packet)
        /\ Len(sent') = Len(sent) + 1
        /\ \A k \in 1 .. Len(sent) : sent'[k] = sent[k]
    BY <1>0, <1>1, SendExtends
  <2>2. SubSeq(sent', 1, Len(sent)) = sent
    <3>1. sent \in Seq(Packet) /\ Len(sent) \in Nat
      BY <1>0 DEF TypeOK
    <3> QED
      BY <2>1, <3>1
  <2> QED
    BY <1>1, <2>1, <2>2 DEF sendDataPacket, Channel!Send
<1>2. ASSUME UNCHANGED <<sent, handled, received, open, registered, scrambled>>
      PROVE  UNCHANGED Channel!vars
  BY <1>2 DEF Channel!vars
<1>3. CASE EmptyPacket
  <2>0. CanReadHeader /\ UNCHANGED <<sent, scrambled, received, open, registered>>
        /\ handled' = handled + 1 /\ 0 \in HeaderAt(taken)
    BY <1>3 DEF EmptyPacket
  <2>1. CASE scrambled
    BY <2>0, <2>1 DEF Channel!Garbled, Channel!Next
  <2>2. CASE ~scrambled
    <3>1. open /\ handled < Len(sent) /\ sent[handled + 1].len = 0
      BY <2>0, <2>2, HeaderIsNext
    <3>2. Channel!Swallow
      BY <2>0, <2>2, <3>1 DEF Channel!Swallow, Channel!HandleNext
    <3> QED
      BY <3>2 DEF Channel!Next, Channel!Handle
  <2> QED
    BY <2>1, <2>2
<1>4. CASE Kill
  <2>0. /\ CanReadHeader /\ UNCHANGED <<sent, scrambled, received>>
        /\ open' = FALSE /\ registered' \in {registered, FALSE}
        /\ handled' = handled + 1 /\ \E n \in HeaderAt(taken) : n > MaxDataLength
    BY <1>4 DEF Kill
  <2>1. CASE scrambled
    BY <2>0, <2>1 DEF Channel!Garbled, Channel!Next
  <2>2. CASE ~scrambled
    <3>1. open /\ handled < Len(sent) /\ sent[handled + 1].len > MaxDataLength
      BY <2>0, <2>2, HeaderIsNext
    <3>2. Channel!Refuse
      BY <2>0, <2>2, <3>1 DEF Channel!Refuse, Channel!HandleNext
    <3> QED
      BY <3>2 DEF Channel!Next, Channel!Handle
  <2> QED
    BY <2>1, <2>2
<1>5. CASE ReadContent
  <2>0. /\ UNCHANGED <<sent, scrambled, open, registered>>
        /\ handled' = handled + 1
        /\ received' = Append(received, [at |-> taken, len |-> pkt])
    BY <1>5 DEF ReadContent
  <2>1. CASE scrambled
    BY <2>0, <2>1 DEF Channel!Garbled, Channel!Next
  <2>2. CASE ~scrambled
    <3>1. /\ open /\ handled < Len(sent)
          /\ sent[handled + 1] = [at |-> taken, len |-> pkt]
      BY <1>5, <2>2, ContentIsNext
    <3>2. pkt \in 1 .. MaxDataLength
      BY <1>0, <1>5, SMT DEF ReadContent, HeaderPending, TypeOK, Bounds, NoPacket
    <3>3. Channel!Deliver
      BY <2>0, <2>2, <3>1, <3>2 DEF Channel!Deliver, Channel!HandleNext
    <3> QED
      BY <3>3 DEF Channel!Next, Channel!Handle
  <2> QED
    BY <2>1, <2>2
<1>6. CASE addDevice
  BY <1>6 DEF addDevice, Channel!Attach, Channel!Next
<1>7. CASE removeDevice
  <2>1. (~scrambled') \in {~scrambled, FALSE}
    BY <1>0, <1>7, Zenon DEF removeDevice, TypeOK
  <2>2. registered' = FALSE /\ UNCHANGED <<sent, handled, received, open>>
    BY <1>7 DEF removeDevice
  <2> QED
    BY <2>1, <2>2 DEF Channel!Detach, Channel!Next
<1>8. CASE LeaveLoop
  BY <1>2, <1>8 DEF LeaveLoop
<1>9. CASE AwaitHeader
  BY <1>2, <1>9 DEF AwaitHeader
<1>10. CASE ReadHeader
  BY <1>2, <1>10 DEF ReadHeader
<1>11. CASE AwaitContent
  BY <1>2, <1>11 DEF AwaitContent
<1>15. CASE MoreContent
  BY <1>2, <1>15 DEF MoreContent
<1>12. CASE CallbackReturns
  BY <1>2, <1>12 DEF CallbackReturns
<1>13. ASSUME NEW k \in 1 .. written - arrived, Arrive(k) PROVE UNCHANGED Channel!vars
  BY <1>2, <1>13 DEF Arrive
<1>14. CASE UNCHANGED vars
  BY <1>2, <1>14 DEF vars
<1> QED
  BY <1>1, <1>3, <1>4, <1>5, <1>6, <1>7, <1>8, <1>9, <1>10, <1>11, <1>12, <1>13,
     <1>14, <1>15 DEF Next, dataHandler, Channel!Next

\* The parser implements the channel: the packets of the stream reach
\* newDataPacketReceived in order, each exactly once, pings are swallowed and
\* the first oversized packet ends the connection.
THEOREM Refinement == Spec => ImplementsChannel
<1>1. Init => Channel!Init
  BY DEF Init, Channel!Init
<1>2. IInv /\ [Next]_vars => [Channel!Next]_(Channel!vars)
  BY StepRefines
<1> QED
  BY <1>1, <1>2, Invariance, PTL DEF Spec, ImplementsChannel, Channel!Spec
==============================================================================
