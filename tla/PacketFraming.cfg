SPECIFICATION FairSpec
CONSTANTS
  HeaderSize = 2
  LenSpace = 20
  MaxDataLength = 3
  SendLengths <- MCSendLengths
  MaxFrames = 3
INVARIANTS TypeOK Aligned NeverSleepsOnPacket
PROPERTIES ImplementsChannel GetsRoundToEveryPacket
