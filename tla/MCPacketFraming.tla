--------------------------- MODULE MCPacketFraming ---------------------------
EXTENDS PacketFraming

\* Empty, allowed and oversized packets for a limit of 3: shorter
\* and longer than a header of 2 bytes.
MCSendLengths == {0, 1, 3, 4}
==============================================================================
