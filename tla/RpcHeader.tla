------------------------------ MODULE RpcHeader ------------------------------
(***************************************************************************)
(* The header an EleaphRpc packet starts with, the length and the name of  *)
(* its method: how constructRpcPacket writes it and the head of            *)
(* newDataPacketReceived reads it (src/eleaphrpc.cpp).                     *)
(*                                                                         *)
(* Names and data are sequences of characters and bytes, of which only     *)
(* the classes matter.  A content is the number its first two bytes hold   *)
(* and the bytes behind them.                                              *)
(***************************************************************************)
EXTENDS Integers, Sequences

CONSTANTS
  Half,        \* 2^15: a qint16 is a number in -Half .. Half - 1
  Space,       \* 2^32: intPacktLength is a quint32
  Plain,       \* ASCII characters but NUL
  High,        \* the other Latin-1 characters
  Wide,        \* all other characters
  Nul,
  Question,    \* what toLatin1 writes for a wide character
  Replacement  \* what QString reads for a byte that is no UTF-8

ASSUME HeaderAssumption ==
  /\ Half \in Nat \ {0} /\ Space \in Nat \ {0} /\ Half < Space
  /\ Plain \cap (High \cup Wide) = {} /\ High \cap Wide = {}
  /\ Nul \notin Plain \cup High \cup Wide
  /\ Question \in Plain /\ Replacement \in Wide

Byte == Plain \cup High \cup {Nul}
Name == Seq(Plain \cup High \cup Wide)
Content == [field : (- Half) .. (Half - 1), rest : Seq(Byte)]

Signed(n) == ((n + Half) % (2 * Half)) - Half

toLatin1(name) ==
  [i \in DOMAIN name |-> IF name[i] \in Wide THEN Question ELSE name[i]]

constructRpcPacket(name, data) ==
  [field |-> Signed(Len(name)), rest |-> toLatin1(name) \o data]

\* baRawPacketData->mid(sizeof(qint16), n): to the end if n is negative or large.
Mid(bytes, n) ==
  IF n \in 0 .. Len(bytes) THEN SubSeq(bytes, 1, n) ELSE bytes

\* QString(QByteArray) reads up to the first NUL.  (Several high bytes may also
\* make one character.)
BeforeNul(bytes) ==
  {i \in DOMAIN bytes : \A j \in 1 .. i : bytes[j] # Nul}
FromBytes(bytes) ==
  [i \in BeforeNul(bytes) |-> IF bytes[i] \in High THEN Replacement ELSE bytes[i]]

strMethodName(content) == FromBytes(Mid(content.rest, content.field))

\* baRawPacketData->remove(0, sizeof(qint16) + field): the bytes of the header
\* that stay, and the bytes behind it that do.
HeaderLeft(content) ==
  IF content.field >= 0 THEN 0 ELSE IF content.field = -1 THEN 1 ELSE 2
DataLeft(content) ==
  IF content.field <= 0 THEN content.rest
  ELSE SubSeq(content.rest, content.field + 1, Len(content.rest))

\* Mutation: the field itself is not taken off.
LengthLeft_KeepsField(content) == (2 + Len(content.rest) - content.field) % Space

\* intPacktLength, whatever was there to be removed.
LengthLeft(content) == (Len(content.rest) - content.field) % Space

\* The packet the methods are given.
EleaphRpcPacket(content) ==
  [strMethodName |-> strMethodName(content), header |-> HeaderLeft(content),
   data |-> DataLeft(content), intPacktLength |-> LengthLeft(content)]

\* The names a header can carry.
Carried == {name \in Seq(Plain) : Len(name) < Half}
==============================================================================
