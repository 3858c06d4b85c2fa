----------------------------- MODULE MCTcpServer -----------------------------
(* Instances of TcpServer for TLC. *)
EXTENDS TcpServer
CONSTANTS c1, c2, c3, s1, s2, p1, p2
==============================================================================
