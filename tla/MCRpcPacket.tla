----------------------------- MODULE MCRpcPacket -----------------------------
(* Instances of RpcPacket for TLC. *)
EXTENDS RpcPacket
CONSTANTS a, q, h, w, nul, bad

\* Names of every class; those of 3 and of 7 characters are too long.
MCNames == {<<a>>, <<a, q>>, <<h>>, <<w>>, <<a, a, a>>, <<a, q, q, q, q, q, q>>}
MCDatas == {<< >>, <<q>>, <<nul, a>>}
MCForeign == [field : -3 .. 2, rest : {<< >>, <<a>>, <<a, nul>>, <<a, q, q>>}]

Before == [type |-> "before", thread |-> "own", slot |-> TRUE]
MCEventLists ==
  UNION {[1 .. n -> {Before, [Before EXCEPT !.type = "after"],
                     [Before EXCEPT !.thread = "other"],
                     [Before EXCEPT !.slot = FALSE]}] : n \in 0 .. 3}
==============================================================================
