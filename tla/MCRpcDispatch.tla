---------------------------- MODULE MCRpcDispatch ----------------------------
EXTENDS RpcDispatch

CONSTANTS m1, m2, o1, o2, o3, s1, main, w1, w2

\* One receiver in the thread of the EleaphRpc object, two in worker threads.
MCThreadOf == [o \in Objects |-> IF o = o1 THEN main ELSE IF o = o2 THEN w1 ELSE w2]
==============================================================================
