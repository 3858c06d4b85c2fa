--------------------------- MODULE TcpServerProofs ---------------------------
(***************************************************************************)
(* Proofs about TcpServer, for any number of clients, servers and ports.   *)
(*                                                                         *)
(* NoneStranded and RegisteredAreLive need each other's surroundings: a    *)
(* socket is registered in the step that makes it pending, because nothing *)
(* was pending before; and at that moment it is not down.                  *)
(* Queues and owners build on them: a connection is added to the queue of  *)
(* a replaced server, or registered with every queue left as it was.       *)
(***************************************************************************)
EXTENDS TcpServer, TLAPS

IInv ==
  /\ TypeOK
  /\ NoneStranded
  /\ RegisteredAreLive
  /\ \A c \in Clients : conn[c].at = "backlog" => ~conn[c].down

\* What newTcpHost finds when nothing has been added to a pending list: it
\* changes nothing.
LEMMA NothingPending ==
  ASSUME NoneStranded, NEW k, newTcpHost(server, k)
  PROVE  server' = server /\ conn' = k
BY DEF newTcpHost, NoneStranded

\* Changing the phase of a connection keeps its type.
LEMMA MovedType ==
  ASSUME TypeOK, NEW c \in Clients, conn[c].at # "away",
         NEW at \in {"handshake", "pending", "registered"}
  PROVE  /\ Moved(c, at) \in [Clients -> Connection]
         /\ \A d \in Clients : d # c => Moved(c, at)[d] = conn[d]
         /\ Moved(c, at)[c].at = at
         /\ Moved(c, at)[c].down = conn[c].down
         /\ \A d \in Clients : Moved(c, at)[d].of = None <=> Moved(c, at)[d].at = "away"
<1>1. conn[c] \in Connection /\ conn \in [Clients -> Connection]
  BY DEF TypeOK
<1>2. [conn[c] EXCEPT !.at = at] \in Connection
  BY <1>1 DEF Connection
<1>3. /\ [conn[c] EXCEPT !.at = at].at = at
      /\ [conn[c] EXCEPT !.at = at].down = conn[c].down
      /\ [conn[c] EXCEPT !.at = at].of = conn[c].of
  BY <1>1 DEF Connection
<1>4. Moved(c, at) = [conn EXCEPT ![c] = [conn[c] EXCEPT !.at = at]]
  BY <1>1 DEF Moved
<1>5. conn[c].of # None /\ at # "away"
  BY DEF TypeOK
<1> QED
  BY <1>1, <1>2, <1>3, <1>4, <1>5 DEF TypeOK

\* Adding a pending connection and taking one: if none was pending, the
\* connection added to the current server is the one that is registered, and
\* one that is added to a replaced server stays there.
LEMMA AddAndTake ==
  ASSUME IInv, NEW s \in Servers, NEW c \in Clients,
         conn[c].at # "away", ~conn[c].down,
         newTcpHost(Enqueue(s, c), Moved(c, "pending")), UNCHANGED serverTcp
  PROVE  IInv'
<1>1. server[s] \in Server /\ server \in [Servers -> Server] /\ serverTcp \in Servers \cup {None}
  BY DEF IInv, TypeOK
<1>2. Append(server[s].pending, c) \in Seq(Clients) /\ Append(server[s].pending, c) # << >>
  <2>1. server[s].pending \in Seq(Clients)
    BY <1>1 DEF Server
  <2>2. Append(server[s].pending, c) \in Seq(Clients)
    BY <2>1
  <2>3. Len(Append(server[s].pending, c)) = Len(server[s].pending) + 1
    BY <2>1
  <2>4. Len(server[s].pending) \in Nat /\ Len(<< >>) = 0
    BY <2>1
  <2> QED
    BY <2>2, <2>3, <2>4
<1> DEFINE more == [server[s] EXCEPT !.pending = Append(@, c)]
<1>3. more \in Server /\ more.pending = Append(server[s].pending, c)
  BY <1>1, <1>2 DEF Server
<1>4. Enqueue(s, c) = [server EXCEPT ![s] = more]
  BY <1>1 DEF Enqueue
<1> HIDE DEF more
<1>5. CASE serverTcp # s
  <2>1. serverTcp = None \/ Enqueue(s, c)[serverTcp].pending = << >>
    BY <1>1, <1>4, <1>5 DEF IInv, NoneStranded
  <2>2. server' = Enqueue(s, c) /\ conn' = Moved(c, "pending")
    BY <2>1 DEF newTcpHost
  <2>3. server' \in [Servers -> Server] /\ NoneStranded'
    BY <2>2, <1>1, <1>3, <1>4, <1>5 DEF IInv, NoneStranded
  <2>4. /\ conn' \in [Clients -> Connection]
        /\ \A d \in Clients : conn'[d].of = None <=> conn'[d].at = "away"
        /\ \A d \in Clients : d # c => conn'[d] = conn[d]
        /\ conn'[c].at = "pending"
    BY <2>2, MovedType DEF IInv
  <2> QED
    BY <2>3, <2>4, <1>1 DEF IInv, TypeOK, RegisteredAreLive
<1>6. CASE serverTcp = s
  <2>1. server[s].pending = << >> /\ serverTcp # None
    BY <1>1, <1>6, TcpServerAssumption DEF IInv, NoneStranded
  <2>2. /\ Enqueue(s, c)[s].pending = <<c>>
        /\ Enqueue(s, c) \in [Servers -> Server]
    BY <1>1, <1>3, <1>4, <2>1
  <2>3. /\ server' = [Enqueue(s, c) EXCEPT ![s].pending = Tail(@)]
        /\ conn' = [Moved(c, "pending") EXCEPT ![c].at = "registered"]
    <3>1. Enqueue(s, c)[s].pending # << >>
      BY <1>1, <1>2, <1>3, <1>4
    <3>2. Head(Enqueue(s, c)[s].pending) = c
      BY <2>2
    <3> QED
      BY <3>1, <3>2, <2>1, <1>6 DEF newTcpHost
  <2>4. [Enqueue(s, c)[s] EXCEPT !.pending = << >>] \in Server
    <3>1. << >> \in Seq(Clients) /\ Enqueue(s, c)[s] \in Server
      BY <2>2
    <3> QED
      BY <3>1 DEF Server
  <2>5. server' \in [Servers -> Server] /\ server'[s].pending = << >>
    <3>1. server' = [Enqueue(s, c) EXCEPT ![s] = [Enqueue(s, c)[s] EXCEPT !.pending = << >>]]
      BY <2>2, <2>3
    <3>2. [Enqueue(s, c)[s] EXCEPT !.pending = << >>].pending = << >>
      BY <2>2 DEF Server
    <3> QED
      BY <2>2, <2>4, <3>1, <3>2
  <2>6. Moved(c, "pending") \in [Clients -> Connection]
    BY MovedType DEF IInv
  <2>7. conn' = Moved(c, "registered")
    BY <2>3, <2>6 DEF Moved, IInv, TypeOK, Connection
  <2>8. /\ conn' \in [Clients -> Connection]
        /\ \A d \in Clients : conn'[d].of = None <=> conn'[d].at = "away"
        /\ \A d \in Clients : d # c => conn'[d] = conn[d]
        /\ conn'[c].at = "registered" /\ ~conn'[c].down
    BY <2>7, MovedType DEF IInv
  <2> QED
    BY <2>5, <2>8, <1>1, <1>6 DEF IInv, TypeOK, RegisteredAreLive, NoneStranded
<1> QED
  BY <1>5, <1>6

\* A change of one connection that is typed and is neither registered nor in a
\* backlog when down keeps the invariant.
LEMMA OneConnection ==
  ASSUME IInv, NEW c \in Clients, NEW k \in Connection,
         k.of = None <=> k.at = "away",
         k.at \in {"registered", "backlog"} => ~k.down,
         conn' = [conn EXCEPT ![c] = k], UNCHANGED <<serverTcp, server>>
  PROVE  IInv'
BY DEF IInv, TypeOK, NoneStranded, RegisteredAreLive

LEMMA AwayType == Away \in Connection /\ Away.of = None /\ Away.at = "away" /\ ~Away.down
BY DEF Away, Connection

-----------------------------------------------------------------------------
LEMMA InitInv == Init => IInv
<1> SUFFICES ASSUME Init PROVE IInv
  OBVIOUS
<1>1. << >> \in Seq(Clients)
  OBVIOUS
<1>2. \A p \in Ports : Unused(p) \in Server
  BY <1>1 DEF Unused, Server
<1>3. server \in [Servers -> Server]
  BY <1>2 DEF Init
<1> QED
  BY <1>3, AwayType DEF Init, IInv, TypeOK, NoneStranded, RegisteredAreLive

LEMMA StepInv == IInv /\ [Next]_vars => IInv'
<1> SUFFICES ASSUME IInv, [Next]_vars PROVE IInv'
  OBVIOUS
<1>0. /\ server \in [Servers -> Server] /\ conn \in [Clients -> Connection]
      /\ serverTcp \in Servers \cup {None}
  BY DEF IInv, TypeOK
<1>1. ASSUME NEW p \in Ports, NEW ssl \in UseSSL, startTcpListening(p, ssl) PROVE IInv'
  <2>1. PICK s \in Servers :
          /\ serverTcp' = s
          /\ server' = [t \in Servers |->
               IF t = s
               THEN [state |-> "used", ssl |-> ssl, port |-> p,
                     listening |-> ~PortTaken(p), pending |-> << >>]
               ELSE IF t = serverTcp THEN [server[t] EXCEPT !.state = "doomed"]
               ELSE server[t]]
    BY <1>1 DEF startTcpListening
  <2> DEFINE new == [state |-> "used", ssl |-> ssl, port |-> p,
                     listening |-> ~PortTaken(p), pending |-> << >>]
  <2>2. new \in Server /\ new.pending = << >>
    <3>0. ssl \in BOOLEAN
      BY TcpServerAssumption
    <3>1. (~PortTaken(p)) \in BOOLEAN
      BY Zenon DEF PortTaken
    <3>2. << >> \in Seq(Clients)
      OBVIOUS
    <3> HIDE DEF PortTaken
    <3> QED
      BY <3>0, <3>1, <3>2 DEF Server
  <2>3. \A t \in Servers : [server[t] EXCEPT !.state = "doomed"] \in Server
    BY <1>0 DEF Server
  <2> HIDE DEF new
  <2>4. server' = [t \in Servers |-> IF t = s THEN new
                     ELSE IF t = serverTcp THEN [server[t] EXCEPT !.state = "doomed"]
                     ELSE server[t]]
    BY <2>1 DEF new
  <2>5. server' \in [Servers -> Server] /\ server'[s].pending = << >>
    BY <2>2, <2>3, <2>4, <1>0
  <2>6. conn' = conn
    BY <1>1 DEF startTcpListening
  <2> QED
    BY <2>1, <2>5, <2>6 DEF IInv, TypeOK, NoneStranded, RegisteredAreLive
<1>2. ASSUME NEW s \in Servers, ServerDeleted(s) PROVE IInv'
  <2>1. /\ server' = [server EXCEPT ![s] = Unused(server[s].port)]
        /\ conn' = [c \in Clients |-> IF conn[c].of = s THEN Away ELSE conn[c]]
        /\ serverTcp' = serverTcp
    BY <1>2 DEF ServerDeleted
  <2>2. Unused(server[s].port) \in Server /\ Unused(server[s].port).pending = << >>
    BY <1>0 DEF Unused, Server
  <2>3. server' \in [Servers -> Server] /\ NoneStranded'
    BY <2>1, <2>2, <1>0 DEF IInv, NoneStranded
  <2> QED
    BY <2>1, <2>3, <1>0, AwayType DEF IInv, TypeOK, RegisteredAreLive
<1>3. ASSUME NEW s \in Servers, NEW c \in Clients, Accept(s, c) PROVE IInv'
  <2>1. conn[c].at = "backlog" /\ ~conn[c].down /\ serverTcp' = serverTcp
    BY <1>3 DEF Accept, IInv
  <2>2. CASE newTcpHost(Enqueue(s, c), Moved(c, "pending"))
    BY <2>1, <2>2, AddAndTake
  <2>3. CASE newTcpHost(server, Moved(c, "handshake"))
    <3>1. server' = server /\ conn' = Moved(c, "handshake")
      BY <2>3, NothingPending DEF IInv
    <3>2. /\ conn' \in [Clients -> Connection]
          /\ \A d \in Clients : conn'[d].of = None <=> conn'[d].at = "away"
          /\ \A d \in Clients : d # c => conn'[d] = conn[d]
          /\ conn'[c].at = "handshake"
      BY <3>1, <2>1, MovedType DEF IInv
    <3> QED
      BY <3>1, <3>2, <2>1 DEF IInv, TypeOK, NoneStranded, RegisteredAreLive
  <2>4. CASE newTcpHost(server, [conn EXCEPT ![c] = Away])
    <3>1. server' = server /\ conn' = [conn EXCEPT ![c] = Away]
      BY <2>4, NothingPending DEF IInv
    <3> QED
      BY <3>1, <2>1, AwayType, OneConnection
  <2> QED
    BY <1>3, <2>2, <2>3, <2>4 DEF Accept, incomingConnection
<1>4. ASSUME NEW s \in Servers, NEW c \in Clients, Connect(c, s) PROVE IInv'
  <2>1. [at |-> "backlog", of |-> s, peer |-> TRUE, down |-> FALSE] \in Connection
    BY DEF Connection
  <2> QED
    BY <1>4, <2>1, OneConnection, TcpServerAssumption DEF Connect
<1>5. ASSUME NEW c \in Clients, handleSocketEncryption(c) PROVE IInv'
  <2>1. conn[c].at = "handshake" /\ ~conn[c].down /\ conn[c].of \in Servers
    BY <1>5, <1>0 DEF handleSocketEncryption, IInv, TypeOK, Connection
  <2> QED
    BY <1>5, <2>1, AddAndTake DEF handleSocketEncryption
<1>6. ASSUME NEW c \in Clients, handleSSLError(c) \/ Leave(c) \/ Disconnected(c) \/ SocketDeleted(c)
      PROVE  IInv'
  <2>1. conn[c] \in Connection /\ (conn[c].of = None <=> conn[c].at = "away")
        /\ (conn[c].at \in {"registered", "backlog"} => ~conn[c].down)
    BY <1>0 DEF IInv, TypeOK, RegisteredAreLive
  <2>2. CASE handleSSLError(c)
    <3> DEFINE k == [conn[c] EXCEPT !.down = TRUE, !.peer = FALSE]
    <3>1. k \in Connection /\ k.of = conn[c].of /\ k.at = "handshake" /\ conn' = [conn EXCEPT ![c] = k]
      BY <2>1, <2>2, <1>0 DEF handleSSLError, Connection
    <3> QED
      BY <3>1, <2>1, <2>2, OneConnection DEF handleSSLError
  <2>3. CASE Leave(c)
    <3> DEFINE k == [conn[c] EXCEPT !.peer = FALSE]
    <3>1. /\ k \in Connection /\ k.of = conn[c].of /\ k.at = conn[c].at /\ k.down = conn[c].down
          /\ conn' = [conn EXCEPT ![c] = k]
      BY <2>1, <2>3, <1>0 DEF Leave, Connection
    <3> QED
      BY <3>1, <2>1, <2>3, OneConnection DEF Leave
  <2>4. CASE Disconnected(c)
    <3> DEFINE at == IF conn[c].at = "registered" THEN "doomed" ELSE conn[c].at
               k == [conn[c] EXCEPT !.down = TRUE, !.at = at]
    <3>1. /\ k \in Connection /\ k.of = conn[c].of /\ k.at = at
          /\ conn' = [conn EXCEPT ![c] = k]
      BY <2>1, <2>4, <1>0 DEF Disconnected, Connection
    <3>2. at \in {"handshake", "pending", "doomed"} /\ conn[c].at # "away"
      BY <2>4 DEF Disconnected
    <3> QED
      BY <3>1, <3>2, <2>1, <2>4, OneConnection DEF Disconnected
  <2>5. CASE SocketDeleted(c)
    BY <2>5, AwayType, OneConnection DEF SocketDeleted
  <2> QED
    BY <1>6, <2>2, <2>3, <2>4, <2>5
<1>7. CASE UNCHANGED vars
  BY <1>7 DEF vars, IInv, TypeOK, NoneStranded, RegisteredAreLive
<1> QED
  BY <1>1, <1>2, <1>3, <1>4, <1>5, <1>6, <1>7 DEF Next

LEMMA Invariance == Spec => []IInv
BY InitInv, StepInv, PTL DEF Spec

-----------------------------------------------------------------------------
\* The servers and connections keep their types, and a connection belongs to a
\* server unless it is away.
THEOREM TypeCorrect == Spec => []TypeOK
<1>1. IInv => TypeOK
  BY DEF IInv
<1> QED
  BY <1>1, Invariance, PTL

\* newTcpHost leaves no connection of the current server pending, however
\* handshakes end and servers are replaced.
THEOREM NoneIsStranded == Spec => []NoneStranded
<1>1. IInv => NoneStranded
  BY DEF IInv
<1> QED
  BY <1>1, Invariance, PTL

\* No socket is registered after its disconnected() signal.
THEOREM OnlyTheLive == Spec => []RegisteredAreLive
<1>1. IInv => RegisteredAreLive
  BY DEF IInv
<1> QED
  BY <1>1, Invariance, PTL
-----------------------------------------------------------------------------
(* Queues and owners.                                                      *)

\* The current server is the one in use, only servers that exist listen, and
\* connections belong to servers that exist.
Owned ==
  /\ \A s \in Servers : server[s].state = "used" <=> s = serverTcp
  /\ \A s \in Servers : server[s].listening => server[s].state # "free"
  /\ \A c \in Clients : conn[c].of # None => server[conn[c].of].state # "free"

\* The queue of server s holds what is pending there.
Queued(s) ==
  /\ IsInjective(server[s].pending)
  /\ Range(server[s].pending) = {c \in Clients : conn[c].at = "pending" /\ conn[c].of = s}

Orderly == Owned /\ PendingIsQueued

LEMMA EmptyQueue == IsInjective(<< >>) /\ Range(<< >>) = {}
BY DEF IsInjective, Range

LEMMA LongerQueue ==
  ASSUME NEW S, NEW q \in Seq(S), NEW c \in S, IsInjective(q), c \notin Range(q)
  PROVE  IsInjective(Append(q, c)) /\ Range(Append(q, c)) = Range(q) \cup {c}
<1> DEFINE t == Append(q, c)
           n == Len(q)
<1>1. /\ n \in Nat /\ DOMAIN q = 1 .. n /\ DOMAIN t = 1 .. n + 1 /\ t[n + 1] = c
      /\ \A i \in 1 .. n : t[i] = q[i]
  OBVIOUS
<1> HIDE DEF t, n
<1>2. 1 .. n + 1 = (1 .. n) \cup {n + 1} /\ n + 1 \notin 1 .. n
  BY <1>1
<1>3. \A i \in 1 .. n : q[i] # c
  BY <1>1 DEF Range
<1>4. IsInjective(t)
  BY <1>1, <1>2, <1>3 DEF IsInjective
<1>5. Range(t) = Range(q) \cup {c}
  BY <1>1, <1>2 DEF Range
<1> QED
  BY <1>4, <1>5 DEF t

\* A connection that was not pending is either added to a replaced server, or
\* registered, with the queues of all servers as they were.
LEMMA AddsOrRegisters ==
  ASSUME IInv, NEW s \in Servers, NEW c \in Clients,
         conn[c].at # "away",
         newTcpHost(Enqueue(s, c), Moved(c, "pending"))
  PROVE  \/ server' = Enqueue(s, c) /\ conn' = Moved(c, "pending")
         \/ server' = server /\ conn' = Moved(c, "registered")
<1>1. /\ server[s] \in Server /\ server \in [Servers -> Server]
      /\ serverTcp \in Servers \cup {None} /\ conn \in [Clients -> Connection]
      /\ server[s].pending \in Seq(Clients)
  BY DEF IInv, TypeOK, Server
<1> DEFINE q == Append(server[s].pending, c)
           more == [server[s] EXCEPT !.pending = q]
<1>2. q \in Seq(Clients)
  BY <1>1
<1>3. Enqueue(s, c) = [server EXCEPT ![s] = more]
  BY <1>1 DEF Enqueue
<1> HIDE DEF q
<1>4. more \in Server /\ more.pending = q
  BY <1>1, <1>2 DEF Server
<1> HIDE DEF more
<1>5. CASE serverTcp # s
  <2>1. serverTcp = None \/ Enqueue(s, c)[serverTcp].pending = << >>
    BY <1>1, <1>3, <1>5 DEF IInv, NoneStranded
  <2> QED
    BY <2>1 DEF newTcpHost
<1>6. CASE serverTcp = s
  <2>1. server[s].pending = << >> /\ serverTcp # None
    BY <1>1, <1>6, TcpServerAssumption DEF IInv, NoneStranded
  <2>2. q = <<c>>
    BY <2>1 DEF q
  <2>3. q # << >> /\ Head(q) = c /\ Tail(q) = << >>
    BY <2>2
  <2>4. Enqueue(s, c)[s] = more
    BY <1>1, <1>3
  <2>5. /\ server' = [Enqueue(s, c) EXCEPT ![s].pending = Tail(@)]
        /\ conn' = [Moved(c, "pending") EXCEPT ![c].at = "registered"]
    BY <1>4, <1>6, <2>1, <2>3, <2>4 DEF newTcpHost
  <2>6. [more EXCEPT !.pending = << >>] = server[s]
    BY <1>1, <2>1 DEF more, Server
  <2>7. server' = [Enqueue(s, c) EXCEPT ![s] = [more EXCEPT !.pending = << >>]]
    BY <1>4, <2>3, <2>4, <2>5
  <2>8. server' = server
    BY <1>1, <1>3, <2>6, <2>7
  <2>9. Moved(c, "pending") \in [Clients -> Connection]
    BY MovedType DEF IInv
  <2>10. conn' = Moved(c, "registered")
    BY <2>5, <2>9, <1>1 DEF Moved, Connection
  <2> QED
    BY <2>8, <2>10
<1> QED
  BY <1>5, <1>6
\* One connection changes, which was pending if it is.
LEMMA OneOrderly ==
  ASSUME IInv, Orderly, NEW c \in Clients, NEW k \in Connection,
         k.of # None => server[k.of].state # "free",
         k.at = "pending" <=> conn[c].at = "pending",
         k.at = "pending" => k.of = conn[c].of,
         conn' = [conn EXCEPT ![c] = k], UNCHANGED <<serverTcp, server>>
  PROVE  Orderly'
<1>1. \A d \in Clients : conn'[d] = IF d = c THEN k ELSE conn[d]
  BY DEF IInv, TypeOK
<1>2. Owned'
  BY <1>1 DEF Orderly, Owned
<1>3. ASSUME NEW s \in Servers PROVE Queued(s)'
  <2>1. {d \in Clients : conn'[d].at = "pending" /\ conn'[d].of = s}
          = {d \in Clients : conn[d].at = "pending" /\ conn[d].of = s}
    BY <1>1
  <2>2. Queued(s)
    BY DEF Orderly, PendingIsQueued, Queued
  <2> QED
    BY <2>1, <2>2 DEF Queued
<1> QED
  BY <1>2, <1>3 DEF Orderly, PendingIsQueued, Queued

\* What Moved leaves alone.
LEMMA MovedIs ==
  ASSUME TypeOK, NEW c \in Clients, NEW at \in {"handshake", "pending", "registered"}
  PROVE  /\ [conn[c] EXCEPT !.at = at] \in Connection
         /\ [conn[c] EXCEPT !.at = at].at = at
         /\ [conn[c] EXCEPT !.at = at].of = conn[c].of
         /\ Moved(c, at) = [conn EXCEPT ![c] = [conn[c] EXCEPT !.at = at]]
BY DEF TypeOK, Connection, Moved

LEMMA AddingOrderly ==
  ASSUME IInv, Orderly, NEW s \in Servers, NEW c \in Clients,
         conn[c].at \in {"backlog", "handshake"}, conn[c].of = s,
         newTcpHost(Enqueue(s, c), Moved(c, "pending")), UNCHANGED serverTcp
  PROVE  Orderly'
<1>1. TypeOK /\ s # None /\ server[s].state # "free"
  BY TcpServerAssumption DEF IInv, Orderly, Owned
<1>2. CASE server' = server /\ conn' = Moved(c, "registered")
  <2> DEFINE k == [conn[c] EXCEPT !.at = "registered"]
  <2>1. /\ k \in Connection /\ k.at = "registered" /\ k.of = s
        /\ conn' = [conn EXCEPT ![c] = k]
    BY <1>1, <1>2, MovedIs
  <2> HIDE DEF k
  <2> QED
    BY <1>1, <1>2, <2>1, OneOrderly
<1>3. CASE server' = Enqueue(s, c) /\ conn' = Moved(c, "pending")
  <2> DEFINE k == [conn[c] EXCEPT !.at = "pending"]
             q == Append(server[s].pending, c)
             more == [server[s] EXCEPT !.pending = q]
  <2>1. k.at = "pending" /\ k.of = s /\ conn' = [conn EXCEPT ![c] = k]
    BY <1>1, <1>3, MovedIs
  <2> HIDE DEF k
  <2>2. \A d \in Clients : conn'[d] = IF d = c THEN k ELSE conn[d]
    BY <1>1, <2>1 DEF TypeOK
  <2>3. server[s] \in Server /\ server[s].pending \in Seq(Clients)
    BY <1>1 DEF TypeOK, Server
  <2>4. server' = [server EXCEPT ![s] = more]
    BY <1>1, <1>3 DEF Enqueue, TypeOK
  <2>5. q \in Seq(Clients)
    BY <2>3
  <2> HIDE DEF q
  <2>6. /\ more.pending = q /\ more.state = server[s].state
        /\ more.listening = server[s].listening
    BY <2>3, <2>5 DEF Server
  <2> HIDE DEF more
  <2>7. \A t \in Servers : server'[t] = IF t = s THEN more ELSE server[t]
    BY <1>1, <2>4 DEF TypeOK
  <2>8. Owned'
    <3>1. \A t \in Servers : /\ server'[t].state = server[t].state
                             /\ server'[t].listening = server[t].listening
      BY <2>6, <2>7
    <3>2. \A d \in Clients : conn'[d].of = conn[d].of /\ conn[d].of \in Servers \cup {None}
      BY <1>1, <2>1, <2>2 DEF TypeOK, Connection
    <3> QED
      BY <3>1, <3>2 DEF Orderly, Owned
  <2>9. ASSUME NEW t \in Servers PROVE Queued(t)'
    <3>1. Queued(t)
      BY DEF Orderly, PendingIsQueued, Queued
    <3>2. CASE t = s
      <4>1. c \notin Range(server[s].pending) /\ IsInjective(server[s].pending)
        BY <3>1, <3>2 DEF Queued
      <4>2. IsInjective(q) /\ Range(q) = Range(server[s].pending) \cup {c}
        BY <2>3, <4>1, LongerQueue DEF q
      <4>3. {d \in Clients : conn'[d].at = "pending" /\ conn'[d].of = s}
              = {d \in Clients : conn[d].at = "pending" /\ conn[d].of = s} \cup {c}
        BY <2>1, <2>2
      <4>4. server'[t].pending = q
        BY <2>6, <2>7, <3>2
      <4> QED
        BY <3>1, <3>2, <4>2, <4>3, <4>4 DEF Queued
    <3>3. CASE t # s
      <4>1. {d \in Clients : conn'[d].at = "pending" /\ conn'[d].of = t}
              = {d \in Clients : conn[d].at = "pending" /\ conn[d].of = t}
        BY <2>1, <2>2, <3>3
      <4>2. server'[t] = server[t]
        BY <2>7, <3>3
      <4> QED
        BY <3>1, <4>1, <4>2 DEF Queued
    <3> QED
      BY <3>2, <3>3
  <2> QED
    BY <2>8, <2>9 DEF Orderly, PendingIsQueued, Queued
<1> QED
  BY <1>1, <1>2, <1>3, AddsOrRegisters

\* A server that is replaced waits for its deletion; the new one, which did not
\* exist, owns nothing yet.
LEMMA ReplacingOrderly ==
  ASSUME IInv, Orderly, NEW p \in Ports, NEW ssl \in UseSSL, startTcpListening(p, ssl)
  PROVE  Orderly'
<1>1. PICK s \in Servers :
        /\ server[s].state = "free"
        /\ serverTcp' = s
        /\ server' = [t \in Servers |->
             IF t = s
             THEN [state |-> "used", ssl |-> ssl, port |-> p,
                   listening |-> ~PortTaken(p), pending |-> << >>]
             ELSE IF t = serverTcp THEN [server[t] EXCEPT !.state = "doomed"]
             ELSE server[t]]
  BY DEF startTcpListening
<1> DEFINE new == [state |-> "used", ssl |-> ssl, port |-> p,
                   listening |-> ~PortTaken(p), pending |-> << >>]
           old(t) == [server[t] EXCEPT !.state = "doomed"]
<1>2. \A t \in Servers : server'[t] = IF t = s THEN new
                                      ELSE IF t = serverTcp THEN old(t) ELSE server[t]
  BY <1>1
<1>3. new.state = "used" /\ new.pending = << >>
  OBVIOUS
<1>4. \A t \in Servers : /\ old(t).state = "doomed" /\ old(t).pending = server[t].pending
                         /\ old(t).listening = server[t].listening
  BY DEF IInv, TypeOK, Server
<1> HIDE DEF new, old
<1>5. conn' = conn /\ s # serverTcp
  BY <1>1 DEF startTcpListening, Orderly, Owned
<1>6. \A c \in Clients : conn[c].of # s
  BY <1>1, TcpServerAssumption DEF Orderly, Owned
<1>7. Owned'
  <2>1. \A t \in Servers : server'[t].state = "used" <=> t = serverTcp'
    BY <1>1, <1>2, <1>3, <1>4 DEF Orderly, Owned
  <2>2. \A t \in Servers : server'[t].listening => server'[t].state # "free"
    BY <1>2, <1>3, <1>4 DEF Orderly, Owned
  <2>3. \A c \in Clients : conn[c].of # None => conn[c].of \in Servers
    BY DEF IInv, TypeOK, Connection
  <2>4. \A c \in Clients : conn'[c].of # None => server'[conn'[c].of].state # "free"
    BY <1>2, <1>4, <1>5, <1>6, <2>3 DEF Orderly, Owned
  <2> QED
    BY <2>1, <2>2, <2>4 DEF Owned
<1>8. ASSUME NEW t \in Servers PROVE Queued(t)'
  <2>1. Queued(t)
    BY DEF Orderly, PendingIsQueued, Queued
  <2>2. CASE t = s
    <3>1. server'[t].pending = << >>
      BY <1>2, <1>3, <2>2
    <3>2. {c \in Clients : conn'[c].at = "pending" /\ conn'[c].of = t} = {}
      BY <1>5, <1>6, <2>2
    <3> QED
      BY <3>1, <3>2, EmptyQueue DEF Queued
  <2>3. CASE t # s
    <3>1. server'[t].pending = server[t].pending
      BY <1>2, <1>4, <2>3
    <3> QED
      BY <1>5, <2>1, <3>1 DEF Queued
  <2> QED
    BY <2>2, <2>3
<1> QED
  BY <1>7, <1>8 DEF Orderly, PendingIsQueued, Queued

LEMMA DeletingOrderly ==
  ASSUME IInv, Orderly, NEW s \in Servers, ServerDeleted(s)
  PROVE  Orderly'
<1> DEFINE u == Unused(server[s].port)
<1>1. /\ server[s].state = "doomed" /\ server' = [server EXCEPT ![s] = u]
      /\ conn' = [c \in Clients |-> IF conn[c].of = s THEN Away ELSE conn[c]]
      /\ serverTcp' = serverTcp
  BY DEF ServerDeleted
<1>2. u.state = "free" /\ u.listening = FALSE /\ u.pending = << >>
  BY DEF Unused
<1> HIDE DEF u
<1>3. \A t \in Servers : server'[t] = IF t = s THEN u ELSE server[t]
  BY <1>1 DEF IInv, TypeOK
<1>4. \A c \in Clients : conn'[c] = IF conn[c].of = s THEN Away ELSE conn[c]
  BY <1>1
<1>5. s # serverTcp
  BY <1>1 DEF Orderly, Owned
<1>6. Owned'
  <2>1. \A t \in Servers : /\ server'[t].state = "used" <=> t = serverTcp'
                           /\ server'[t].listening => server'[t].state # "free"
    BY <1>1, <1>2, <1>3, <1>5 DEF Orderly, Owned
  <2>2. \A c \in Clients : conn[c].of \in Servers \cup {None}
    BY DEF IInv, TypeOK, Connection
  <2>3. \A c \in Clients : conn'[c].of # None => server'[conn'[c].of].state # "free"
    BY <1>3, <1>4, <2>2, AwayType DEF Orderly, Owned
  <2> QED
    BY <2>1, <2>3 DEF Owned
<1>7. ASSUME NEW t \in Servers PROVE Queued(t)'
  <2>1. Queued(t)
    BY DEF Orderly, PendingIsQueued, Queued
  <2>2. CASE t = s
    <3>1. server'[t].pending = << >>
      BY <1>2, <1>3, <2>2
    <3>2. {c \in Clients : conn'[c].at = "pending" /\ conn'[c].of = t} = {}
      BY <1>4, <2>2, AwayType
    <3> QED
      BY <3>1, <3>2, EmptyQueue DEF Queued
  <2>3. CASE t # s
    <3>1. server'[t] = server[t]
      BY <1>3, <2>3
    <3>2. {c \in Clients : conn'[c].at = "pending" /\ conn'[c].of = t}
            = {c \in Clients : conn[c].at = "pending" /\ conn[c].of = t}
      BY <1>4, <2>3, AwayType
    <3> QED
      BY <2>1, <3>1, <3>2 DEF Queued
  <2> QED
    BY <2>2, <2>3
<1> QED
  BY <1>6, <1>7 DEF Orderly, PendingIsQueued, Queued
LEMMA OrderlyAlways == Spec => []Orderly
<1>1. Init => Orderly
  <2> SUFFICES ASSUME Init PROVE Orderly
    OBVIOUS
  <2>1. \A s \in Servers : /\ server[s].state = "free" /\ server[s].listening = FALSE
                           /\ server[s].pending = << >>
    BY DEF Init, Unused
  <2>2. \A c \in Clients : conn[c].of = None /\ conn[c].at = "away"
    BY DEF Init, Away
  <2>3. Owned
    BY <2>1, <2>2, TcpServerAssumption DEF Init, Owned
  <2>4. \A s \in Servers : {c \in Clients : conn[c].at = "pending" /\ conn[c].of = s} = {}
    BY <2>2
  <2>5. PendingIsQueued
    BY <2>1, <2>4, EmptyQueue DEF PendingIsQueued
  <2> QED
    BY <2>3, <2>5 DEF Orderly
<1>2. IInv /\ Orderly /\ [Next]_vars => Orderly'
  <2> SUFFICES ASSUME IInv, Orderly, [Next]_vars PROVE Orderly'
    OBVIOUS
  <2>0. /\ conn \in [Clients -> Connection]
        /\ \A c \in Clients : conn[c] \in Connection /\ (conn[c].of = None <=> conn[c].at = "away")
        /\ \A c \in Clients : conn[c].of # None => server[conn[c].of].state # "free"
    BY DEF IInv, TypeOK, Orderly, Owned
  <2>1. ASSUME NEW p \in Ports, NEW ssl \in UseSSL, startTcpListening(p, ssl)
        PROVE  Orderly'
    BY <2>1, ReplacingOrderly
  <2>2. ASSUME NEW s \in Servers, ServerDeleted(s) PROVE Orderly'
    BY <2>2, DeletingOrderly
  <2>3. ASSUME NEW s \in Servers, NEW c \in Clients, Accept(s, c) PROVE Orderly'
    <3>1. conn[c].at = "backlog" /\ conn[c].of = s /\ serverTcp' = serverTcp
      BY <2>3 DEF Accept
    <3>2. CASE newTcpHost(Enqueue(s, c), Moved(c, "pending"))
      BY <3>1, <3>2, AddingOrderly
    <3>3. CASE newTcpHost(server, Moved(c, "handshake"))
      <4> DEFINE k == [conn[c] EXCEPT !.at = "handshake"]
      <4>1. server' = server /\ conn' = Moved(c, "handshake")
        BY <3>3, NothingPending DEF IInv
      <4>2. /\ k \in Connection /\ k.at = "handshake" /\ k.of = conn[c].of
            /\ conn' = [conn EXCEPT ![c] = k]
        BY <4>1, MovedIs DEF IInv
      <4> HIDE DEF k
      <4> QED
        BY <2>0, <3>1, <4>1, <4>2, OneOrderly
    <3>4. CASE newTcpHost(server, [conn EXCEPT ![c] = Away])
      <4>1. server' = server /\ conn' = [conn EXCEPT ![c] = Away]
        BY <3>4, NothingPending DEF IInv
      <4> QED
        BY <3>1, <4>1, AwayType, OneOrderly
    <3> QED
      BY <2>3, <3>2, <3>3, <3>4 DEF Accept, incomingConnection
  <2>4. ASSUME NEW s \in Servers, NEW c \in Clients, Connect(c, s) PROVE Orderly'
    <3> DEFINE k == [at |-> "backlog", of |-> s, peer |-> TRUE, down |-> FALSE]
    <3>1. k \in Connection /\ k.at = "backlog" /\ k.of = s
      BY DEF Connection
    <3>2. /\ conn' = [conn EXCEPT ![c] = k] /\ UNCHANGED <<serverTcp, server>>
          /\ conn[c].at = "away" /\ server[s].listening
      BY <2>4 DEF Connect
    <3>3. server[s].state # "free"
      BY <3>2 DEF Orderly, Owned
    <3> HIDE DEF k
    <3> QED
      BY <3>1, <3>2, <3>3, OneOrderly
  <2>5. ASSUME NEW c \in Clients, handleSocketEncryption(c) PROVE Orderly'
    <3>1. conn[c].at = "handshake" /\ conn[c].of \in Servers
      BY <2>0, <2>5 DEF handleSocketEncryption, Connection
    <3> QED
      BY <2>5, <3>1, AddingOrderly DEF handleSocketEncryption
  <2>6. ASSUME NEW c \in Clients, handleSSLError(c) \/ Leave(c) \/ Disconnected(c)
        PROVE  Orderly'
    <3>1. PICK k \in Connection :
            /\ k.of = conn[c].of
            /\ k.at = "pending" <=> conn[c].at = "pending"
            /\ conn' = [conn EXCEPT ![c] = k]
      <4>1. CASE handleSSLError(c)
        <5> DEFINE e == [conn[c] EXCEPT !.down = TRUE, !.peer = FALSE]
        <5>1. /\ e \in Connection /\ e.of = conn[c].of /\ e.at = conn[c].at
              /\ conn' = [conn EXCEPT ![c] = e]
          BY <2>0, <4>1 DEF handleSSLError, Connection
        <5> HIDE DEF e
        <5> QED
          BY <5>1
      <4>2. CASE Leave(c)
        <5> DEFINE e == [conn[c] EXCEPT !.peer = FALSE]
        <5>1. /\ e \in Connection /\ e.of = conn[c].of /\ e.at = conn[c].at
              /\ conn' = [conn EXCEPT ![c] = e]
          BY <2>0, <4>2 DEF Leave, Connection
        <5> HIDE DEF e
        <5> QED
          BY <5>1
      <4>3. CASE Disconnected(c)
        <5> DEFINE a == IF conn[c].at = "registered" THEN "doomed" ELSE conn[c].at
                   e == [conn[c] EXCEPT !.down = TRUE, !.at = a]
        <5>1. /\ e \in Connection /\ e.of = conn[c].of /\ e.at = a
              /\ conn' = [conn EXCEPT ![c] = e]
          BY <2>0, <4>3 DEF Disconnected, Connection
        <5> HIDE DEF e
        <5> QED
          BY <5>1
      <4> QED
        BY <2>6, <4>1, <4>2, <4>3
    <3>2. UNCHANGED <<serverTcp, server>>
      BY <2>6 DEF handleSSLError, Leave, Disconnected
    <3> QED
      BY <2>0, <3>1, <3>2, OneOrderly
  <2>7. ASSUME NEW c \in Clients, SocketDeleted(c) PROVE Orderly'
    BY <2>7, AwayType, OneOrderly DEF SocketDeleted
  <2>8. CASE UNCHANGED vars
    <3>1. server' = server /\ conn' = conn /\ serverTcp' = serverTcp
      BY <2>8 DEF vars
    <3> QED
      BY <3>1 DEF Orderly, Owned, PendingIsQueued
  <2> QED
    BY <2>1, <2>2, <2>3, <2>4, <2>5, <2>6, <2>7, <2>8 DEF Next
<1> QED
  BY <1>1, <1>2, Invariance, PTL DEF Spec

\* However connections, handshakes and replacements interleave, a server's queue
\* holds what is pending there, once.
THEOREM QueuesAreExact == Spec => []PendingIsQueued
<1>1. Orderly => PendingIsQueued
  BY DEF Orderly
<1> QED
  BY <1>1, OrderlyAlways, PTL

\* No socket is left to a server that is neither the current one nor to be
\* deleted: what is replaced takes its sockets along.
THEOREM NobodyIsLeft == Spec => []OwnersRemain
<1>1. IInv /\ Orderly => OwnersRemain
  <2> SUFFICES ASSUME IInv, Orderly, NEW c \in Clients, conn[c].of # None
               PROVE  conn[c].of = serverTcp \/ server[conn[c].of].state = "doomed"
    BY DEF OwnersRemain
  <2>1. conn[c].of \in Servers /\ server[conn[c].of] \in Server
    BY DEF IInv, TypeOK, Connection
  <2>2. server[conn[c].of].state \in {"used", "doomed"}
    BY <2>1 DEF Orderly, Owned, Server
  <2> QED
    BY <2>1, <2>2 DEF Orderly, Owned
<1> QED
  BY <1>1, Invariance, OrderlyAlways, PTL
==============================================================================
