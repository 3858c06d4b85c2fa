------------------------------ MODULE TcpServer ------------------------------
(***************************************************************************)
(* The TCP and SSL servers of an IEleaph object (src/ieleaph.cpp,          *)
(* src/ssltcpserver.cpp): accepting connections, the SSL handshake, taking *)
(* pending connections on newConnection, and replacing the server.         *)
(*                                                                         *)
(* A replaced server is only asked to be deleted: until then it listens,   *)
(* accepts and emits newConnection, on which newTcpHost looks at the NEW   *)
(* server.  A signal runs its slots in the step that emits it.             *)
(***************************************************************************)
EXTENDS Naturals, Sequences, Functions

CONSTANTS
  Clients,     \* peers, each with one connection at a time
  Servers,     \* server objects (QTcpServer or SslTcpServer)
  None,        \* no server
  Ports,
  UseSSL,      \* the values of useSSL the application passes
  MaxPending   \* QTcpServer::maxPendingConnections

ASSUME TcpServerAssumption ==
  /\ None \notin Servers
  /\ UseSSL \subseteq BOOLEAN
  /\ MaxPending \in Nat \ {0}

VARIABLES
  serverTcp,  \* the current server
  server,     \* the server objects
  conn        \* the connection of each client, with its socket

vars == <<serverTcp, server, conn>>

Server ==
  [ state     : {"free", "used", "doomed"},  \* doomed: deleteLater was called
    ssl       : BOOLEAN,
    port      : Ports,
    listening : BOOLEAN,
    pending   : Seq(Clients) ]               \* pendingConnections

Connection ==
  [ at   : {"away", "backlog", "handshake", "pending", "registered", "doomed"},
    of   : Servers \cup {None},  \* the server that listens, or owns the socket
    peer : BOOLEAN,              \* the peer keeps the connection
    down : BOOLEAN ]             \* the socket has noticed that it is disconnected

Away == [at |-> "away", of |-> None, peer |-> FALSE, down |-> FALSE]
Unused(port) == [state |-> "free", ssl |-> FALSE, port |-> port,
                 listening |-> FALSE, pending |-> << >>]

Init ==
  /\ serverTcp = None
  /\ server \in [Servers -> {Unused(p) : p \in Ports}]
  /\ conn = [c \in Clients |-> Away]

-----------------------------------------------------------------------------
(* The IEleaph object.                                                     *)

\* newTcpHost, in a step that turns the servers into s and the connections
\* into k before it emits newConnection.
newTcpHost(s, k) ==
  IF serverTcp = None \/ s[serverTcp].pending = << >>
  THEN server' = s /\ conn' = k
  ELSE /\ server' = [s EXCEPT ![serverTcp].pending = Tail(@)]
       /\ conn' = [k EXCEPT ![Head(s[serverTcp].pending)].at = "registered"]

PortTaken(p) == \E s \in Servers : server[s].listening /\ server[s].port = p

\* Mutation: the old server is forgotten, not deleted.
startTcpListening_KeepsOld(port, useSSL) ==
  /\ \E s \in Servers :
       /\ server[s].state = "free"
       /\ serverTcp' = s
       /\ server' = [server EXCEPT ![s] =
            [state |-> "used", ssl |-> useSSL, port |-> port,
             listening |-> ~PortTaken(port), pending |-> << >>]]
  /\ UNCHANGED conn

\* The old server keeps its port until it is deleted: listen may fail.
startTcpListening(port, useSSL) ==
  /\ \E s \in Servers :
       /\ server[s].state = "free"
       /\ serverTcp' = s
       /\ server' = [t \in Servers |->
            IF t = s
            THEN [state |-> "used", ssl |-> useSSL, port |-> port,
                  listening |-> ~PortTaken(port), pending |-> << >>]
            ELSE IF t = serverTcp THEN [server[t] EXCEPT !.state = "doomed"]
            ELSE server[t]]
  /\ UNCHANGED conn

\* The children of a server, its sockets, are deleted with it; registered ones
\* emit disconnected() on the way, which removes them.
ServerDeleted(s) ==
  /\ server[s].state = "doomed"
  /\ server' = [server EXCEPT ![s] = Unused(server[s].port)]
  /\ conn' = [c \in Clients |-> IF conn[c].of = s THEN Away ELSE conn[c]]
  /\ UNCHANGED serverTcp

-----------------------------------------------------------------------------
(* The servers.                                                            *)

Enqueue(s, c) == [server EXCEPT ![s].pending = Append(@, c)]
Moved(c, at) == [conn EXCEPT ![c].at = at]

\* Mutation: a socket without descriptor is not deleted.
incomingConnection_KeepsFailed(s, c) ==
  \/ ~server[s].ssl /\ newTcpHost(Enqueue(s, c), Moved(c, "pending"))
  \/ server[s].ssl /\ newTcpHost(server, Moved(c, "handshake"))
  \/ server[s].ssl /\ newTcpHost(server, Moved(c, "away"))

\* Mutation: a connection is pending before its handshake.
incomingConnection_PendingAtOnce(s, c) ==
  \/ ~server[s].ssl /\ newTcpHost(Enqueue(s, c), Moved(c, "pending"))
  \/ server[s].ssl /\ newTcpHost(Enqueue(s, c), Moved(c, "handshake"))
  \/ server[s].ssl /\ newTcpHost(server, [conn EXCEPT ![c] = Away])

\* QTcpServer adds a pending connection; SslTcpServer starts a handshake, or
\* deletes the socket if it cannot have the descriptor.  newConnection is
\* emitted by QTcpServer in any case.
incomingConnection(s, c) ==
  \/ ~server[s].ssl /\ newTcpHost(Enqueue(s, c), Moved(c, "pending"))
  \/ server[s].ssl /\ newTcpHost(server, Moved(c, "handshake"))
  \/ server[s].ssl /\ newTcpHost(server, [conn EXCEPT ![c] = Away])

Accept(s, c) ==
  /\ server[s].listening
  /\ Len(server[s].pending) < MaxPending
  /\ conn[c].at = "backlog" /\ conn[c].of = s
  /\ incomingConnection(s, c)
  /\ UNCHANGED serverTcp

\* Mutation: newConnection is emitted before the connection is added.
handleSocketEncryption_EmitsFirst(c) ==
  /\ conn[c].at = "handshake" /\ ~conn[c].down
  /\ IF server[serverTcp].pending = << >>
     THEN server' = Enqueue(conn[c].of, c) /\ conn' = Moved(c, "pending")
     ELSE LET first == Head(server[serverTcp].pending)
          IN  /\ server' = [Enqueue(conn[c].of, c) EXCEPT ![serverTcp].pending = Tail(@)]
              /\ conn' = [Moved(c, "pending") EXCEPT ![first].at = "registered"]
  /\ UNCHANGED serverTcp

handleSocketEncryption(c) ==
  /\ conn[c].at = "handshake" /\ ~conn[c].down
  /\ newTcpHost(Enqueue(conn[c].of, c), Moved(c, "pending"))
  /\ UNCHANGED serverTcp

\* The handshake fails and QSslSocket closes the connection.  handleSSLError
\* only logs: the socket stays with its server.
handleSSLError(c) ==
  /\ conn[c].at = "handshake" /\ ~conn[c].down
  /\ conn' = [conn EXCEPT ![c].down = TRUE, ![c].peer = FALSE]
  /\ UNCHANGED <<serverTcp, server>>

-----------------------------------------------------------------------------
(* Peers and sockets.                                                      *)

Connect(c, s) ==
  /\ conn[c].at = "away"
  /\ server[s].listening
  /\ conn' = [conn EXCEPT ![c] =
                [at |-> "backlog", of |-> s, peer |-> TRUE, down |-> FALSE]]
  /\ UNCHANGED <<serverTcp, server>>

Leave(c) ==
  /\ conn[c].peer
  /\ conn' = [conn EXCEPT ![c].peer = FALSE]
  /\ UNCHANGED <<serverTcp, server>>

\* Mutation: the device is to be forgotten when it is closed.
Disconnected_Unheard(c) ==
  /\ conn[c].at \in {"handshake", "pending", "registered"}
  /\ ~conn[c].peer /\ ~conn[c].down
  /\ conn' = [conn EXCEPT ![c].down = TRUE]
  /\ UNCHANGED <<serverTcp, server>>

\* disconnected(): newTcpHost has registered with ForgetKillDeviceOnDisconnect.
Disconnected(c) ==
  /\ conn[c].at \in {"handshake", "pending", "registered"}
  /\ ~conn[c].peer /\ ~conn[c].down
  /\ conn' = [conn EXCEPT ![c].down = TRUE,
                          ![c].at = IF @ = "registered" THEN "doomed" ELSE @]
  /\ UNCHANGED <<serverTcp, server>>

SocketDeleted(c) ==
  /\ conn[c].at = "doomed"
  /\ conn' = [conn EXCEPT ![c] = Away]
  /\ UNCHANGED <<serverTcp, server>>

-----------------------------------------------------------------------------
Next ==
  \/ \E p \in Ports, ssl \in UseSSL : startTcpListening(p, ssl)
  \/ \E s \in Servers : ServerDeleted(s)
  \/ \E s \in Servers, c \in Clients : Accept(s, c) \/ Connect(c, s)
  \/ \E c \in Clients :
       \/ handleSocketEncryption(c) \/ handleSSLError(c)
       \/ Leave(c) \/ Disconnected(c) \/ SocketDeleted(c)

Spec == Init /\ [][Next]_vars

\* The event loop runs posted deletions and notices disconnections.
Fairness ==
  /\ \A s \in Servers : WF_vars(ServerDeleted(s))
  /\ \A c \in Clients : WF_vars(Disconnected(c)) /\ WF_vars(SocketDeleted(c))

FairSpec == Spec /\ Fairness

-----------------------------------------------------------------------------
TypeOK ==
  /\ serverTcp \in Servers \cup {None}
  /\ server \in [Servers -> Server]
  /\ conn \in [Clients -> Connection]
  /\ \A c \in Clients : conn[c].of = None <=> conn[c].at = "away"

\* newTcpHost takes one connection per newConnection signal, and from the
\* current server whoever emitted it: still no connection of the current
\* server is ever left pending.
NoneStranded == serverTcp # None => server[serverTcp].pending = << >>

\* A registered socket has not emitted disconnected() before it was registered:
\* otherwise nothing would ever forget it.
RegisteredAreLive == \A c \in Clients : conn[c].at = "registered" => ~conn[c].down

\* A server's queue holds the connections that are pending there, each once:
\* none is taken twice or during its handshake, and none is lost.
PendingIsQueued ==
  \A s \in Servers :
    /\ IsInjective(server[s].pending)
    /\ Range(server[s].pending) = {c \in Clients : conn[c].at = "pending" /\ conn[c].of = s}

\* Whatever servers are replaced, a connection belongs to the current server or
\* to one that waits for its deletion.
OwnersRemain ==
  \A c \in Clients :
    conn[c].of # None => conn[c].of = serverTcp \/ server[conn[c].of].state = "doomed"

\* Every socket of a replaced server is eventually deleted: those left pending,
\* those whose handshake failed or goes on, and the registered ones.
ReplacedIsGone ==
  \A s \in Servers, c \in Clients :
    (conn[c].of = s /\ serverTcp # s) ~> conn[c].of # s
==============================================================================
