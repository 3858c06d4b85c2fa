CONSTANTS
  c3 = c3
  c1 = c1
  c2 = c2
  s1 = s1
  s2 = s2
  p1 = p1
  p2 = p2
  None = None
  Clients = {c1, c2, c3}
  Servers = {s1, s2}
  Ports = {p1, p2}
  UseSSL = {TRUE, FALSE}
  MaxPending = 2
SPECIFICATION FairSpec
INVARIANTS TypeOK NoneStranded RegisteredAreLive PendingIsQueued OwnersRemain
PROPERTY ReplacedIsGone
