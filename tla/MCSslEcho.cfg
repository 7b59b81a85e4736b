SPECIFICATION SslSpec
CONSTANTS
  c1 = c1
  c2 = c2
  a = a
  b = b
  z = z
  Conn = {c1, c2}
  NoConn = NoConn
  Thread = {t1, t2}
  Text = {a, b, z}
  Traffic <- RecordTraffic
  Listener = 3
  LastFd = 5
  DoOnDisconnect = FALSE
  Room = 1
  Mute = {c2}
INVARIANTS
  SslTypeOK
  HandlerKeepsConnection
  LoopNeverStalls
  SslEchoesInOrder
PROPERTIES
  EveryoneGetsIn
  SslImplementsService
