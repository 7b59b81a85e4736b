SPECIFICATION Spec
CONSTANTS
  c1 = c1
  c2 = c2
  a = a
  b = b
  z = z
  Conn = {c1, c2}
  NoConn = NoConn
  Thread = {t1, t2}
  Text = {a, b, z}
  Traffic <- DistinctTraffic
  Listener = 3
  LastFd = 5
  DoOnDisconnect = FALSE
INVARIANTS
  IndInv
  TypeOK
  OneHandlerPerConnection
  HandlerKeepsConnection
  SelectsOpenDescriptors
  LoopNeverStalls
  EchoesInOrder
  ClosesAfterEcho
PROPERTIES
  EverythingEchoed
  ClosedEventually
  ImplementsService
