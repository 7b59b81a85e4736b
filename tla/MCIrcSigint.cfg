SPECIFICATION ProcessSpec
CONSTANTS
  c1 = c1
  c2 = c2
  u1 = u1
  u2 = u2
  n1 = n1
  n2 = n2
  room = room
  Conn = {c1}
  NoConn = NoConn
  Thread = {t1}
  Text <- AllTexts
  Traffic <- Silence
  Listener = 3
  LastFd = 4
  DoOnDisconnect = TRUE
  User = {u1, u2}
  Nick = {n1, n2}
  Channel = {room}
  LongUser = {}
  LongNick = {}
  NULL = NULL
  Garbage = Garbage
  Loop = Loop
  Timer = Timer
  Guarded = {}
  CounterSize = 4
PROPERTY
  StopsAfterSignal
CHECK_DEADLOCK FALSE
