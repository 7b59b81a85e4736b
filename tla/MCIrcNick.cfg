SPECIFICATION Spec
CONSTANTS
  c1 = c1
  c2 = c2
  u1 = u1
  u2 = u2
  n1 = n1
  n2 = n2
  room = room
  Conn = {c1, c2}
  NoConn = NoConn
  Thread = {t1, t2}
  Text <- AllTexts
  Traffic <- NickTraffic
  Listener = 3
  LastFd = 5
  DoOnDisconnect = TRUE
  User = {u1, u2}
  Nick = {n1, n2}
  Channel = {room}
  LongUser = {}
  LongNick = {}
  NULL = NULL
  Garbage = Garbage
  Loop = Loop
  Timer = Timer
  Guarded = {}
SYMMETRY ThreadSymmetry
INVARIANT
  PrivateReachesUser
