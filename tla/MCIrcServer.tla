----------------------------- MODULE MCIrcServer -----------------------------
(***************************************************************************)
(* Small IRC servers for TLC.                                              *)
(***************************************************************************)
EXTENDS IrcServer, TLC

CONSTANTS c1, c2, u1, u2, n1, n2, room

Say(command, argument) == [cmd |-> command, arg |-> argument, opt |-> NULL]
Ask(command, ch, x) == [cmd |-> command, arg |-> ch, opt |-> x]

NickIs(n) == Say("NICK", n)
UserIs(u) == Say("USER", u)

AllTexts ==
  {NickIs(n) : n \in Nick} \cup {UserIs(u) : u \in User} \cup {QuitNow}
  \cup {Say("PRIVMSG", target) : target \in Nick \cup Channel}
  \cup {Say(command, x) : command \in {"JOIN", "NAMES", "PART"}, x \in Channel}
  \cup {Ask("KICK", x, u) : x \in Channel, u \in User}
  \cup {Ask("TOPIC", x, text) : x \in Channel, text \in {TRUE, NULL}}
  \cup {Ask("MODE", x, mode) : x \in Channel \cup User, mode \in BOOLEAN \cup {NULL}}
  \cup {Say("WHOIS", x) : x \in Nick \cup {NULL}}
  \cup {Say(command, NULL) : command \in {"AWAY", "LIST", "PING"}}

(* Two clients that want the same user and, in the end, the same nick: one *)
(* changes its nick, joins a channel and quits, or tries a user name that  *)
(* is too long.                                                            *)
SessionTraffic ==
  [c \in Conn |->
    IF c = c1 THEN {<<NickIs(n1), UserIs(u1), NickIs(n2), Say("JOIN", room), QuitNow>>,
                    <<NickIs(n1), UserIs(u2)>>}
    ELSE {<<NickIs(n2), UserIs(u1)>>}]

(* The second of them does not reset its connection.                       *)
SecondEndsOrStays == peer[c2] \in {"idle", "open", "eof"}

(* One client quits; the other sends one command.                          *)
QuitTraffic == [c \in Conn |-> IF c = c1 THEN {<<QuitNow>>} ELSE {<<NickIs(n2)>>}]

(* Two clients use one nick; one of them registers and writes to it.       *)
NickTraffic ==
  [c \in Conn |->
    IF c = c1 THEN {<<NickIs(n1)>>}
    ELSE {<<NickIs(n1), UserIs(u1), Say("PRIVMSG", n1)>>}]

(* Two clients that have registered meet on a channel: one governs it, or  *)
(* asks who the other is; the other writes to the first or leaves again,   *)
(* or speaks and changes the topic from outside.                           *)
UserOf == [c \in Conn |-> IF c = c1 THEN u1 ELSE u2]
NickOf == [c \in Conn |-> IF c = c1 THEN n1 ELSE n2]
Registration == [c \in Conn |-> <<NickIs(NickOf[c]), UserIs(UserOf[c])>>]

JoinRoom == Say("JOIN", room)

TalkTraffic ==
  [c \in Conn |-> {Registration[c] \o said : said \in
    IF c = c1 THEN {<<JoinRoom, Ask("MODE", room, TRUE), Ask("KICK", room, u2)>>,
                    <<Say("AWAY", NULL), Say("LIST", NULL), Ask("MODE", room, NULL),
                      Say("PING", NULL), Say("WHOIS", n2)>>}
    ELSE {<<JoinRoom, Say("PRIVMSG", n1)>>, <<JoinRoom, Say("PART", room)>>,
          <<Say("PRIVMSG", room), Say("NAMES", room), Ask("TOPIC", room, TRUE),
            Ask("TOPIC", room, NULL)>>}}]

(* The same two, who only join and write to the channel.                   *)
MeetTraffic ==
  [c \in Conn |-> {Registration[c] \o <<JoinRoom, Say("PRIVMSG", room)>>}]

(* The state that Spec reaches when both have registered and all is quiet. *)
RegisteredInit ==
  /\ peer = [c \in Conn |-> "open"]
  /\ backlog = <<>>
  /\ owner = [d \in Fd |-> IF d = Listener + 1 THEN c1 ELSE c2]
  /\ inbox = [c \in Conn |-> <<>>]
  /\ sent = Registration
  /\ connections = Descriptor /\ readable = {} /\ blocked = {}
  /\ pc = [t \in Thread |-> "free"]
  /\ data = [t \in Thread |-> NoData]
  /\ main = "copy" /\ i = Listener /\ acceptd = Listener /\ rcvd = NoData
  /\ users = [d \in Fd |-> UserOf[owner[d]]]
  /\ nicks = [d \in Fd |-> NickOf[owner[d]]]
  /\ account = [u \in User |-> IF u = u1 THEN n1 ELSE n2]
  /\ away = {}
  /\ read_channels
  /\ timed = NoData
  /\ frame = [w \in Worker |-> Idle]
  /\ registered = UserOf

(* The first of them stays.                                                *)
FirstStays == peer[c1] = "open"

RegisteredSpec == RegisteredInit /\ [][Next]_vars

(* The handler threads are alike.                                          *)
ThreadSymmetry == Permutations(Thread)

=============================================================================
