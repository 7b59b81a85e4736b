# redes2-server: a TLA+ model, checked and partly proved

`redes2-server` is a C server library and three programs built on it: an echo
server, an IRC server and an SSL echo server. One thread selects over all
connections and starts a detached thread for every message it receives; the
threads and the loop share three `fd_set`s, the process's descriptors and, in
the IRC server, two tables indexed by descriptor number and an external
registry. This directory models that concurrency and says what it guarantees.

All paths below are relative to `src/G-2301-01-P1/`. Long file names are
abbreviated: `server.c` is `srclib/G-2301-01-P1-server.c`, `tcp.c` and `irc.c`
likewise, `irc_server.c` and `echo_server.c` are under `src/`.

## 1. Inventory

| component | state | operations | works with |
|---|---|---|---|
| select loop, `server.c` | `connections`, `readable`, `blocked` (under `mutex_conn`), `loop`, `ips`, `handler_disconnection` | `connection_add/rmv/block/unblock`, `is_readable`, `connection_isblocked`, `server_launch`, `server_stop`, the SIGINT handler | calls `tcp.c`; starts handler threads; calls `handler_disconnection` in the loop |
| TCP sockets, `tcp.c` | the kernel's | open, accept, snd, rcv, close | called by the loop and by every handler |
| echo server, `echo_server.c` | none | `echo` | handler of `server_launch` |
| IRC server, `irc_server.c` | `users`, `nicks`, `timeout` by descriptor, each with a mutex | `handler`, `process_command`, `do_on_disconnect`, `set_user`, `set_nick`, the searches, `timeout_thread`, `read_channels`, `main` | handler of `server_launch`; calls `irc.c` |
| IRC commands, `irc.c` | none of its own | one function per command | the tables, libirctad, and `connection_block/unblock` of other users' descriptors |
| SSL server, `srclib/G-2301-01-P3-ssl-server.c`, `-ssl.c` | as the select loop, with an `SSL*` per descriptor | as the select loop | OpenSSL |
| UDP, daemon, tools, test clients, `src/echo-server.c` | none shared | wrappers and small programs | - |
| libircredes, libirctad | registry of users, nicks, channels and members | `IRCParse_*`, `IRCMsg_*`, `IRCTAD*` | outside the repository |

What is hard in it:

* **Interleaving.** Every critical section covers one bit or one table entry.
  Nothing else is atomic: a command is a dozen of them, and the loop goes on
  meanwhile.
* **Descriptor reuse.** `accept` returns the lowest free number; all shared
  state is indexed by that number. Whoever holds a number after a `close` by
  somebody else acts on another client.
* **Stale answers.** `readable` is what `select` said at the start of a pass;
  `select`'s failure is ignored.
* **One set, two uses.** `blocked` means "a handler works on it" to the loop and
  "somebody is writing to it" to the commands that relay.
* **Two registries.** The tables of `irc_server.c` and libirctad hold the same
  facts and are changed one after the other.
* **Vanishing clients** at any point: end of input, reset.

What makes each part correct: for the loop, one handler per descriptor, no
descriptor closed under a handler, no call that blocks the loop, every
connection served and released; for the echo server, every client gets back
what it sent, in order; for the IRC server, tables and libirctad agree, nobody
inherits a previous client's identity, nobody stays on a channel after leaving,
what is blocked is unblocked, messages reach the user they are meant for.
`PROJECT.json` lists the hazards one by one, each at its line.

## 2. Modules

```
Connections          fd_sets, descriptors, threads, the kernel and the clients
  Server             server_launch
    EchoServer       echo              -- implements -->  EchoService
      EchoServerProofs   types, handlers, the loop
        EchoOrderProofs  order of the echo, the refinement
      MCEchoServer
      SslServer      server_launch_SSL with the SSL echo handler
        SslServerProofs  (with EchoOrderProofs)
        MCSslServer
    IrcCommands      NICK USER PRIVMSG QUIT, the relays, the tables, libirctad
      IrcChannels    JOIN NAMES PART KICK TOPIC MODE AWAY and the queries
        IrcServer    handler, do_on_disconnect   -- implements -->  Directory
          IrcServerProofs        types, what is blocked
            IrcSessionProofs     handlers, descriptors, connections, the loop
              IrcUserProofs      users, nicks, channels, the refinement
          MCIrcServer
          IrcTimeout timeout_thread, update_timeout
            IrcTimeoutProofs     (with IrcSessionProofs)
            MCIrcTimeout
            IrcProcess   main, the start of server_launch, SIGINT, server_stop
              MCIrcProcess
TcpSend              tcpsocket_snd, byte by byte
  TcpSendProofs
```

### Connections, Server

The state is that of `server.c`: the three sets, `main` (where the loop is), its
variable `i`, `acceptd` (`args.acceptd`) and `rcvd` (`thread_data` until it is
handed to a thread). `pc[t]` and `data[t]` are a handler thread and its
`conn_data`. An action is one system call or one critical section; reads of
`readable`, which only the loop writes, are taken with the read of `blocked`
that follows. Each of the branches of the loop is an action or a pair:

| action | code |
|---|---|
| `CopyConnections`, `Select` | `server.c:186-195`; the time-out is `Select` with nothing ready, `EBADF` leaves `readable` as it was |
| `Scan` | the `for` and the `if`, 197-210 |
| `Accept`, `AddAccepted` | 201-206, `tcp.c:103-118` |
| `ReceiveData`, `ReceiveClosed`, `ReceiveReset`, `ReceiveBadFd` | the outcomes of `tcpsocket_rcv`, 224; the last two are `TCPERR_RECV`, which no case handles |
| `RemoveClosed` ... `RemoveClosedAgain` | case `TCPCONN_CLOSED`, 225-235, in the code's order |
| `BlockConnection`, `StartHandler` | case `TCPOK`, 236-244 |

`Accept` and the receiving actions are disabled when the system call would
block. That is how a stalled loop appears.

Clients and the kernel are external. A client connects, sends, stops sending
(`eof`), or dies (`reset`), whenever it likes; `owner[d]` is the connection that
descriptor `d` denotes. A text is the least unit of what `recv` returns: a
`recv` takes any number of the texts waiting. That a command may be split
between two `recv`s is left out here and listed as a hazard.

### EchoServer, EchoService

`echo` is `EchoSend` then `EchoUnblock`. `outbox` and `sent` are histories.
`EchoService` is the server a client believes in: a queue per connection, no
threads, no descriptors. `ImplementsService` maps the state of the sockets to
it and is checked as a refinement, fairness included.

### IrcCommands, IrcChannels, IrcServer

A command runs in a *worker*: a handler thread, the loop, which runs
`quit_disc` itself when a client has gone, or the timeout thread (`Timer`, idle
in `IrcServer`). `frame[w]` is the activation of the
command: the label it is at and what it has read. Each label is one critical
section of `m_users` or `m_nicks`, one call to libirctad or one system call.
Replies to the client itself change nothing and are left out; the relays to
other users are kept, because they block and unblock descriptors.

libirctad is modelled by `account` (user to nick), `away`, and for each channel
`members`, `ops`, `topic` and whether it is `guarded` (mode t), and by what
`irc.c` relies on: `IRCTADUser_Add` refuses a user or nick in use or a missing
nick, `SetNickByUser` refuses a nick in use, `JoinChannel` refuses an unknown
user and makes the first to join the operator, `PartChannel` refuses one who is
not there, `Quit` removes a user everywhere. Its calls are taken as atomic, and
the list of a channel's users as a copy. A JOIN may also be refused for the
channel's limit, key or bans, which are not modelled. `handler` is taken to
process every command of its message, which is what its loop over
`IRC_UnPipelineCommands` is for. A command for which libirctad or the parser has
more answers than these (USER, JOIN, PART of one who is not there) may get any of
them. LIST, PING and the others that only answer are one step each: what LIST asks
libirctad, channel by channel, nobody reads but its client.

The commands about channels ask in one call and act in another, and the steps
keep that: KICK is `Kick` (is the user an operator?), `KickUser`, `ListUsers`
and the relay; JOIN is `Join`, `ListUsers`, and for each user listed `Names`, which
asks for its nick, and `Greet`, which finds its descriptor and writes to it; MODE is
`Mode` (does it name a user, or only ask?), `AskModeRight` and `SetMode`; WHOIS is `Whois`
(is there such a nick?) and `WhoisChannels`, which looks the nick up again; PRIVMSG
is `Privmsg` (is the sender registered?), `ListTargets` and the relay or the search.
`roster[ch][u]` is a history of JOIN: the members `u` was told of, by the names
it got or by their JOIN, since it joined `ch`.

A buffer that `malloc` has just returned holds `Garbage`: the window between
`malloc` and `strcpy` in `set_nick`, which is outside the lock, is visible to
searches. Garbage is taken to be no client's nick. `strcpy` or `strcat` of a null
pointer, or of one that was never set (`WhoisChannels`), ends the process: the frame goes to `dead` and no step of the server is
enabled any more (`Alive`). `NeverDies` says it does not happen.

### Directory

The registry that clients believe in: who is connected as whom, nicks, members,
operators and mode t. It has no threads, descriptors, tables or unfinished commands;
`Register`, `Rename`, `Join`, `Part`, `Kick`, `SetMode` and `Leave` are one step each,
taken by a connection in the name of the user it has registered. `IrcServer`
implements it (`KeepsRegistry`) with `account`, `members`, `ops` and `guarded` as
they are and a mapping for who is connected as whom (`Session`): a connection has
its user from the moment `IRCTADUser_Add` accepts it, although the table of users
learns of it in a later step, until `IRCTAD_Quit` has forgotten it, although the
table still names it. So each command takes effect at one of its calls to libirctad
and all its other steps are unseen: USER at `IRCTADUser_Add`, NICK at
`SetNickByUser`, QUIT and a lost connection at `IRCTAD_Quit`. KICK and MODE ask for
the operator in one call and act in another, and the claim is that they still act
for one who governs the channel.

Two things are left out of `Directory`. A TOPIC asks whether the channel has mode t
before it sets the topic; a MODE +t in between makes it a topic that the registry
would refuse, so TOPIC is not one step. `away` is set by its user only and read
by nobody but the one who writes to it. It also says nothing of who is told
what; `MembersKnowEachOther` does.

### IrcTimeout

`timeout_thread` is a worker that runs `quit`. A round is `Wakes`, then for each
descriptor `Visits`, the ping (`BlocksToPing`, `Pings`) or the quit (`Quits`,
which are the steps of QUIT), and `Counts`, which adds one to the counter and
wraps as the `char` does. The thread holds `m_timeout` for the whole round:
`update_timeout`, which is what a handler does first, is enabled only while it
sleeps. The two tests of `timeout[i]` are read in one step: nobody else can
change the counter in between, and a user that appears between the two finds it
equal to one, which the second test refuses. `CounterSize` is 256 in the code and
4 in the runs: the values 1 and 2 act, one more passes, and the wrap comes next.

### IrcProcess

`main` around the loop, as far as it has come (`stage`): `SetUp` and its failures,
`ArmSignal` and `server_tcpsocket_open` with theirs, `StartLoop`, the test of
`loop` (`EndLoop`, and the guard of the loop's first step), a failing
`pthread_create`, `server_stop`, which closes nothing when `loop` is off, and
`free_memspace` with the end of the process. `sigint_handler` may run at any
moment, once; if the loop is in `select` it may be `InterruptSelect`: `readable`
stays as it was copied and the pass begins. `accept` and `recv` are restarted,
since the handler is installed with `signal`.

The handler also destroys `mutex_conn`. From then on two operations on the same
set may overlap and lose a bit; the module keeps each of them one step, so that
it says nothing of that.

### SslServer

`ssl-server.c` is a copy of `server.c`; what it shares is taken from `Server`
(`SameAsServer`), what it changes is here. `SslAccept`, `Handshake` and `SslAdd`
are its accept branch: the handshake waits for the client, and its result is
printed and otherwise ignored. `SslRead`, `SslReadClosed` and `SslReadFails` are
`SSL_read` by its outcomes.

OpenSSL is external and taken as follows. `SSL_read` takes one record off the
socket, returns as much of it as the caller has room for (`Room` texts stand for
`DATA_SIZE` bytes) and keeps the rest, which `select` does not see; it returns 0
at the end of input when nothing is left, and an error for as long as the
descriptor is open if the handshake failed. What a client writes at once is one
record; `records[c]` says where each record in `c`'s inbox ends, counted from the
first text `c` sent, and `Taken(c)` how many texts have left the socket, so that
the rest of a record is a difference of the two. `SSL_accept` may fail for
reasons of its own. `cerrar_canal_SSL` is empty, and
`evaluar_post_connectar_SSL` is called with the listening descriptor, which has
no SSL object; neither changes anything.

### TcpSend

The loop of `tcpsocket_snd`, which the other modules take as one step. Its
`data` is how far the pointer has moved, `taken` what the kernel took in the
current call of `send`, and `wire` where each byte it took stood, counted from
the start of the message. `send` returns early in two cases: a signal arrives
while it waits with a part taken (`Interrupted`), or the peer resets
(`CutShort`; the next call then `Fails`).

## 3. Runs

`Traffic[c]` holds what `c` may have sent after any of its sends, so it bounds
`sent` and `inbox` too; each MC module defines the traffic of its runs.

| run | instance | shows |
|---|---|---|
| `echo` | 2 connections, 2 threads, 2 descriptors; one client says a, then b or not, the other z | the invariants of the echo server, the inductive invariant, liveness and the refinement; 115 000 states |
| `irc_sessions` | a client that registers, changes nick, joins a channel and quits, or asks for a user name that is too long; one that wants the same nick and user; either may vanish, the second without a reset (`SecondEndsOrStays`); symmetry on threads | tables, libirctad and descriptors stay consistent, nobody frees what another is using, the loop does not wait in accept or recv before somebody has said QUIT, and every step is one of `Directory` or unseen; 507 000 states |
| `irc_talk` | two clients that have registered; one joins a channel, sets its mode and kicks the other, or only asks (WHOIS of the other included); the other joins and writes to the first or leaves, or writes to the channel and sets its topic from outside, and may vanish; symmetry on threads | those who join at once learn of each other, what is blocked has somebody who will unblock it; 971 000 states |
| `irc_silent` | the timeout thread and one client, which registers, may join a channel, and may go at any moment; no symmetry | the timeout thread quits only for counters at two, frees every silent user, leaves nobody on a channel, and no descriptor stays blocked; 175 000 states |
| `ssl_echo` | as `echo`, with records of up to two texts, room for one, and a second client that may leave its handshake unanswered | the safety of the abstract service (by which nothing is closed before it is echoed) and the order of the echo through the SSL buffers, accept and `SSL_read` do not stall the loop, everyone gets in unless the mute client holds it up for good; 150 000 states |
| `tcp_send` | messages of up to 4 bytes, a buffer of 2, 2 signals | the bytes arrive in place, TCPOK is true, the call ends unless the peer stops reading; 511 states |
| `irc_two_handlers`, `irc_quit_watched`, `irc_nick`, `irc_join_crash`, `irc_sigint`, `ssl_record` | see findings | violations |

The echo runs give every text a name of its own. The server does not look at
texts, so a behaviour with equal texts is one of these with two names made one,
and what is lost, doubled or exchanged is seen with distinct ones.

`irc_talk`, `irc_two_handlers` and `irc_join_crash` start from `RegisteredInit`, the
state of the server after both clients have connected and registered and all
is quiet: `irc_sessions` covers the way there. `sent` holds what it took. In
`irc_talk` the first client does not vanish (`FirstStays`): it is the second
that is lost, relayed to and kicked.

Two of everything is enough for what these properties tell apart: two clients
contend for a name, a nick, a channel; a descriptor is reused because clients
may leave one after the other and the first number is always taken; two
threads interleave with each other and with the loop. What two clients cannot show is
a relay that reaches a newcomer on a reused number; finding 1 says what comes of it,
and the theorems of section 5 say that nothing else does, for any number of
clients. `LastFd = 5` gives two
descriptors besides the listener (3; 0 to 2 are the standard ones); `Connect`
keeps the process within it, since beyond it `accept` fails and `tcp.c:112`
does not notice. `Thread` bounds the threads alive at once:
`StartHandler` waits for one, which in the code is `pthread_create` succeeding.
With one handler per descriptor, two threads for two descriptors are never
short; in the IRC runs, where a relay may start a second handler on a
descriptor, the bound can delay it.

`irc_sessions` has no relay and keeps `OneHandlerPerConnection`; `irc_talk` has
relays and `irc_two_handlers` shows, with two clients that join and write to the
channel, that there it fails. The properties of `irc_talk` hold in spite of it.
`FreesUnreadBuffers` rests on one handler for each descriptor, so it is kept by
`irc_sessions` and its mutant breaks that.

`StallsOnlyAfterQuit` is `LoopNeverStalls` of the echo server, until a client has said
QUIT. With a QUIT that is not true of the IRC server (findings 2 and 3): the handler
closes a descriptor under the loop. `irc_sessions` has both, connections that come and
go, whose last end is the loop's own, and a QUIT; section 5 proves the property for any
traffic, and says in which two orders of steps a QUIT can stall the loop.

In `irc_sessions` nothing follows a QUIT. `handler` would go on with commands
that follow it in the same message (`irc_server.c:211`), and NICK and USER would
then register a user on a descriptor that is closed; with such traffic
`NoInheritedUser` does not hold. `NeverDies` holds there with the loop and one
handler per descriptor, one user on the channel and no WHOIS; `irc_join_crash` shows two users,
and in `irc_silent` the timeout thread may let a user go while its JOIN is under
way, so that its two liveness properties leave out the end of the process.
With the timeout thread, a handler that lasts two rounds between the unlock and
the `strcpy` of `set_nick` would break `NeverDies` too.

`MembersAreConnected` is checked in `irc_silent`, with one client, the timeout thread's
quits and lost connections; a ping may start a second handler for the client there, and
the property holds all the same. It is not promised then: with three clients, of whom a
newcomer takes a number that a relay unblocks, it fails (finding 1), and its theorem has
as a hypothesis that the loop starts no second handler.

No run shows that KICK, MODE and TOPIC act on a right that the user no longer has
(`irc.c:870`): one worker for each user keeps the right between the two calls, which
is part of `ServesRegistry`; it takes a second worker for the same user to lose it, with a
PART or a QUIT that comes right behind the KICK.

Deadlock is checked in the echo runs, SSL included. The IRC server may really
stop, in `accept` or `recv` after a failed `select` (finding 3) or when its
process ends (finding 4), so its passing runs do not check it.

`tcp_send` does not check deadlock: the call ends, or waits for its peer for good.
The message is longer than the buffer, so that `send` waits in the middle of it
and may be cut twice.

`Mute` holds the clients that may leave the handshake unanswered; one that stays
connected is enough to stop the server, since `ssl-server.c:212` waits for it in the loop
(`HeldUp`). `ssl_echo` has one such client and one that is not. `EveryoneGetsIn` says that
every client that connects is accepted, or else the loop is held up for ever by a mute
one: a client that goes away in its handshake or whose handshake fails, and all that
records and handlers do, lets the others in.

### Fairness

`WF` of the loop and of each handler thread, nothing else: the kernel runs every
thread that can run, and no step of theirs waits for another thread except for a
mutex that is always released. Clients owe nothing: they may stop at any
moment without closing. Weak fairness suffices because no step is disabled by
others again and again. A `send` that blocks because a client does not read is
not modelled (it would block the handler, never the loop, except in the loop's
own `quit_disc`).

In `IrcTimeout`, `update_timeout` has strong fairness: a handler that waits for
`m_timeout` gets it, because the timeout thread sleeps `IRCSVR_TIMEOUT` seconds
between two rounds with the lock free. `IrcProcess` needs `WF` of the main thread
only, before, in and after the loop. In `SslServer` the loop is fair except where it is
`HeldUp`: a client answers its handshake unless it is in `Mute`.

In `TcpSend` only the caller's thread is fair; `ReturnsOrWaits` names the case of a
peer that has stopped reading.

`BlockedIsReleased` is stated as `[]<>`: a descriptor may be blocked again, by a
next message.

## 4. Findings

1. **A relay unblocks a busy descriptor** (`irc.c:342`, also 489 and 739). A
   command that writes to another user blocks and unblocks that user's
   descriptor; if its own handler is at work, the loop then starts a second one.
   Run `irc_two_handlers`. With a third client the damage goes further: a relay finds
   the descriptor of a user that leaves, a newcomer gets the number, and the relay
   unblocks it while the newcomer's handler is in USER. If the newcomer now goes, the
   loop lets go of a user that is not there yet, the handler registers it and
   JOINs, and the loop clears the descriptor's user: the user stays on the channel
   without a connection. TLC finds this (a trace of some 80 states, after four million) from
   the state in which two clients are on a channel and a third has not connected;
   it is too large for a run, and it is why `MembersAreConnected` is proved for
   undisturbed runs only.
2. **QUIT drops a newcomer** (`irc.c:750-751`). The descriptor is closed before
   it leaves `connections`; a client accepted in between on the same number is
   removed from the set and never served. Run `irc_quit_watched`.
   The timeout thread, which runs the same steps (`irc_server.c:366`), has the same
   window; no run looks at it there.
   The proof of `NeverStalls` (section 5) found a further consequence: if `select` has
   reported the old client's message and the listener, the loop first accepts the
   newcomer on the number, then takes the number for ready and waits in `recv` for a
   client that has sent nothing. The timeout thread's quit does the same, with a trace
   of some 40 states in the traffic of `irc_silent` with a second client.
3. **SIGINT stalls the loop** (`server.c:195`). The handler sets `loop` to 0 and
   `select` fails with `EINTR`; the result is ignored, `readable` still has the
   listener, and the loop waits in `accept`: an idle server ends only when
   another client comes. QUIT makes `select` fail too (`EBADF`, in the window of
   finding 2), and the loop then waits in the same way. Run `irc_sigint`.
   Before a QUIT nothing makes it wait (`StallsOnlyAfterQuit`).
4. **JOIN ends the process** (`irc.c:291`, NAMES at 541). A user that was listed
   and has quit since has no nick; `strcat` reads a null pointer. Run
   `irc_join_crash`. WHOIS (`irc.c:675`) has a window of the same kind: it finds the nick,
   the user quits, and the list of its channels, asked for with a null user, leaves
   `list` unset and `n` at 1; the loop over it then reads an arbitrary pointer
   (`WhoisChannels`, which may end the process or not). JOIN comes first in the run.
5. **A nick finds the wrong client** (`irc.c:28`, `irc_server.c:144`). An
   unregistered client keeps any nick; a search finds the lowest descriptor.
   Run `irc_nick`.
6. **The rest of a large record waits** (`ssl-server.c:242`). What `SSL_read`
   keeps is not seen by `select`; it is echoed when the client next sends. Run
   `ssl_record`.

## 5. Proofs

Every theorem holds for any sets of connections, threads, users, nicks, channels
and texts, any traffic and any range of descriptors, within the named
assumptions on constants; TLC evaluates those in every run of the component.
Each module proves an inductive invariant (`Init` implies it, every step keeps
it, one lemma per action or group of actions) and draws the properties from it.

### Echo server

`EchoServerProofs` proves, for every set of connections, threads and texts, any
traffic and any range of descriptors:

| theorem | property |
|---|---|
| `TypeCorrect` | `TypeOK` |
| `Invariance` | `IndInv` |
| `OneHandler` | `OneHandlerPerConnection` |
| `KeepsConnection` | `HandlerKeepsConnection` |
| `SelectsOpen` | `SelectsOpenDescriptors` |
| `NeverStalls` | `LoopNeverStalls` |

They assume `ConnectionsAssumption` (the listener is below the other
descriptors, `NoConn` is no connection, traffic is made of texts),
`ServerAssumption` and `EchoAssumption` (no `handler_disconnection`, as in
`echo_server.c`), which TLC evaluates in every echo run.

None of the safety properties is inductive by itself. That the loop does not
stall in `recv` needs that nobody took the message since `select` saw it, hence
that no handler works on the descriptor; that needs what `blocked` means, which
needs that handlers have descriptors of their own that nobody closes; and that
needs what the loop's sets and `i` mean at each of its steps. `IndInv` states
the circle in three parts over `TypeOK`:

* `SocketsInv`, the kernel's side: a connection is in the backlog once or on one
  descriptor;
* `LoopInv`, the loop's side: what it watches is open, what it still has to
  visit in this pass is ready, no thread works on the descriptor it is serving;
* `HandlersInv`, the threads' side: each has blocked a descriptor of its own
  which denotes the connection its message came from.

Each part has a lemma per group of actions (clients, loop, handlers), with one
step per action. TLC checks `IndInv` in `echo`.

`EchoOrderProofs` goes on from `IndInv`:

| theorem | property |
|---|---|
| `InOrder` | `EchoesInOrder` |
| `ClosesAnswered` | `ClosesAfterEcho` |
| `StepsServe` | the safety half of `ImplementsService` |

`EchoesInOrder` says that what a client sent is what it got back, followed by what
is on its way, followed by what is in its socket. "On its way" (`InFlight`) is a
choice over threads, so the proof first shows that there is nothing to choose:
`Carriage` says that a connection's message is with the loop or with one
thread, which follows from `IndInv` and needs no invariant of its own. Then
each step moves a sequence from one part to the next (`ReceiveData`, `EchoSend`),
appends to both sides (`ClientSend`), or leaves all four alone; a reset ends the
claim. `ClosesAfterEcho` follows: the loop closes after an empty receive, when
the inbox is empty and, by `HandlersInv`, nobody carries anything. `StepsServe`
has one lemma for each step of the service (a client connects, sends, ends; a
connection is accepted, answered, closed) and one for those that it does not
see.

### SSL server

`SslServerProofs` proves, from `SslAssumption` too (there is room for a text):

| theorem | property |
|---|---|
| `SslInvariance` | `SslIndInv` |
| `SslTypeCorrect` | `SslTypeOK` |
| `SslKeepsConnection` | `HandlerKeepsConnection` |
| `SslNeverStalls` | `LoopNeverStalls` |
| `SslInOrder` | `SslEchoesInOrder` |
| `SslClosesAnswered` | `ClosesAfterEcho` |
| `SslServes` | `SslImplementsService` |

`SharedSteps` says which steps are the echo server's; for those the lemmas above
are cited. For the handshake and the two reads that are new, `IndInv` is proved
again. `ChannelInv` adds that a channel is closed with nothing left in its SSL
object, without which the end of input could cut an echo short; `RecordsInv`
that the ends of the records increase up to what the client has sent, without
which a read could take more than the socket has. All of `IndInv` survives the
blocking handshake: what stalls the SSL server (`Mute`, finding 6) is
liveness.

### tcpsocket_snd

`TcpSendProofs` proves, for every length, buffer and number of signals, from
`SendAssumption` (they are natural numbers; there is a buffer):

| theorem | property |
|---|---|
| `SendInvariance` | `SendInv` |
| `SendTypeCorrect` | `SendTypeOK` |
| `BytesInPlace` | `InPlace` |
| `OkIsTrue` | `OkMeansAllTaken` |

That TCPOK is true does not follow from the test of the loop, which looks at the
last `send` alone. `SendInv` adds `data + taken = Len(wire)`: the last `send` took
`len` bytes, so at least `len` were taken in all. It may be more: after a `send`
that was cut short the code asks for `len` bytes again (`tcp.c:138`). That takes a
signal in the middle of a `send` that waits, and the one signal the servers
handle is SIGINT, so this is noted as a hazard and not shown by a run.

### IRC server, in every run

`IrcServerProofs` proves, from `IrcAssumption`, `TextAssumption` (a command has
arguments of its kind, which is what `IRCParse_*` gives each function) and
`DisconnectAssumption` (`main` installs `do_on_disconnect`):

| theorem | property |
|---|---|
| `Invariance` | `CallsInv` |
| `TypeCorrect` | `TypeOK` |
| `NobodyLeavesBlocked` | `BlockedForSomebody` |

`TypeOK` is not inductive: a command writes to libirctad what it read several
steps before. `Fits` says of each label what a frame holds there, `CallInv` that
it holds for every worker and that a command runs on a client's descriptor, and
`ServedInv` what the loop is serving, that it runs a command only in
`disconnect`, and that a free thread runs none. `NobodyLeavesBlocked` needs
nothing else and no condition: although a relay and a handler clear each other's
bit (finding 1), neither leaves it set.

`IrcTimeoutProofs` proves the same with the timeout thread, for any `CounterSize`
above 3 (`TimeoutAssumption`):

| theorem | property |
|---|---|
| `TimedInvariance` | `TimedInv` |
| `TimedTypeCorrect` | `TimedTypeOK` |
| `LetsGoOfTheSilent` | `QuitsTheSilent` |
| `TimerLeavesNobodyBlocked` | `TimedBlockedForSomebody` |
| `TimedNeverStalls` | `LoopNeverStalls`, with `PassesUndisturbed` (below) |

`TimedInv` adds that the timeout thread has a command under way only in the quit
of a visit; then the counter stays at two because `update_timeout` waits for
`m_timeout`. `TimedBlockedForSomebody` is `BlockedForSomebody` with the ping as one more
who unblocks; it is no weaker, and TLC finds states in which the ping is the only one.

### IRC server, in undisturbed runs

Findings 1 and 4 and the commands after a QUIT refute the other properties for some
traffic. The theorems say that nothing else does: a run that violates one of them
has had a disturbance first. `IrcSessionProofs` and `IrcUserProofs` prove
`Spec /\ []Undisturbed => []P`, where `Undisturbed` is

* `LoopSparesTheBusy`: when the loop attends to a descriptor (it is in `readable`, and
  its bit in `blocked` is clear, `server.c:198`), no handler is at work on it;
* `QuitsComeLast`: a handler in QUIT has no command left in its message.

Both are conditions on the *current* state, about the two places in the code where
the damage is done; they say nothing of tables, connections or libirctad. Relays
may unblock whom they like, busy or not, as KICK and PART do with their own sender: what is
excluded is that the loop then comes by, with another message there, before the
handler has ended. Any number of clients may relay, join, kick, quit, be lost and be
replaced on the same descriptor under them. They are met: added as an invariant to
`irc_sessions`, `Undisturbed` holds in all of its 507 414 states, and in
`irc_talk`, explored as far as it holds (672 869 of 971 505 states), so do the
invariants below. The timeout thread is not part of `Spec`. The two theorems about
the loop have other hypotheses, or none, and are explained after the table.

| theorem | property |
|---|---|
| `SessionInvariance` | `SessionInv` |
| `HandlersApart` | `OneHandlerPerConnection` |
| `HandlersKeepConnections` | `HandlerKeepsConnection` |
| `QuitsFreeTheirOwn` | `FreesUnreadBuffers` |
| `WorkersCloseTheirOwn` | `ClosesOwnConnection` |
| `QuietRunsNeverStall` | `StallsOnlyAfterQuit`, without any hypothesis |
| `NeverStalls` | `LoopNeverStalls`, with `PassesUndisturbed` instead |
| `UsersInvariance` | `UsersInv` |
| `UsersAreNotInherited` | `NoInheritedUser` |
| `RegistryIsAgreed` | `RegistryAgrees` |
| `UsersHaveOneDescriptor` | `UserOnOneDescriptor` |
| `MembersStayConnected` | `MembersAreConnected` |
| `MembersMeet` | `MembersKnowEachOther` |
| `ServesRegistry` | `KeepsRegistry` |
| `ServerSurvives` | `NeverDies`, with `NamesStay` |

`SessionInv` is `CallsInv` with

* `QuitsInv`: the labels of QUIT belong to QUIT, and the loop's own `quit_disc`
  never closes;
* `ApartInv`: a handler's descriptor is its own, and the loop is attending to another
  one (this is what a relay breaks). That it is blocked is not said, for a relay may
  have unblocked it;
* `QueueInv`: a connection waits once in the backlog or has one descriptor;
* `HeldInv`: a handler's descriptor denotes its connection until its own QUIT
  closes it, after which the connection has none, though the number may be
  somebody else's; the loop's denotes the one it received from.

`UsersInv` says how users, nicks and channels differ while a command is between
two of its steps:

* `AccountsInv`: the user of a descriptor has an account and no other descriptor,
  unless QUIT has freed it in libirctad and not yet in the table; an account has a
  descriptor, or a USER between `IRCTADUser_Add` and `set_user`, or a name too long
  for `set_user`;
* `NicksInv`: the nick in the table is the account's, except between the two halves
  of NICK, and what USER and NICK have read is still so when they use it;
* `MembersInv`: members have accounts and descriptors, a channel has at most one
  operator, a member; who has been found to be the operator still is when KICK or MODE
  acts on it, since nobody else acts for the same user;
* `OwnersInv`: the user of an open descriptor is the one its connection
  registered. If a handler has closed it and still clears up, while a new client
  has been accepted on the number (`Stale`), then the new client has registered
  nobody, and the old user is cleared before the handler ends. A descriptor that
  the loop is about to close has no user any more.

The argument is the same for each: a command (`Step`) changes the tables on its own
descriptor and libirctad for its own user or for one that had no account
(`OwnUser`), and by `SessionInv` nobody else works there (`Alone`); each label of
which something is said is reached from one action only (`CommandArrives`), which
established it; everything else is `Quiet`.

`ServerSurvives` also assumes `NamesStay`: nobody that a JOIN or NAMES has listed
and not asked for yet quits, nor the user that a WHOIS has found, which is finding 4.
What it adds is the other null
pointer, in `set_nick`, which looks at the buffer, releases `m_nicks` and then
copies (`irc_server.c:104-105`).

`MembersMeet` rests on `MeetingInv`: of two members of a channel each has been told of
the other, or the JOIN of one of them has yet to list, to ask for or to write to the other. Entering
the channel before reading the list gives the second half, and `UsersInv` what turns it
into the first: a member has a descriptor, so that the JOIN finds one to write to.

`ServesRegistry` is the refinement of `Directory`, with one lemma per call that is
seen (`AddRegisters`, `ChangeRenames`, `JoinJoins`, `KickKicks`, `QuitLeaves`) or that must
not be, because it only moves a fact from one registry to the other
(`SetIsUnseen`, `ForgetIsUnseen`), and `SessionStays` for the rest. The mapping looks at
labels of commands, so the proof needs to know that no other worker is between the
same two steps for the same connection (`OnlyOwn`, from `SessionInv`) and that the user
QUIT lets go of is the one its connection registered, although the descriptor may
already be another client's (`PartingInv`). That a NICK takes a free nick and a JOIN
or a KICK has a user to act for, and that KICK and MODE act for one who governs the
channel, is in `UsersInv`. TLC finds the same of the steps on all of the traffic of
`irc_talk`, relays to busy descriptors included.

#### The loop of the IRC server

Both theorems are about all traffic, and without `Undisturbed`: relays may unblock
what they like and a descriptor may have several handlers.

`QuietRunsNeverStall` is for every run: until somebody says QUIT, the loop does not wait
in `accept` or `recv`. Its invariant, `QuietStallInv`, says that without a QUIT in any
socket, message or handler (`QuietInv`) the loop alone closes descriptors and stops
watching them first (`WatchInv`), so that `select` does not fail, and what it has yet to
visit in a pass is ready (`PassInv`).

`NeverStalls` is for runs with QUITs, and says in which orders of steps they can stall
the loop. `PassesUndisturbed` is

* `SelectsOpenDescriptors`: no `select` meets a closed descriptor (finding 3 is what
  happens then);
* `QuitsSpareThePass`: no QUIT closes a descriptor that this pass has reported
  before the pass has been through its `accept`.

Each is needed: on the traffic of `irc_quit_watched` TLC stalls the loop when either
one is dropped, with traces of 25 and 35 states. They are met: both hold in all of
`irc_talk`, relays to busy descriptors included, and in `irc_sessions`, with its QUIT,
explored as far as they hold (488 621 of 507 414 states). A QUIT that closes a
descriptor after the `accept` of the pass does no harm: the number is free until the
next pass, `recv` fails and the loop goes on. `PassInv` says so: what the loop has yet
to visit in this pass is ready, or is closed and the pass is past its `accept`. The
lemmas are stated for any worker, so that they serve `TimedNeverStalls` too.

### Only model-checked

* Liveness, and the liveness half of `ImplementsService`: fairness and ENABLED are
  beyond the prover (`EverythingEchoed`, `ClosedEventually`, `EveryoneGetsIn`,
  `SilentUserLeaves`, `BlockedIsReleased`, `ReturnsOrWaits`). For the SSL server
  the refinement is stated for safety only: finding 6 refutes its liveness half.
* `MembersAreConnected` with the timeout thread (`irc_silent`): the theorem is about
  undisturbed runs of `IrcServer`.
* What `IrcProcess` says of the process; the violations.

## 6. Not modelled

* The words of replies, `syslog`, `ips`, parsing: no property depends on them.
* Replies to the sender, and hence a `send` that fails or blocks: nothing in the
  server depends on the result, which is ignored everywhere.
* Memory: sizes of buffers, leaks, pointers that outlive what they point to. The
  tables hold names. What is visible of it, garbage in a nick, is kept.
* Failures of `malloc` in the loop and of `accept`, which is not noticed.
* The overlapping of operations on the sets after SIGINT, and the tables after
  `free_memspace`, in the moment before the process ends.
* Channel limits, keys, bans and modes other than t; a channel that everybody has
  left keeps its mode here. Commands with parameters missing, which answer and
  change nothing, but for PRIVMSG and WHOIS. NAMES without a channel, which is undefined
  (`irc.c:517`). The parsing of the channel file.
* NOTICE, which is in `irc.c` but not in the table of commands.
* SIGINT and the end of the SSL server, which are copies of `server.c`'s.
* Cryptography, certificates, a handshake that is only half received, and an
  `SSL_read` that waits for the rest of a record.
* UDP, daemon, tools, test clients, certificates: wrappers and files with no
  shared state.

## 7. Plan

Written, in the order of what everything else rests on: `Connections`, `Server`,
`EchoService`, `EchoServer`, `IrcCommands`, `IrcChannels`, `IrcServer`,
`Directory`, `IrcTimeout`, `IrcProcess`, `SslServer`, `TcpSend`, and the modules of proofs of
section 5.

What is left, in this order:

1. `SessionInv` and `UsersInv` with the timeout thread, as long as no handler is at work
   on the descriptor it lets go of: the thread closes a descriptor that it does not
   hold, so `HeldInv` needs a case for it and the lemmas on labels a further worker.
2. A condition for `MembersAreConnected` weaker than `Undisturbed`: it is enough that the
   loop does not attend to a descriptor whose handler is in USER, if TLC agrees.
