------------------------------ MODULE Directory ------------------------------
(***************************************************************************)
(* The registry that clients of the IRC server believe in: who they are,   *)
(* who is on which channel and who governs it.  There are no threads,      *)
(* descriptors or tables; each command is one step, taken by a connection  *)
(* in the name of the user it has registered.                              *)
(***************************************************************************)
CONSTANTS Conn, User, Nick, Channel,
          LongUser,  \* the user names that get an account and no session
          Guarded,   \* the channels that have mode t from the start
          NULL

VARIABLES session,  \* the user of each connection, if it has registered one
          account,  \* the nick of each user
          members,  \* the users on each channel
          ops,      \* its operators
          guarded   \* the channels with mode t

vars == <<session, account, members, ops, guarded>>

Init ==
  /\ session = [c \in Conn |-> {}]
  /\ account = [u \in User |-> NULL]
  /\ members = [ch \in Channel |-> {}]
  /\ ops = [ch \in Channel |-> {}]
  /\ guarded = Guarded

Free(n) == \A u \in User : account[u] # n

Governs(c, ch) == session[c] \cap ops[ch] # {}

(* A connection registers once, a user that nobody is, with a free nick.   *)
Register(c, u, n) ==
  /\ account[u] = NULL /\ Free(n)
  /\ account' = [account EXCEPT ![u] = n]
  /\ session[c] = {}
  /\ session' = IF u \in LongUser THEN session ELSE [session EXCEPT ![c] = {u}]
  /\ UNCHANGED <<members, ops, guarded>>

Rename(c, n) ==
  /\ Free(n)
  /\ \E u \in User : account' = [account EXCEPT ![u] = n] /\ u \in session[c]
  /\ UNCHANGED <<session, members, ops, guarded>>

(* The first to join governs the channel.                                  *)
Join(c, ch) ==
  /\ UNCHANGED <<account, guarded>>
  /\ session[c] # {}
  /\ members' = [members EXCEPT ![ch] = @ \cup session[c]]
  /\ ops' = [ops EXCEPT ![ch] = IF members[ch] = {} THEN session[c] ELSE @]
  /\ UNCHANGED session

Without(ch, S) ==
  /\ members' = [members EXCEPT ![ch] = @ \ S]
  /\ ops' = [ops EXCEPT ![ch] = @ \ S]
  /\ UNCHANGED <<session, account, guarded>>

Part(c, ch) == session[c] # {} /\ session[c] \subseteq members[ch] /\ Without(ch, session[c])

Kick(c, ch, u) == u \in members[ch] /\ Governs(c, ch) /\ Without(ch, {u})

SetMode(c, ch) ==
  /\ Governs(c, ch)
  /\ guarded' \in {guarded \cup {ch}, guarded \ {ch}}
  /\ UNCHANGED <<session, account, members, ops>>

(* QUIT, or the end of the connection: its user is nowhere any more.       *)
Leave(c) ==
  /\ session[c] # {}
  /\ account' = [u \in User |-> IF u \in session[c] THEN NULL ELSE account[u]]
  /\ members' = [ch \in Channel |-> members[ch] \ session[c]]
  /\ ops' = [ch \in Channel |-> ops[ch] \ session[c]]
  /\ session' = [session EXCEPT ![c] = {}]
  /\ UNCHANGED guarded

Next ==
  \E c \in Conn :
    \/ \E u \in User, n \in Nick : Register(c, u, n)
    \/ \E n \in Nick : Rename(c, n)
    \/ \E ch \in Channel : Join(c, ch) \/ Part(c, ch) \/ SetMode(c, ch)
    \/ \E ch \in Channel, u \in User : Kick(c, ch, u)
    \/ Leave(c)

Spec == Init /\ [][Next]_vars

=============================================================================
