----------------------------- MODULE IMMessages -----------------------------
(***************************************************************************)
(* Chat messages of the messenger, and those kept for users who are        *)
(* offline.                                                                *)
(*                                                                         *)
(* Every message goes over the server, which saves it with the second it   *)
(* arrived in and sends it to the receivers that it takes for online.  A   *)
(* login sends what was saved after the user's last logout.  Nothing marks *)
(* a message as delivered: what a login sends depends on two clocks in the *)
(* database, the messages' and the login history's, which every login,     *)
(* logout and change of state writes.                                      *)
(*                                                                         *)
(* A socket is used for one login; how clients get that far, and what they *)
(* learn of kicks and losses, is IMSession's.  The key of a session is     *)
(* known by its socket.                                                    *)
(***************************************************************************)
EXTENDS Naturals, Sequences, SequencesExt, FiniteSets, Selection

CONSTANTS
  Users,
  Groups,       \* the interest groups
  Members,      \* Members[group]: its members, in memory and in the database
  Sockets,      \* the sockets that clients log in over
  Owner,        \* Owner[socket]: the user who does
  LoginStates,  \* LoginStates[user]: the states to sign in with
  MaxTime,      \* bound on the seconds that pass,
  MaxMessages,  \* on the messages written,
  MaxChanges,   \* on the changes of state that clients announce before they quit,
  MaxPackets,   \* on the packets waiting when a client sends another one,
  MaxRestarts,  \* and on the times the server dies
  NoSocket      \* INVALID_SOCK_ID

ASSUME IMMessagesAssumption ==
  /\ Users \cap Groups = {}
  /\ Members \in [Groups -> SUBSET Users]
  /\ Owner \in [Sockets -> Users]
  /\ LoginStates \in [Users -> SUBSET {"online", "invisible"}]
  /\ MaxTime \in Nat \ {0} /\ MaxMessages \in Nat /\ MaxChanges \in Nat
  /\ MaxPackets \in Nat /\ MaxRestarts \in Nat
  /\ NoSocket \notin Sockets

VARIABLES
  clock,    \* the database's now(), in seconds
  link,     \* link[s]: "unused", "up" or "down"
  toServer, \* toServer[s]: what is on its way to the server's handlers
  session,  \* session[s]: the state of the client, "none" while it is not signed in
  server,   \* the server's users, see ServerInit
  row,      \* LoginHistories: row[u], the last login of u and its logout
  saved,    \* CachedChatMessages and CachedInterestGroupChatMessages
  sent,     \* sent[u]: the messages sent to u since the server was started
  due,      \* history: due[u], messages that u's next login has to send
  earlier,  \* history: how many messages were saved by earlier runs of the server
  written,  \* how many messages were written by users,
  changes,  \* how many changes of state announced
  restarts  \* and how many times the server died

vars == <<clock, link, toServer, session, server, row, saved, sent, due, earlier, written, changes,
          restarts>>

Destinations(u) == (Users \ {u}) \cup { g \in Groups : u \in Members[g] }
Receivers(m) == IF m.to \in Groups THEN Members[m.to] ELSE {m.to}
Up == { s \in Sockets : link[s] = "up" }

-----------------------------------------------------------------------------
(* The database                                                            *)

NeverLoggedIn == [login |-> 0, logout |-> 0]

\* sp_LogUserIn: a new row, whose logout is its login for the time being.
LogUserIn(rows, u) == [rows EXCEPT ![u] = [login |-> clock, logout |-> clock]]

\* sp_LogUserOut: the logout of the row with that login.
LogUserOut(rows, u, login) ==
  IF rows[u].login = login THEN [rows EXCEPT ![u].logout = clock] ELSE rows

\* What was saved for u in a later second than that one.
SavedAfter(u, second) ==
  { m \in ToSet(saved) : u \in Receivers(m) /\ m.time > second }

\* Mutant: the messages since the last login.
CachedSinceLogin(u, last) ==
  LET later == SavedAfter(u, last.login)
  IN  Selected(saved, { m \in later : m.to = u }) \o
      Selected(saved, { m \in later : m.to \in Groups })

\* cachedChatMessagesForIMUser() and getCachedInterestGroupChatMessagesForUserFromDB(), in
\* the order they are sent in: what came after that logout.
Cached(u, last) ==
  LET later == SavedAfter(u, last.logout)
  IN  Selected(saved, { m \in later : m.to = u }) \o
      Selected(saved, { m \in later : m.to \in Groups })

-----------------------------------------------------------------------------
(* The server                                                              *)

ServerInit ==
  [state   |-> [u \in Users |-> "offline"],
   sock    |-> [u \in Users |-> NoSocket], \* UserInfo's socketID, and its session key
   login   |-> [u \in Users |-> 0],        \* UserInfo's lastLoginTime
   watched |-> {}]                         \* the sockets in m_userSocketsHash

\* Mutant: a user that goes offline is still looked up by its socket.
StatusChangedWatching(sv, rows, u, st) ==
  IF st = "offline"
  THEN [sv   |-> [sv EXCEPT !.state[u] = st],
        rows |-> LogUserOut(rows, u, sv.login[u])]
  ELSE [sv   |-> [sv EXCEPT !.state[u] = st, !.login[u] = clock],
        rows |-> LogUserIn(rows, u)]

\* processUserOnlineStatusChanged() for one user, in the memory and the database.
StatusChanged(sv, rows, u, st) ==
  IF st = "offline"
  THEN [sv   |-> [sv EXCEPT !.state[u] = st, !.watched = @ \ {sv.sock[u]}],
        rows |-> LogUserOut(rows, u, sv.login[u])]
  ELSE [sv   |-> [sv EXCEPT !.state[u] = st, !.login[u] = clock],
        rows |-> LogUserIn(rows, u)]

Taken(s) == [toServer EXCEPT ![s] = Tail(@)]

\* Mutant: the new login is entered before the last one is read.
LoginEntersFirst(s, u, kicked, st) ==
  LET entered == StatusChanged([kicked.sv EXCEPT !.sock[u] = s], kicked.rows, u, st)
      cached == Cached(u, entered.rows[u])
  IN  /\ server' = [entered.sv EXCEPT !.watched = @ \cup {s}]
      /\ row' = entered.rows
      /\ sent' = [sent EXCEPT ![u] = @ \o cached]
      /\ due' = [due EXCEPT ![u] = @ \ ToSet(cached)]

\* What a login does after the kick: read the last login, enter this one, send what was
\* saved since.
LoginEnters(s, u, kicked, st) ==
  LET last == kicked.rows[u]
      entered == StatusChanged([kicked.sv EXCEPT !.sock[u] = s], kicked.rows, u, st)
      cached == Cached(u, last)
  IN  /\ server' = [entered.sv EXCEPT !.watched = @ \cup {s}]
      /\ row' = entered.rows
      /\ sent' = [sent EXCEPT ![u] = @ \o cached]
      /\ due' = [due EXCEPT ![u] = @ \ ToSet(cached)]

\* CLIENT_LOGIN_INFO: a session that the user has elsewhere is closed and goes offline.
HandleLogin(s) ==
  /\ toServer[s] # <<>> /\ Head(toServer[s]).type = "login"
  /\ LET u == Owner[s]
         st == Head(toServer[s]).state
         old == server.sock[u]
     IN  /\ IF server.state[u] = "offline"
            THEN /\ LoginEnters(s, u, [sv |-> server, rows |-> row], st)
                 /\ toServer' = Taken(s)
                 /\ session' = [session EXCEPT ![s] = IF s \in Up THEN st ELSE "none"]
                 /\ UNCHANGED link
            ELSE /\ LoginEnters(s, u, StatusChanged(server, row, u, "offline"), st)
                 /\ link' = [link EXCEPT ![old] = "down"]
                 /\ \E q \in Prefixes(toServer[old]) :
                      toServer' = [Taken(s) EXCEPT ![old] = q]
                 /\ session' = [session EXCEPT ![old] = "none",
                                               ![s] = IF s \in Up THEN st ELSE "none"]
  /\ UNCHANGED <<clock, saved, earlier, written, changes, restarts>>

\* Mutant: whatever comes from the user.
DecryptsAny(s) == TRUE
\* decryptData(): with the key of the user's last session.
Decrypts(s) == server.sock[Owner[s]] = s

\* The receivers that a message is sent to at once.
Online(m) == { u \in Receivers(m) \ {m.from} : server.state[u] # "offline" }

\* CHAT_MESSAGES_CACHED_ON_SERVER and GROUP_CHAT_MESSAGE_TO_SERVER.
HandleMessage(s) ==
  /\ toServer[s] # <<>> /\ Head(toServer[s]).type = "message"
  /\ toServer' = Taken(s)
  /\ LET e == Head(toServer[s])
         m == [from |-> Owner[s], to |-> e.to, n |-> e.n, time |-> clock]
         waits(u) == /\ u \in Receivers(m) \ {m.from}
                     /\ server.state[u] = "offline" /\ clock > row[u].logout
     IN  IF Decrypts(s)
         THEN /\ saved' = Append(saved, m)
              /\ sent' = [u \in Users |->
                            IF u \in Online(m) THEN Append(sent[u], m) ELSE sent[u]]
              /\ due' = [u \in Users |-> IF waits(u) THEN due[u] \cup {m} ELSE due[u]]
         ELSE UNCHANGED <<saved, sent, due>>
  /\ UNCHANGED <<clock, link, session, server, row, earlier, written, changes, restarts>>

\* ONLINE_STATE_CHANGED.  When it comes for a user who is offline already (the second of
\* two at the end of a program, or a return without a login) it moves the logout past
\* what has been saved meanwhile, which no login sends then.
HandleState(s) ==
  /\ toServer[s] # <<>> /\ Head(toServer[s]).type = "state"
  /\ toServer' = Taken(s)
  /\ LET u == Owner[s]
         changed == StatusChanged(server, row, u, Head(toServer[s]).state)
     IN  IF Decrypts(s)
         THEN /\ server' = changed.sv
              /\ row' = changed.rows
              /\ due' = IF server.state[u] = "offline" THEN [due EXCEPT ![u] = {}] ELSE due
         ELSE UNCHANGED <<server, row, due>>
  /\ UNCHANGED <<clock, link, session, saved, sent, earlier, written, changes, restarts>>

\* peerDisconnected(): only a socket in m_userSocketsHash takes its user offline.
HandleDisconnected(s) ==
  /\ toServer[s] # <<>> /\ Head(toServer[s]).type = "disconnected"
  /\ toServer' = Taken(s)
  /\ LET changed == StatusChanged(server, row, Owner[s], "offline")
     IN  IF s \in server.watched
         THEN server' = changed.sv /\ row' = changed.rows
         ELSE UNCHANGED <<server, row>>
  /\ UNCHANGED <<clock, link, session, saved, sent, due, earlier, written, changes,
                 restarts>>

\* The server dies and is started again.  A user who was online has no logout but the one
\* that the last row was made with: all that came since is to be sent (again).
ServerRestart ==
  /\ restarts < MaxRestarts
  /\ restarts' = restarts + 1
  /\ link' = [s \in Sockets |-> IF s \in Up THEN "down" ELSE link[s]]
  /\ toServer' = [s \in Sockets |-> <<>>]
  /\ server' = ServerInit
  /\ sent' = [u \in Users |-> <<>>]
  /\ due' = [u \in Users |->
       IF server.state[u] = "offline" THEN due[u]
       ELSE { m \in ToSet(saved) : u \in Receivers(m) \ {m.from} /\ m.time > row[u].login }]
  /\ earlier' = Len(saved)
  /\ session' = [s \in Sockets |-> "none"]
  /\ UNCHANGED <<clock, row, saved, written, changes>>

Handle(s) == HandleLogin(s) \/ HandleMessage(s) \/ HandleState(s) \/ HandleDisconnected(s)

-----------------------------------------------------------------------------
(* The clients and the network                                             *)

Ready(s) == session[s] # "none" /\ s \in Up /\ Len(toServer[s]) < MaxPackets

\* A client connects and asks for its login.
SignIn(s) ==
  /\ link[s] = "unused"
  /\ link' = [link EXCEPT ![s] = "up"]
  /\ \E st \in LoginStates[Owner[s]] :
       toServer' = [toServer EXCEPT ![s] = <<[type |-> "login", state |-> st]>>]
  /\ UNCHANGED <<clock, session, server, row, saved, sent, due, earlier, written, changes,
                 restarts>>

\* sendChatMessageToServer() and sendInterestGroupChatMessageToServer(): the window takes
\* nothing from a user who is offline.
SendMessage(s) ==
  /\ Ready(s) /\ session[s] # "offline"
  /\ written < MaxMessages
  /\ written' = written + 1
  /\ \E d \in Destinations(Owner[s]) :
       toServer' = [toServer EXCEPT ![s] =
                      Append(@, [type |-> "message", to |-> d, n |-> written'])]
  /\ UNCHANGED <<clock, link, session, server, row, saved, sent, due, earlier, changes,
                 restarts>>

StateChange(st) == [type |-> "state", state |-> st]

\* Locking, unlocking, and the "offline" that an automatic login announces: "online" stands
\* for the states in which others see the user.
ChangeState(s) ==
  /\ Ready(s) /\ session[s] # "invisible"
  /\ changes < MaxChanges
  /\ changes' = changes + 1
  /\ \E st \in {"online", "offline"} :
       /\ toServer' = [toServer EXCEPT ![s] = Append(@, StateChange(st))]
       /\ session' = [session EXCEPT ![s] = st]
  /\ UNCHANGED <<clock, link, server, row, saved, sent, due, earlier, written, restarts>>

\* aboutToQuit(): a user who is seen says twice that it goes.
Quit(s) ==
  /\ Ready(s)
  /\ LET last == IF session[s] = "online" THEN <<"offline", "offline">> ELSE <<"offline">>
     IN  toServer' = [toServer EXCEPT ![s] =
           @ \o [i \in 1 .. Len(last) |-> StateChange(last[i])]
             \o <<[type |-> "disconnected"]>>]
  /\ link' = [link EXCEPT ![s] = "down"]
  /\ session' = [session EXCEPT ![s] = "none"]
  /\ UNCHANGED <<clock, server, row, saved, sent, due, earlier, written, changes,
                 restarts>>

\* The network fails; some of what was on its way arrives.
ConnectionLost(s) ==
  /\ s \in Up
  /\ link' = [link EXCEPT ![s] = "down"]
  /\ \E q \in Prefixes(toServer[s]) :
       toServer' = [toServer EXCEPT ![s] = Append(q, [type |-> "disconnected"])]
  /\ session' = [session EXCEPT ![s] = "none"]
  /\ UNCHANGED <<clock, server, row, saved, sent, due, earlier, written, changes,
                 restarts>>

Tick ==
  /\ clock < MaxTime
  /\ clock' = clock + 1
  /\ UNCHANGED <<link, toServer, session, server, row, saved, sent, due, earlier, written, changes,
                 restarts>>

-----------------------------------------------------------------------------
Init ==
  /\ clock = 1
  /\ link = [s \in Sockets |-> "unused"]
  /\ toServer = [s \in Sockets |-> <<>>]
  /\ session = [s \in Sockets |-> "none"]
  /\ server = ServerInit
  /\ row = [u \in Users |-> NeverLoggedIn]
  /\ saved = <<>>
  /\ sent = [u \in Users |-> <<>>]
  /\ due = [u \in Users |-> {}]
  /\ earlier = 0 /\ written = 0 /\ changes = 0 /\ restarts = 0

Next ==
  \/ \E s \in Sockets :
       \/ Handle(s)
       \/ SignIn(s) \/ SendMessage(s) \/ ChangeState(s) \/ Quit(s) \/ ConnectionLost(s)
  \/ ServerRestart \/ Tick

Spec == Init /\ [][Next]_vars

-----------------------------------------------------------------------------
(* Properties                                                              *)

Messages ==
  [from : Users, to : Users \cup Groups, n : 1 .. MaxMessages, time : 1 .. MaxTime]

\* The state is what the declarations of UserInfo and of the tables allow, and only a user
\* who is not offline is looked up by a socket.
TypeOK ==
  /\ clock \in 1 .. MaxTime
  /\ link \in [Sockets -> {"unused", "up", "down"}]
  /\ session \in [Sockets -> {"none", "online", "invisible", "offline"}]
  /\ server.state \in [Users -> {"online", "invisible", "offline"}]
  /\ server.sock \in [Users -> Sockets \cup {NoSocket}]
  /\ server.login \in [Users -> 0 .. MaxTime]
  /\ server.watched \subseteq Sockets
  /\ \A s \in server.watched : server.state[Owner[s]] # "offline"
  /\ row \in [Users -> [login : 0 .. MaxTime, logout : 0 .. MaxTime]]
  /\ \A i \in 1 .. Len(saved) : saved[i] \in Messages
  /\ \A u \in Users : ToSet(sent[u]) \subseteq ToSet(saved) /\ due[u] \subseteq ToSet(saved)
  /\ earlier \in 0 .. Len(saved)

\* What came for a user who was offline, in a later second than the logout, waits in the
\* database until a login sends it: whatever others do, however often the server dies, it
\* is after the logout that the next login reads, and that login leaves nothing behind.
\* The same holds for all that came during a session that the server did not survive.
\* (cachedChatMessagesForIMUser() after processUserOnlineStatusChanged().)
OfflineMessagesWait ==
  \A u \in Users : \A m \in due[u] :
    server.state[u] = "offline" /\ m.time > row[u].logout

\* While the server runs, the messages of a conversation that one user wrote reach another
\* in the order they were written in and each once, over several sessions of either, at
\* once or by a login, although nothing marks them as delivered: what an old session left on
\* its way is dropped when a new one has begun (decryptData()).  And what users write to a
\* group comes back to them by no login, unless an earlier run of the server saved it.
OnceInOrder ==
  \A u \in Users :
    /\ \A i, j \in 1 .. Len(sent[u]) :
         /\ i < j
         /\ sent[u][i].from = sent[u][j].from
         /\ sent[u][i].to = sent[u][j].to
         => sent[u][i].n < sent[u][j].n
    /\ \A i \in earlier + 1 .. Len(saved) : saved[i].from = u => saved[i] \notin ToSet(sent[u])
=============================================================================
