------------------------------ MODULE IMSession ------------------------------
(***************************************************************************)
(* Signing in to the messenger, and being seen online.                     *)
(*                                                                         *)
(* The server (APP/src/messenger/imserver) logs users in, kicks the        *)
(* session that a user has elsewhere, tells contacts of every change of    *)
(* state and notices lost connections.  The client (imclient: MainWindow,  *)
(* LoginWidget and the packets parser) asks to be let in, gives up after   *)
(* ten seconds, locks and unlocks its window, and restores the state the   *)
(* user had before locking.                                                *)
(*                                                                         *)
(* The connections are UDT's, which both programs try first.  Each end has *)
(* one event loop; toServer[s] and toClient[s] hold what is on its way to  *)
(* the handlers of an end: packets on the network and the signals queued   *)
(* by the IO thread, the last of which may be `disconnected'.  An end that *)
(* closes a socket hears no more from its IO thread, but what is queued    *)
(* already is still handled.                                               *)
(***************************************************************************)
EXTENDS Naturals, Sequences, SequencesExt, FiniteSets

CONSTANTS
  Users,          \* the registered users
  Places,         \* the computers with a client
  UsersAt,        \* UsersAt[place]: who signs in there
  Contacts,       \* Contacts[user]: the contacts of a user
  LoginStates,    \* LoginStates[user]: states that a user chooses to sign in with
  Passwords,      \* {TRUE}, or BOOLEAN when the wrong one may be typed
  MaxConnections, \* bound on the connections a client makes
  MaxAttempts,    \* bound on the sign-ins asked for, all clients together,
  MaxReturns,     \* and on those asked for again after a kick beyond these
  MaxPackets,     \* bound on the packets on their way to the server when
                  \* the user makes the client send another one
  NoUser,
  NoSocket        \* INVALID_SOCK_ID

Sockets == Places \X (1 .. MaxConnections)
States == {"online", "away", "invisible", "offline"}

ASSUME IMSessionAssumption ==
  /\ UsersAt \in [Places -> SUBSET Users]
  /\ Contacts \in [Users -> SUBSET Users]
  /\ \A u \in Users : u \notin Contacts[u]
  /\ \A u, v \in Users : u \in Contacts[v] <=> v \in Contacts[u]
  /\ LoginStates \in [Users -> SUBSET {"online", "invisible"}]
  /\ Passwords \subseteq BOOLEAN
  /\ MaxConnections \in Nat \ {0} /\ MaxAttempts \in Nat /\ MaxReturns \in Nat
  /\ MaxPackets \in Nat
  /\ NoUser \notin Users /\ NoSocket \notin Sockets

VARIABLES
  link,     \* link[s]: "unused", "up" or "down"
  toServer, \* toServer[s]: events on their way to the server's handlers
  toClient, \* toClient[s]: events on their way to the client's handlers
  server,   \* the server's users, see ServerInit
  client,   \* client[p]: the program at place p, see Program
  attempts, \* how many sign-ins were asked for
  loggedOn, \* history: loggedOn[s], how many logins were made over socket s
  returned  \* history: users who were offline and came back without login

vars == <<link, toServer, toClient, server, client, attempts, loggedOn, returned>>

-----------------------------------------------------------------------------
(* Keys and packets                                                        *)

NoKey == <<"none", 0>>      \* the client's, after a reply that it could not decrypt
FirstKey == <<"first", 0>>  \* UserInfo's before any login
PasswordKey(u) == <<"password", u>>
SessionKey(n) == <<"session", n>>

Disconnected == [type |-> "disconnected"]
RequestLogin(u) == [type |-> "request", user |-> u]
\* Mutant: the state of the login page is sent in place of the user's.
LoginInfoOfPage(c) == [type |-> "login", user |-> c.user, right |-> c.right, state |-> c.page]
LoginInfo(c) == [type |-> "login", user |-> c.user, right |-> c.right, state |-> c.after]
StateChange(u, k, st) == [type |-> "state", user |-> u, key |-> k, state |-> st]
Succeeded(u, k) == [type |-> "succeeded", user |-> u, key |-> k]

\* sendReliableData(): a socket that is down takes nothing.
Send(q, up, s, e) == IF s \in up THEN [q EXCEPT ![s] = Append(@, e)] ELSE q
Up == { s \in Sockets : link[s] = "up" }

-----------------------------------------------------------------------------
(* The server                                                              *)

ServerInit ==
  [state   |-> [u \in Users |-> "offline"], \* UserInfo's online state; the users in
                                            \* onlineUserInfoHash are those not offline
   sock    |-> [u \in Users |-> NoSocket],  \* UserInfo's socketID
   key     |-> [u \in Users |-> FirstKey],     \* UserInfo's sessionEncryptionKey
   watched |-> [s \in Sockets |-> NoUser],  \* m_userSocketsHash
   told    |-> [s \in Sockets |-> [u \in Users |-> "offline"]],
                                            \* the state of u last told over s
   logins  |-> 0]                           \* how many session keys were generated

\* Mutant: a user that goes offline is still looked up by its socket.
StatusChangedWatching(sv, up, u, st) ==
  LET told == { sv.sock[c] : c \in { v \in Contacts[u] : sv.state[v] # "offline" } }
  IN  [sv EXCEPT
         !.state[u] = st,
         !.told = [s \in Sockets |->
            IF s \in told \cap up THEN [sv.told[s] EXCEPT ![u] = st] ELSE sv.told[s]]]

\* processUserOnlineStatusChanged(): a user that goes offline is no longer looked up by
\* its socket; every contact that is online is told.
StatusChanged(sv, up, u, st) ==
  LET told == { sv.sock[c] : c \in { v \in Contacts[u] : sv.state[v] # "offline" } }
  IN  [sv EXCEPT
         !.state[u] = st,
         !.watched = [s \in Sockets |->
            IF st = "offline" /\ s = sv.sock[u] THEN NoUser ELSE sv.watched[s]],
         !.told = [s \in Sockets |->
            IF s \in told \cap up THEN [sv.told[s] EXCEPT ![u] = st] ELSE sv.told[s]]]

\* sendContactsOnlineInfo(): the contacts that are online and do not hide.
OnlineContacts(sv, u) ==
  [c \in Users |->
     IF c \in Contacts[u] /\ sv.state[c] \notin {"offline", "invisible"}
     THEN sv.state[c] ELSE "offline"]

\* CLIENT_REQUEST_LOGIN: every user of the model may log in.
HandleRequest(s) ==
  /\ toServer[s] # <<>> /\ Head(toServer[s]).type = "request"
  /\ toServer' = [toServer EXCEPT ![s] = Tail(@)]
  /\ toClient' = Send(toClient, Up, s, [type |-> "can"])
  /\ UNCHANGED <<link, server, client, attempts, loggedOn, returned>>

\* CLIENT_LOGIN_INFO with the wrong password.
HandleWrongPassword(s) ==
  /\ toServer[s] # <<>> /\ Head(toServer[s]).type = "login"
  /\ ~Head(toServer[s]).right
  /\ toServer' = [toServer EXCEPT ![s] = Tail(@)]
  /\ toClient' = Send(toClient, Up, s, [type |-> "failed"])
  /\ UNCHANGED <<link, server, client, attempts, loggedOn, returned>>

\* Mutant: the old connection is neither told nor closed.
KickedSilently(u) ==
  [sv |-> IF server.state[u] = "offline" THEN server ELSE StatusChanged(server, Up, u, "offline"),
   up |-> Up, toClient |-> toClient]

\* logUserIn() for a user who is not offline: the old connection is told and closed, the
\* user goes offline.  Without this, nothing changes.
Kicked(u) ==
  IF server.state[u] = "offline"
  THEN [sv |-> server, up |-> Up, toClient |-> toClient]
  ELSE LET old == server.sock[u]
       IN  [sv |-> StatusChanged(server, Up \ {old}, u, "offline"),
            up |-> Up \ {old},
            toClient |-> IF old \in Up
                         THEN [toClient EXCEPT
                                 ![old] = @ \o <<[type |-> "kicked"], Disconnected>>]
                         ELSE toClient]

\* Mutants: the socket is not inserted into m_userSocketsHash; no list of the contacts that
\* are online is sent.
LoggedInUnwatched(sv, up, u, s, st) ==
  LET entered == [sv EXCEPT !.state[u] = st,
                            !.key[u] = SessionKey(sv.logins + 1),
                            !.logins = @ + 1,
                            !.sock[u] = s,
                            !.told[s] = IF s \in up THEN OnlineContacts(sv, u) ELSE @]
  IN  StatusChanged(entered, up, u, st)
LoggedInUnlisted(sv, up, u, s, st) ==
  [StatusChanged([sv EXCEPT !.state[u] = st,
                            !.key[u] = SessionKey(sv.logins + 1),
                            !.logins = @ + 1,
                            !.sock[u] = s], up, u, st) EXCEPT !.watched[s] = u]

\* The rest of logUserIn() and of the handler, for the socket s.
LoggedIn(sv, up, u, s, st) ==
  LET entered == [sv EXCEPT !.state[u] = st,
                            !.key[u] = SessionKey(sv.logins + 1),
                            !.logins = @ + 1,
                            !.sock[u] = s]
      listed == [entered EXCEPT !.told[s] = IF s \in up THEN OnlineContacts(sv, u) ELSE @]
  IN  [StatusChanged(listed, up, u, st) EXCEPT !.watched[s] = u]

\* CLIENT_LOGIN_INFO.
HandleLogin(s) ==
  /\ toServer[s] # <<>> /\ Head(toServer[s]).type = "login"
  /\ Head(toServer[s]).right
  /\ LET u == Head(toServer[s]).user
         old == server.sock[u]
         kicked == Kicked(u)
         taken == [toServer EXCEPT ![s] = Tail(@)]
     IN  /\ server' = LoggedIn(kicked.sv, kicked.up, u, s, Head(toServer[s]).state)
         /\ toClient' = Send(kicked.toClient, kicked.up, s, Succeeded(u, server'.key[u]))
         /\ link' = [t \in Sockets |->
                       IF link[t] = "up" /\ t \notin kicked.up THEN "down" ELSE link[t]]
         /\ IF server.state[u] = "offline"
            THEN toServer' = taken
            ELSE \E q \in Prefixes(taken[old]) : toServer' = [taken EXCEPT ![old] = q]
         /\ returned' = returned \ {u}
  /\ loggedOn' = [loggedOn EXCEPT ![s] = @ + 1]
  /\ UNCHANGED <<client, attempts>>

\* ONLINE_STATE_CHANGED: what is not encrypted with the user's session key is dropped.
HandleState(s) ==
  /\ toServer[s] # <<>> /\ Head(toServer[s]).type = "state"
  /\ toServer' = [toServer EXCEPT ![s] = Tail(@)]
  /\ LET e == Head(toServer[s])
     IN  IF e.key = server.key[e.user]
         THEN /\ server' = StatusChanged(server, Up, e.user, e.state)
              /\ returned' = IF server.state[e.user] = "offline" /\ e.state # "offline"
                             THEN returned \cup {e.user} ELSE returned
         ELSE UNCHANGED <<server, returned>>
  /\ UNCHANGED <<link, toClient, client, attempts, loggedOn>>

\* peerDisconnected(): the user found by the socket goes offline.
HandleDisconnected(s) ==
  /\ toServer[s] # <<>> /\ Head(toServer[s]).type = "disconnected"
  /\ toServer' = [toServer EXCEPT ![s] = Tail(@)]
  /\ server' = IF server.watched[s] = NoUser THEN server
               ELSE StatusChanged(server, Up, server.watched[s], "offline")
  /\ UNCHANGED <<link, toClient, client, attempts, loggedOn, returned>>

Handle(s) == \/ HandleRequest(s) \/ HandleWrongPassword(s) \/ HandleLogin(s)
             \/ HandleState(s) \/ HandleDisconnected(s)

-----------------------------------------------------------------------------
(* The client                                                              *)

\* A program just started: the login page is shown, page is LoginWidget's state.
Program ==
  [page |-> "normal", main |-> FALSE, verified |-> FALSE, timer |-> FALSE,
   sock |-> NoSocket, state |-> "offline", after |-> "online", before |-> "offline",
   user |-> NoUser, right |-> TRUE, key |-> NoKey, dialog |-> FALSE,
   restored |-> "nothing"]
\* main: the main page is shown instead; after, before: the state to have after the
\* login and the one from before locking; dialog: the user is told of a kick.
\* restored is history: the page's state when slotUserVerified() last restored before.

OfPlace(p) == { s \in Sockets : s[1] = p }
Unused(p) == { s \in OfPlace(p) : link[s] = "unused" }

\* MainWindow::requestLogin() of a client whose fields are c otherwise.
RequestsLogin(p, c) ==
  LET asks(s) == /\ client' = [client EXCEPT ![p] =
                       [c EXCEPT !.sock = s, !.key = PasswordKey(c.user), !.timer = TRUE]]
                 /\ toServer' = Send(toServer, Up \cup Unused(p), s, RequestLogin(c.user))
  IN  \/ /\ c.sock # NoSocket
         /\ asks(c.sock)
         /\ UNCHANGED link
      \/ \E s \in Unused(p) :
           /\ c.sock = NoSocket
           /\ \A t \in Unused(p) : s[2] <= t[2]
           /\ asks(s)
           /\ link' = [link EXCEPT ![s] = "up"]
      \/ /\ c.sock = NoSocket \* the server is not reached
         /\ client' = [client EXCEPT ![p] = [c EXCEPT !.page = "normal"]]
         /\ UNCHANGED <<link, toServer>>

\* on_loginToolButton_clicked() and verifyUser().
ClickLogin(p) ==
  /\ ~client[p].main /\ client[p].page = "normal" /\ ~client[p].dialog
  /\ attempts < MaxAttempts
  /\ attempts' = attempts + 1
  /\ \E u \in UsersAt[p], right \in Passwords : \E st \in LoginStates[u] :
       RequestsLogin(p, [client[p] EXCEPT !.user = u, !.after = st, !.right = right,
                                          !.page = "verifying"])
  /\ UNCHANGED <<toClient, server, loggedOn, returned>>

\* slotCheckAutoLogin(), once after the program has started: the login page is back in
\* its normal state before any answer comes.
AutoLogin(p) ==
  /\ client[p] = Program
  /\ attempts < MaxAttempts
  /\ attempts' = attempts + 1
  /\ \E u \in UsersAt[p] : RequestsLogin(p, [client[p] EXCEPT !.user = u])
  /\ UNCHANGED <<toClient, server, loggedOn, returned>>

\* MainWindow::loginTimeout().
LoginTimeout(p) ==
  /\ client[p].timer
  /\ client' = [client EXCEPT ![p].timer = FALSE,
                              ![p].page = IF client[p].verified THEN @ ELSE "normal"]
  /\ UNCHANGED <<link, toServer, toClient, server, attempts, loggedOn, returned>>

\* offline() of a client whose fields are c otherwise.  The socket is closed; what has
\* been received before may still be handled.
GoesOffline(p, c, received) ==
  LET s == c.sock
  IN  /\ client' = [client EXCEPT ![p] =
                      [c EXCEPT !.state = "offline", !.sock = NoSocket, !.verified = FALSE]]
      /\ IF s = NoSocket
         THEN /\ toClient' = received
              /\ UNCHANGED <<link, toServer>>
         ELSE /\ \E q \in Prefixes(received[s]) : toClient' = [received EXCEPT ![s] = q]
              /\ toServer' = Send(toServer, Up, s, Disconnected)
              /\ link' = [link EXCEPT ![s] = "down"]

\* What a client whose fields are c sends with changeMyOnlineState().
Announce(c, sts) ==
  IF c.sock \in Up
  THEN [toServer EXCEPT ![c.sock] =
          @ \o [i \in 1 .. Len(sts) |-> StateChange(c.user, c.key, sts[i])]]
  ELSE toServer

\* MainWindow::slotUserVerified(), after a login or to unlock the window.
UserVerified(p, c) ==
  LET shown == [c EXCEPT !.main = TRUE, !.page = "normal"]
  IN  IF c.page = "verifying"
      THEN /\ client' = [client EXCEPT ![p] =
                           [shown EXCEPT !.verified = TRUE, !.state = c.after]]
           /\ UNCHANGED toServer
      ELSE /\ client' = [client EXCEPT ![p] =
                           [shown EXCEPT !.state = c.before, !.restored = c.page]]
           /\ toServer' = Announce(c, IF c.before = "invisible" THEN <<>> ELSE <<c.before>>)

\* SERVER_RESPONSE_CLIENT_REQUEST_LOGIN: login() answers at once, over the socket asked.
LetIn(p, s) ==
  /\ toClient[s] # <<>> /\ Head(toClient[s]).type = "can"
  /\ toClient' = [toClient EXCEPT ![s] = Tail(@)]
  /\ IF s \in Up
     THEN /\ client' = [client EXCEPT ![p].key = PasswordKey(client[p].user)]
          /\ toServer' = Send(toServer, Up, s, LoginInfo(client[p]))
     ELSE /\ client' = [client EXCEPT ![p].key = PasswordKey(client[p].user),
                                      ![p].timer = FALSE, ![p].page = "normal"]
          /\ UNCHANGED toServer
  /\ UNCHANGED <<link, server, attempts, loggedOn, returned>>

\* SERVER_RESPONSE_CLIENT_LOGIN_RESULT of a login that succeeded.  The session key is
\* lost when the client no longer has the key that protects it.
LoginSucceeded(p, s) ==
  /\ toClient[s] # <<>> /\ Head(toClient[s]).type = "succeeded"
  /\ toClient' = [toClient EXCEPT ![s] = Tail(@)]
  /\ LET e == Head(toClient[s])
     IN  UserVerified(p, [client[p] EXCEPT
           !.timer = FALSE,
           !.key = IF client[p].key = PasswordKey(e.user) THEN e.key ELSE NoKey])
  /\ UNCHANGED <<link, server, attempts, loggedOn, returned>>

\* SERVER_RESPONSE_CLIENT_LOGIN_RESULT of a login that failed.
LoginFailed(p, s) ==
  /\ toClient[s] # <<>> /\ Head(toClient[s]).type = "failed"
  /\ toClient' = [toClient EXCEPT ![s] = Tail(@)]
  /\ client' = [client EXCEPT ![p].timer = FALSE, ![p].page = "normal"]
  /\ UNCHANGED <<link, toServer, server, attempts, loggedOn, returned>>

\* The same with ERROR_KickedOut: slotProcessKickedOff() up to its dialog.
KickedOff(p, s) ==
  /\ toClient[s] # <<>> /\ Head(toClient[s]).type = "kicked"
  /\ GoesOffline(p, [client[p] EXCEPT !.timer = FALSE, !.dialog = TRUE],
                 [toClient EXCEPT ![s] = Tail(@)])
  /\ UNCHANGED <<server, attempts, loggedOn, returned>>

\* Mutant: the loss is only minded on the main page.
ServerLostOnMainPage(p, s) ==
  /\ toClient[s] # <<>> /\ Head(toClient[s]).type = "disconnected"
  /\ LET rest == [toClient EXCEPT ![s] = Tail(@)]
     IN  IF s = client[p].sock /\ client[p].main
         THEN GoesOffline(p, client[p], rest)
         ELSE toClient' = rest /\ UNCHANGED <<link, toServer, client>>
  /\ UNCHANGED <<server, attempts, loggedOn, returned>>

\* MainWindow::peerDisconnected().
ServerLost(p, s) ==
  /\ toClient[s] # <<>> /\ Head(toClient[s]).type = "disconnected"
  /\ LET rest == [toClient EXCEPT ![s] = Tail(@)]
     IN  IF s = client[p].sock
         THEN GoesOffline(p, client[p], rest)
         ELSE toClient' = rest /\ UNCHANGED <<link, toServer, client>>
  /\ UNCHANGED <<server, attempts, loggedOn, returned>>

\* The dialog's buttons.
SignInAgain(p) ==
  /\ client[p].dialog
  /\ attempts < MaxAttempts + MaxReturns
  /\ attempts' = attempts + 1
  /\ RequestsLogin(p, [client[p] EXCEPT !.dialog = FALSE])
  /\ UNCHANGED <<toClient, server, loggedOn, returned>>

CloseDialog(p) ==
  /\ client[p].dialog
  /\ client' = [client EXCEPT ![p].dialog = FALSE]
  /\ UNCHANGED <<link, toServer, toClient, server, attempts, loggedOn, returned>>

\* There is room for what the user makes the client send.
Room(p) == client[p].sock # NoSocket => Len(toServer[client[p].sock]) < MaxPackets

\* slotLockUI().
Lock(p) ==
  /\ client[p].main /\ ~client[p].dialog /\ Room(p)
  /\ LET c == client[p]
         away == c.state \notin {"invisible", "away"}
     IN  /\ client' = [client EXCEPT ![p].page = "locked", ![p].main = FALSE,
                                     ![p].before = c.state,
                                     ![p].state = IF away THEN "away" ELSE @]
         /\ toServer' = Announce(c, IF away THEN <<"away">> ELSE <<>>)
  /\ UNCHANGED <<link, toClient, server, attempts, loggedOn, returned>>

\* unLockUI() with the right key.
Unlock(p) ==
  /\ ~client[p].main /\ client[p].page = "locked" /\ ~client[p].dialog /\ Room(p)
  /\ UserVerified(p, client[p])
  /\ UNCHANGED <<link, toClient, server, attempts, loggedOn, returned>>

\* aboutToQuit() and stopNetwork(); the program may be started again.
Quit(p) ==
  LET c == client[p]
      s == c.sock
      last == IF c.state \in {"offline", "invisible"} THEN <<"offline">>
              ELSE <<"offline", "offline">>
  IN  /\ c # Program /\ ~c.dialog /\ Room(p)
      /\ client' = [client EXCEPT ![p] = Program]
      /\ toClient' = [t \in Sockets |-> IF t[1] = p THEN <<>> ELSE toClient[t]]
      /\ IF s \in Up
         THEN /\ toServer' = [Announce(c, last) EXCEPT ![s] = Append(@, Disconnected)]
              /\ link' = [link EXCEPT ![s] = "down"]
         ELSE UNCHANGED <<toServer, link>>
      /\ UNCHANGED <<server, attempts, loggedOn, returned>>

\* The network fails: each end still gets some of what was on its way, then its IO
\* thread finds the socket broken.
ConnectionLost(s) ==
  /\ link[s] = "up"
  /\ link' = [link EXCEPT ![s] = "down"]
  /\ \E q \in Prefixes(toServer[s]) : toServer' = [toServer EXCEPT ![s] = Append(q, Disconnected)]
  /\ \E q \in Prefixes(toClient[s]) : toClient' = [toClient EXCEPT ![s] = Append(q, Disconnected)]
  /\ UNCHANGED <<server, client, attempts, loggedOn, returned>>

\* The server's process dies and is started again: only the database outlives it, and a new
\* session key is still one that was never used.  (What it loses of what it had sent is
\* ConnectionLost's, just before.)
ServerRestart ==
  /\ Up # {}
  /\ link' = [s \in Sockets |-> IF s \in Up THEN "down" ELSE link[s]]
  /\ toServer' = [s \in Sockets |-> <<>>]
  /\ toClient' = [s \in Sockets |->
       IF s \in Up THEN Append(toClient[s], Disconnected) ELSE toClient[s]]
  /\ server' = [ServerInit EXCEPT !.logins = server.logins]
  /\ returned' = {}
  /\ UNCHANGED <<client, attempts, loggedOn>>

Receive(s) == \/ LetIn(s[1], s) \/ LoginSucceeded(s[1], s) \/ LoginFailed(s[1], s)
              \/ KickedOff(s[1], s) \/ ServerLost(s[1], s)

-----------------------------------------------------------------------------
Init ==
  /\ link = [s \in Sockets |-> "unused"]
  /\ toServer = [s \in Sockets |-> <<>>]
  /\ toClient = [s \in Sockets |-> <<>>]
  /\ server = ServerInit
  /\ client = [p \in Places |-> Program]
  /\ attempts = 0
  /\ loggedOn = [s \in Sockets |-> 0]
  /\ returned = {}

Next ==
  \/ \E s \in Sockets : Handle(s) \/ Receive(s) \/ ConnectionLost(s)
  \/ \E p \in Places :
       \/ ClickLogin(p) \/ AutoLogin(p) \/ LoginTimeout(p) \/ SignInAgain(p)
       \/ CloseDialog(p) \/ Lock(p) \/ Unlock(p) \/ Quit(p)
  \/ ServerRestart

Spec == Init /\ [][Next]_vars

-----------------------------------------------------------------------------
(* Properties                                                              *)

\* Every session key was generated by the server.
Keys ==
  {NoKey, FirstKey} \cup { PasswordKey(u) : u \in Users }
  \cup { SessionKey(n) : n \in 1 .. server.logins }

\* The state is what the declarations of MainWindow, LoginWidget, UserInfo and
\* ServerPacketsParser allow.
TypeOK ==
  /\ link \in [Sockets -> {"unused", "up", "down"}]
  /\ server.state \in [Users -> States]
  /\ server.sock \in [Users -> Sockets \cup {NoSocket}]
  /\ server.key \in [Users -> Keys]
  /\ server.watched \in [Sockets -> Users \cup {NoUser}]
  /\ server.told \in [Sockets -> [Users -> States]]
  /\ \A p \in Places :
       /\ client[p].page \in {"normal", "verifying", "locked"}
       /\ client[p].sock \in OfPlace(p) \cup {NoSocket}
       /\ client[p].state \in States /\ client[p].before \in States
       /\ client[p].user \in Users \cup {NoUser}
       /\ client[p].key \in Keys
  /\ attempts \in 0 .. MaxAttempts + MaxReturns
  /\ loggedOn \in [Sockets -> Nat]
  /\ returned \subseteq Users

\* There is no heartbeat: a user stays online until a packet or the loss of a socket that
\* m_userSocketsHash knows says otherwise (peerDisconnected()).  A user who logged in once
\* over the socket and did not come back from offline by a mere change of state is found by
\* that socket, and the socket works or its loss is on its way to the handler.
OnlineIsWatched ==
  \A u \in Users :
    LET s == server.sock[u]
    IN  server.state[u] # "offline" /\ loggedOn[s] = 1 /\ u \notin returned
          => /\ server.watched[s] = u
             /\ link[s] = "up" \/ \E i \in 1 .. Len(toServer[s]) : toServer[s][i] = Disconnected

\* A user has one session: m_userSocketsHash knows a user by one socket at most, the one
\* that packets for the user are sent to (logUserIn() removes the session it kicks).
OneSession ==
  \A s \in Sockets : server.watched[s] # NoUser => server.sock[server.watched[s]] = s

\* A client that takes itself for signed in, and can talk to the server with the key of the
\* one login that was made over its connection.
SignedIn(p) ==
  client[p].verified /\ client[p].key[1] = "session" /\ loggedOn[client[p].sock] = 1

\* Signing in at a second computer ends the first session there too: two clients are never
\* both signed in as one user once each has handled what it was sent.
OneVerified ==
  \A p, q \in Places :
    /\ p # q /\ SignedIn(p) /\ SignedIn(q)
    /\ client[p].user = client[q].user
    => \E s \in {client[p].sock, client[q].sock} : toClient[s] # <<>>

\* A user who is online was told of every contact that is online and not hidden, and of no
\* other, whatever the order in which the two logged in, changed state, were kicked or lost
\* their connection (sendContactsOnlineInfo() and processUserOnlineStatusChanged()).
PresenceTold ==
  \A s \in Sockets : \A c \in Users :
    LET u == server.watched[s]
        hidden == {"invisible", "offline"}
    IN  u # NoUser /\ link[s] = "up" /\ c \in Contacts[u]
          => (server.told[s][c] \in hidden <=> server.state[c] \in hidden)

\* A client learns that its session is over, because of a login elsewhere, a lost
\* connection or a server that died: while it takes itself for signed in, its connection
\* works or the news is waiting for its event loop.
LossIsNoticed ==
  \A p \in Places : \A s \in OfPlace(p) :
    client[p].verified /\ client[p].sock = s /\ link[s] # "up"
      => \E i \in 1 .. Len(toClient[s]) : toClient[s][i].type \in {"kicked", "disconnected"}

\* slotUserVerified() has two branches: one for a login that succeeds, and one of which
\* its comment says "Restore user online state after unlocking".  So a state is restored
\* only where the window was locked.
RestoredAfterUnlocking ==
  \A p \in Places : client[p].restored \in {"nothing", "locked"}
=============================================================================
