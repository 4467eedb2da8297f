-------------------------- MODULE IMSessionProofs ---------------------------
(***************************************************************************)
(* Signing in to the messenger for any users, computers and connections:   *)
(* the inductive invariant that the safety properties of IMSession follow  *)
(* from.                                                                   *)
(*                                                                         *)
(* The steps are first put into kinds (a client talks, connects or leaves, *)
(* a connection is lost, the server answers, changes a state or logs a     *)
(* user in), which say of every socket what the step does to it; each part *)
(* of the invariant is then shown to be kept by each kind.                 *)
(***************************************************************************)
EXTENDS IMSession, SequenceProofs

-----------------------------------------------------------------------------
(* The invariant                                                           *)

SessionKeys == { SessionKey(n) : n \in Nat \ {0} }
ClientKeys == {NoKey} \cup { PasswordKey(u) : u \in Users } \cup SessionKeys

ToServerPackets ==
       [type : {"disconnected"}]
  \cup [type : {"request"}, user : Users]
  \cup [type : {"login"}, user : Users, right : BOOLEAN, state : {"online", "invisible"}]
  \cup [type : {"state"}, user : Users, key : ClientKeys, state : States]

ToClientPackets ==
       [type : {"disconnected", "kicked", "can", "failed"}]
  \cup [type : {"succeeded"}, user : Users, key : SessionKeys]

ServerStates ==
  [state   : [Users -> States],
   sock    : [Users -> Sockets \cup {NoSocket}],
   key     : [Users -> {FirstKey} \cup SessionKeys],
   watched : [Sockets -> Users \cup {NoUser}],
   told    : [Sockets -> [Users -> States]],
   logins  : Nat]

Programs ==
  [page : {"normal", "verifying", "locked"}, main : BOOLEAN, verified : BOOLEAN,
   timer : BOOLEAN, sock : Sockets \cup {NoSocket}, state : States,
   after : {"online", "invisible"}, before : States, user : Users \cup {NoUser},
   right : BOOLEAN, key : ClientKeys, dialog : BOOLEAN,
   restored : {"nothing", "normal", "verifying", "locked"}]

\* The types, those of what is on its way among them.
Types ==
  /\ link \in [Sockets -> {"unused", "up", "down"}]
  /\ toServer \in [Sockets -> Seq(ToServerPackets)]
  /\ toClient \in [Sockets -> Seq(ToClientPackets)]
  /\ server \in ServerStates
  /\ client \in [Places -> Programs]
  /\ attempts \in 0 .. MaxAttempts + MaxReturns
  /\ loggedOn \in [Sockets -> Nat]
  /\ returned \subseteq Users

Ends == {"disconnected", "kicked"}
Ended(q) == \E e \in ToSet(q) : e.type \in Ends

\* The end of a connection is the last event of a queue; a kick comes just before it.
EndsLast(q) ==
  \A i, j \in 1 .. Len(q) : i < j =>
    q[i].type # "disconnected" /\ (q[i].type = "kicked" => q[j].type = "disconnected")

\* The client has not closed the socket.
Open(s) == client[s[1]].sock = s

\* A client that has closed a socket hears nothing more over it, but that it is closed; one
\* that has not hears of it when it is.  A socket that the server loses before a login was
\* made over it is lost by its events, too.
Connection(s) ==
  /\ link[s] = "up" => Open(s) /\ ~Ended(toServer[s]) /\ ~Ended(toClient[s])
  /\ link[s] = "unused" => ~Open(s) /\ toServer[s] = <<>> /\ toClient[s] = <<>> /\ loggedOn[s] = 0
  /\ EndsLast(toServer[s]) /\ EndsLast(toClient[s])
  /\ ~Open(s) => \A e \in ToSet(toClient[s]) : e.type = "disconnected"
  /\ Open(s) /\ link[s] # "up" => Ended(toClient[s])
  /\ link[s] = "down" /\ loggedOn[s] = 0 /\ toServer[s] # <<>> => Ended(toServer[s])

Connections == \A s \in Sockets : Connection(s)

\* A client has a socket of its own, and asks for the user that it remembers.
Client(p) ==
  /\ client[p].sock # NoSocket =>
       /\ client[p].sock \in OfPlace(p) /\ client[p].user \in Users
       /\ client[p].key[1] = "password" => client[p].key = PasswordKey(client[p].user)
  /\ client[p].sock = NoSocket => ~client[p].verified
  /\ client[p].dialog => client[p].user \in Users

\* A client that is signed in is not offline, and not offline again when it is unlocked.
Shown(p) ==
  client[p].verified /\ loggedOn[client[p].sock] = 1 =>
    client[p].state # "offline" /\ (client[p].page = "locked" => client[p].before # "offline")

Clients == \A p \in Places : Client(p) /\ Shown(p)

\* Whoever is not offline is so by a login over a socket, and found by the socket of the
\* last login at most.
Sessions ==
  /\ \A s \in Sockets : server.watched[s] # NoUser =>
       server.sock[server.watched[s]] = s /\ server.state[server.watched[s]] # "offline"
  /\ \A u \in Users : server.sock[u] # NoSocket => loggedOn[server.sock[u]] >= 1
  /\ \A u \in Users : server.sock[u] = NoSocket =>
       server.state[u] = "offline" /\ server.key[u] = FirstKey
  /\ \A u, v \in Users : u # v /\ server.sock[u] = server.sock[v] /\ server.sock[u] # NoSocket =>
       loggedOn[server.sock[u]] >= 2

\* The client at the other end of s has the key k, used it for a packet or is getting it.
Holds(s, k) ==
  \/ Open(s) /\ client[s[1]].key = k
  \/ \E e \in ToSet(toServer[s]) : e.type = "state" /\ e.key = k
  \/ \E e \in ToSet(toClient[s]) : e.type = "succeeded" /\ e.key = k

\* Session keys come from the server, and each of them over one socket.
KeysApart ==
  /\ \A u \in Users : \A n \in Nat \ {0} :
       server.key[u] = SessionKey(n) => n <= server.logins
  /\ \A p \in Places : \A n \in Nat \ {0} :
       client[p].key = SessionKey(n) => n <= server.logins
  /\ \A s \in Sockets : \A n \in Nat \ {0} : Holds(s, SessionKey(n)) => n <= server.logins
  /\ \A s, t \in Sockets : \A k \in SessionKeys : Holds(s, k) /\ Holds(t, k) => s = t

\* The client is not signed in, nor has it ever been over this socket.
NotYet(s) == Open(s) => client[s[1]].key \notin SessionKeys /\ ~client[s[1]].verified

\* There are as many replies to logins as logins.
Replies(s) ==
  /\ loggedOn[s] = 0 =>
       NotYet(s) /\ \A e \in ToSet(toClient[s]) : e.type # "succeeded"
  /\ loggedOn[s] = 1 =>
       /\ (\E e \in ToSet(toClient[s]) : e.type = "succeeded") => NotYet(s)
       /\ \A i, j \in 1 .. Len(toClient[s]) :
            toClient[s][i].type = "succeeded" /\ toClient[s][j].type = "succeeded" => i = j

\* No client says with the key k that its user is offline.
NoFarewell(k) ==
  \A t \in Sockets : \A e \in ToSet(toServer[t]) :
    e.type = "state" /\ e.key = k => e.state # "offline"

\* The server takes u for signed in over s, with the key k.
SignedOn(u, k, s) ==
  /\ u \in Users /\ server.key[u] = k /\ server.sock[u] = s /\ server.state[u] # "offline"
  /\ NoFarewell(k)

\* So it does while the client takes itself for signed in and the connection works.
Agreed(s) ==
  loggedOn[s] = 1 /\ link[s] = "up" =>
    /\ \A e \in ToSet(toClient[s]) : e.type = "succeeded" => SignedOn(e.user, e.key, s)
    /\ client[s[1]].verified /\ client[s[1]].key \in SessionKeys =>
         SignedOn(client[s[1]].user, client[s[1]].key, s)

\* What OnlineIsWatched says of a user.
Found(u) ==
  server.state[u] # "offline" /\ loggedOn[server.sock[u]] = 1 /\ u \notin returned =>
    /\ server.watched[server.sock[u]] = u
    /\ link[server.sock[u]] = "up" \/ Disconnected \in ToSet(toServer[server.sock[u]])

IInv == /\ Types /\ Connections /\ Clients /\ Sessions /\ KeysApart
        /\ (\A s \in Sockets : Replies(s)) /\ (\A s \in Sockets : Agreed(s))
        /\ (\A u \in Users : Found(u)) /\ PresenceTold

-----------------------------------------------------------------------------
(* The kinds of steps                                                      *)

Only(p) == \A q \in Places : q # p => client'[q] = client[q]

\* The client takes an event of one of the types from the queue of s.
Takes(s, types) ==
  /\ toClient[s] # <<>> /\ Head(toClient[s]).type \in types
  /\ toClient' = [toClient EXCEPT ![s] = Tail(@)]

Reads(p, types) ==
  UNCHANGED toClient \/ \E s \in Sockets : s = client[p].sock /\ Takes(s, types)

\* What a client may say over the open socket s.
Sayable(r, p, s) ==
  \A e \in ToSet(r) :
    \/ e.type \in {"request", "login"}
    \/ /\ e.type = "state" /\ e.key = client'[p].key
       /\ e.state = "offline" => ~client'[p].verified \/ loggedOn[s] # 1

Says(p) ==
  /\ toServer' \in [Sockets -> Seq(ToServerPackets)]
  /\ \A s \in Sockets :
       \/ toServer'[s] = toServer[s]
       \/ /\ s = client[p].sock /\ link[s] = "up"
          /\ \E r \in Seq(ToServerPackets) : toServer'[s] = toServer[s] \o r /\ Sayable(r, p, s)

\* A client without a connection, or one that goes on with the session it has or has not;
\* one that asks to be let in; one that is answered.
GoesOn(p) ==
  \/ client[p].sock = NoSocket /\ UNCHANGED toClient
  \/ /\ Reads(p, {"can", "failed"})
     /\ client'[p].user = client[p].user /\ client'[p].key = client[p].key
     /\ client'[p].verified = client[p].verified

Asks(p) ==
  /\ Reads(p, {"can"})
  /\ client'[p].key = PasswordKey(client'[p].user)
  /\ client'[p].verified = client[p].verified

IsAnswered(p) ==
  \E s \in Sockets :
    /\ s = client[p].sock /\ Takes(s, {"succeeded"})
    /\ client'[p].user = client[p].user
    /\ client'[p].key = IF client[p].key = PasswordKey(Head(toClient[s]).user)
                        THEN Head(toClient[s]).key ELSE NoKey

Talks(p) ==
  /\ Only(p) /\ client' \in [Places -> Programs] /\ client'[p].sock = client[p].sock
  /\ Client(p)' /\ Shown(p)' /\ Says(p)
  /\ GoesOn(p) \/ Asks(p) \/ IsAnswered(p)
  /\ client'[p].key \in SessionKeys /\ client[p].sock = NoSocket => client'[p].key = client[p].key
  /\ UNCHANGED <<link, server, loggedOn, returned>>

\* A client connects, over a socket of its own.
Connects(p, s) ==
  /\ s \in OfPlace(p) /\ client[p].sock = NoSocket /\ link[s] = "unused"
  /\ Only(p) /\ client' \in [Places -> Programs] /\ client'[p].sock = s
  /\ Client(p)' /\ client'[p].key = PasswordKey(client'[p].user) /\ ~client'[p].verified
  /\ link' = [link EXCEPT ![s] = "up"]
  /\ \E e \in ToServerPackets :
       e.type = "request" /\ toServer' = [toServer EXCEPT ![s] = Append(@, e)]
  /\ UNCHANGED <<toClient, server, loggedOn, returned>>

\* A client closes its socket, if it has one.
Leaves(p) ==
  /\ Only(p) /\ client' \in [Places -> Programs] /\ client'[p].sock = NoSocket /\ Client(p)'
  /\ client'[p].key \in {client[p].key, NoKey}
  /\ toServer' \in [Sockets -> Seq(ToServerPackets)]
  /\ toClient' \in [Sockets -> Seq(ToClientPackets)]
  /\ link' \in [Sockets -> {"unused", "up", "down"}]
  /\ \A t \in Sockets : t # client[p].sock =>
       /\ link'[t] = link[t] /\ toServer'[t] = toServer[t]
       /\ toClient'[t] = toClient[t] \/ (t[1] = p /\ toClient'[t] = <<>>)
  /\ \A s \in Sockets : s = client[p].sock =>
       /\ link'[s] = "down"
       /\ EndsLast(toClient'[s]) /\ \A e \in ToSet(toClient'[s]) : e.type = "disconnected"
       /\ \/ link[s] # "up" /\ toServer'[s] = toServer[s]
          \/ /\ link[s] = "up"
             /\ \E r \in Seq(ToServerPackets) :
                  /\ toServer'[s] = Append(toServer[s] \o r, Disconnected)
                  /\ \A e \in ToSet(r) : e.type = "state" /\ e.key = client[p].key
  /\ UNCHANGED <<server, loggedOn, returned>>

\* A client hears of the end of a socket that it has closed.
Ignores(s) ==
  /\ ~Open(s) /\ Takes(s, {"disconnected"})
  /\ UNCHANGED <<link, toServer, server, client, loggedOn, returned>>

\* The server takes an event of one of the types from the queue of s.
Handles(s, types) ==
  /\ toServer[s] # <<>> /\ Head(toServer[s]).type \in types
  /\ toServer' = [toServer EXCEPT ![s] = Tail(@)]

\* The server answers; or the state of u changes to st.
Answers(s) ==
  /\ Handles(s, {"request", "login"})
  /\ \/ UNCHANGED toClient
     \/ /\ link[s] = "up"
        /\ \E e \in ToClientPackets :
             e.type \in {"can", "failed"} /\ toClient' = [toClient EXCEPT ![s] = Append(@, e)]
  /\ UNCHANGED <<link, server, client, loggedOn, returned>>

Changes(s, u, st) ==
  /\ \/ /\ Handles(s, {"state"}) /\ Head(toServer[s]).key = server.key[u]
        /\ st = Head(toServer[s]).state
        /\ returned' = IF server.state[u] = "offline" /\ st # "offline"
                       THEN returned \cup {u} ELSE returned
     \/ /\ Handles(s, {"disconnected"}) /\ u = server.watched[s] /\ st = "offline"
        /\ UNCHANGED returned
  /\ server' = StatusChanged(server, Up, u, st)
  /\ UNCHANGED <<link, toClient, client, loggedOn>>

\* A change of state is dropped, or nobody is found by a socket that is lost.
Drops(s) ==
  /\ \/ Handles(s, {"state"})
     \/ Handles(s, {"disconnected"}) /\ server.watched[s] = NoUser
  /\ UNCHANGED <<link, toClient, server, client, loggedOn, returned>>

\* The user u logs in over s; the socket that a session of u has is closed.
KickedOut(u, t) == server.state[u] # "offline" /\ t = server.sock[u]

LogsIn(s, u) ==
  /\ toServer[s] # <<>> /\ Head(toServer[s]).type = "login" /\ u = Head(toServer[s]).user
  /\ server' \in ServerStates
  /\ server'.state = [server.state EXCEPT ![u] = Head(toServer[s]).state]
  /\ server'.sock = [server.sock EXCEPT ![u] = s]
  /\ server'.key = [server.key EXCEPT ![u] = SessionKey(server.logins + 1)]
  /\ server'.logins = server.logins + 1
  /\ \A t \in Sockets :
       server'.watched[t] = IF t = s THEN u ELSE IF KickedOut(u, t) THEN NoUser
                            ELSE server.watched[t]
  /\ \A t, v : t \in Sockets \ {s} /\ v \in Users \ {u} => server'.told[t][v] = server.told[t][v]
  /\ \A t \in Sockets \ {s} : \A w \in Contacts[u] :
       link'[t] = "up" /\ server.state[w] # "offline" /\ server.sock[w] = t =>
         server'.told[t][u] = Head(toServer[s]).state
  /\ link'[s] = "up" => \A v \in Contacts[u] :
       server'.told[s][v] = IF server.state[v] \in {"offline", "invisible"} THEN "offline"
                            ELSE server.state[v]
  /\ link' \in [Sockets -> {"unused", "up", "down"}]
  /\ \A t \in Sockets :
       link'[t] = IF KickedOut(u, t) /\ link[t] = "up" THEN "down" ELSE link[t]
  /\ toClient' \in [Sockets -> Seq(ToClientPackets)]
  /\ \A t \in Sockets :
       toClient'[t] = IF KickedOut(u, t) /\ link[t] = "up"
                      THEN toClient[t] \o <<[type |-> "kicked"], Disconnected>>
                      ELSE IF t = s /\ link[s] = "up"
                      THEN Append(toClient[s], Succeeded(u, SessionKey(server.logins + 1)))
                      ELSE toClient[t]
  /\ toServer' \in [Sockets -> Seq(ToServerPackets)]
  /\ toServer'[s] \in Prefixes(Tail(toServer[s]))
  /\ ~KickedOut(u, s) => toServer'[s] = Tail(toServer[s])
  /\ \A t \in Sockets \ {s} :
       /\ toServer'[t] \in Prefixes(toServer[t])
       /\ ~KickedOut(u, t) => toServer'[t] = toServer[t]
  /\ loggedOn' = [loggedOn EXCEPT ![s] = @ + 1]
  /\ returned' = returned \ {u}
  /\ UNCHANGED client

-----------------------------------------------------------------------------
(* What packets and programs are                                           *)

LEMMA ToServerKinds ==
  ASSUME NEW e \in ToServerPackets
  PROVE  /\ e.type \in {"disconnected", "request", "login", "state"}
         /\ e.type = "disconnected" => e = Disconnected
         /\ e.type = "request" => e.user \in Users
         /\ e.type = "login" =>
              e.user \in Users /\ e.right \in BOOLEAN /\ e.state \in {"online", "invisible"}
         /\ e.type = "state" =>
              e.user \in Users /\ e.key \in ClientKeys /\ e.state \in States
BY DEF ToServerPackets, Disconnected

LEMMA ToClientKinds ==
  ASSUME NEW e \in ToClientPackets
  PROVE  /\ e.type \in {"disconnected", "kicked", "can", "failed", "succeeded"}
         /\ e.type = "disconnected" => e = Disconnected
         /\ e.type = "succeeded" =>
              e.user \in Users /\ e.key \in SessionKeys /\ e = Succeeded(e.user, e.key)
BY DEF ToClientPackets, Disconnected, Succeeded

\* The kinds of keys are apart.
LEMMA KeyKinds ==
  /\ \A k \in SessionKeys : k[1] = "session" /\ k \notin {NoKey, FirstKey}
  /\ \A u : PasswordKey(u) \notin SessionKeys /\ PasswordKey(u)[1] = "password"
  /\ \A u, v : PasswordKey(u) = PasswordKey(v) => u = v
  /\ NoKey \notin SessionKeys /\ NoKey[1] = "none" /\ FirstKey \notin SessionKeys
  /\ FirstKey \notin ClientKeys
  /\ \A k \in ClientKeys :
       /\ k[1] = "session" => k \in SessionKeys
       /\ k[1] = "password" => \E u \in Users : k = PasswordKey(u)
  /\ \A n \in Nat \ {0} : SessionKey(n) \in SessionKeys
  /\ \A m, n : SessionKey(m) = SessionKey(n) => m = n
<1>1. /\ \A k \in SessionKeys : k[1] = "session" /\ k \notin {NoKey, FirstKey}
      /\ \A u : PasswordKey(u) \notin SessionKeys /\ PasswordKey(u)[1] = "password"
  BY DEF SessionKeys, SessionKey, PasswordKey, NoKey, FirstKey
<1>2. /\ \A u, v : PasswordKey(u) = PasswordKey(v) => u = v
      /\ \A m, n : SessionKey(m) = SessionKey(n) => m = n
      /\ NoKey \notin SessionKeys /\ NoKey[1] = "none" /\ FirstKey \notin SessionKeys
      /\ \A n \in Nat \ {0} : SessionKey(n) \in SessionKeys
  BY DEF SessionKeys, SessionKey, PasswordKey, NoKey, FirstKey
<1>3. FirstKey \notin ClientKeys
  BY <1>2 DEF ClientKeys, PasswordKey, NoKey, FirstKey
<1>4. ASSUME NEW k \in ClientKeys
      PROVE  /\ k[1] = "session" => k \in SessionKeys
             /\ k[1] = "password" => \E u \in Users : k = PasswordKey(u)
  BY <1>1, <1>2 DEF ClientKeys
<1> QED BY <1>1, <1>2, <1>3, <1>4

LEMMA PlaceOf ==
  ASSUME NEW s \in Sockets
  PROVE  s[1] \in Places /\ \A p : s \in OfPlace(p) <=> s[1] = p
BY DEF Sockets, OfPlace

\* A new program is typed, and has nothing.
LEMMA ProgramFacts ==
  ASSUME NEW p, client[p] = Program
  PROVE  client[p] \in Programs /\ client[p].sock = NoSocket /\ Client(p) /\ Shown(p)
BY DEF Program, Programs, Client, Shown, States, ClientKeys

-----------------------------------------------------------------------------
(* A client's steps are of a kind                                          *)

\* The queues are q, with what a client whose fields are c has announced.
Announced(q, c, sts) ==
  /\ q \in [Sockets -> Seq(ToServerPackets)]
  /\ \A t \in Sockets :
       \/ q[t] = toServer[t]
       \/ /\ t = c.sock /\ link[t] = "up"
          /\ \E r \in Seq(ToServerPackets) :
               /\ q[t] = toServer[t] \o r
               /\ \A e \in ToSet(r) :
                    e.type = "state" /\ e.key = c.key /\ e.state \in ToSet(sts)

LEMMA AnnounceEffect ==
  ASSUME Types, NEW c \in Programs, c.sock \in Sockets => c.user \in Users,
         NEW sts \in Seq(States), NEW q, q = Announce(c, sts)
  PROVE  Announced(q, c, sts)
<1>0. toServer \in [Sockets -> Seq(ToServerPackets)]
  BY DEF Types
<1>1. CASE c.sock \notin Up
  BY <1>0, <1>1 DEF Announce, Announced
<1>2. CASE c.sock \in Up
  <2>1. c.sock \in Sockets /\ link[c.sock] = "up" /\ c.user \in Users /\ c.key \in ClientKeys
    BY <1>2 DEF Up, Programs
  <2>2. PICK r : r = [i \in 1 .. Len(sts) |-> StateChange(c.user, c.key, sts[i])]
    OBVIOUS
  <2>3. \A i \in 1 .. Len(sts) : sts[i] \in States /\ sts[i] \in ToSet(sts)
    BY ToSetFacts
  <2>4. \A st \in States : StateChange(c.user, c.key, st) \in ToServerPackets
    BY <2>1 DEF StateChange, ToServerPackets
  <2>5. r \in Seq(ToServerPackets) /\ Len(r) = Len(sts)
    BY <2>2, <2>3, <2>4
  <2>6. ASSUME NEW e \in ToSet(r)
        PROVE  e.type = "state" /\ e.key = c.key /\ e.state \in ToSet(sts)
    <3>1. PICK i \in 1 .. Len(sts) : e = r[i]
      BY <2>5, ToSetFacts
    <3>2. e = StateChange(c.user, c.key, sts[i])
      BY <2>2, <3>1
    <3> QED BY <2>3, <3>1, <3>2 DEF StateChange
  <2>7. q = [toServer EXCEPT ![c.sock] = @ \o r]
    BY <1>2, <2>2 DEF Announce
  <2>8. toServer[c.sock] \o r \in Seq(ToServerPackets)
    BY <1>0, <2>1, <2>5, ConcatFacts
  <2>9. q \in [Sockets -> Seq(ToServerPackets)]
    BY <1>0, <2>7, <2>8
  <2>10. \A t \in Sockets :
           IF t = c.sock THEN q[t] = toServer[t] \o r
           ELSE q[t] = toServer[t]
    BY <1>0, <2>1, <2>7
  <2> QED BY <2>1, <2>5, <2>6, <2>9, <2>10 DEF Announced
<1> QED BY <1>1, <1>2
\* What a step leaves of a program that it replaces.
LEMMA ClientReplaced ==
  ASSUME Types, NEW p \in Places, NEW c \in Programs, client' = [client EXCEPT ![p] = c]
  PROVE  client' \in [Places -> Programs] /\ Only(p) /\ client'[p] = c
<1>1. client \in [Places -> Programs]
  BY DEF Types
<1> QED BY <1>1 DEF Only

LEMMA RequestsLoginEffect ==
  ASSUME IMSessionAssumption, Types, Connections, Clients, NEW p \in Places,
         NEW c \in Programs, RequestsLogin(p, c),
         c.user \in Users, c.sock = client[p].sock, c.key = client[p].key,
         c.verified = client[p].verified, c.state = client[p].state,
         c.before = client[p].before, c.page \in {client[p].page, "verifying"},
         UNCHANGED <<toClient, server, loggedOn, returned>>
  PROVE  Talks(p) \/ \E s \in Sockets : Connects(p, s)
<1>0. /\ toServer \in [Sockets -> Seq(ToServerPackets)] /\ loggedOn \in [Sockets -> Nat]
      /\ link \in [Sockets -> {"unused", "up", "down"}]
  BY DEF Types
<1>01. Client(p) /\ Shown(p)
  BY DEF Clients
<1>02. PICK e : e = RequestLogin(c.user)
  OBVIOUS
<1>03. e \in ToServerPackets /\ e.type = "request"
  BY <1>02 DEF RequestLogin, ToServerPackets
<1>1. CASE c.sock = NoSocket /\ client' = [client EXCEPT ![p] = [c EXCEPT !.page = "normal"]]
           /\ UNCHANGED <<link, toServer>>
  <2>1. PICK d : d = [c EXCEPT !.page = "normal"]
    OBVIOUS
  <2>2. /\ d \in Programs /\ d.user = c.user /\ d.sock = c.sock /\ d.key = c.key
        /\ d.verified = c.verified
    BY <2>1 DEF Programs
  <2>3. client' \in [Places -> Programs] /\ Only(p) /\ client'[p] = d
    BY <1>1, <2>1, <2>2, ClientReplaced
  <2>4. Client(p)' /\ Shown(p)'
    BY <1>01, <1>1, <2>2, <2>3 DEF Client, Shown
  <2> QED BY <1>0, <1>1, <2>2, <2>3, <2>4 DEF Talks, Says, GoesOn
<1>2. ASSUME NEW s, client' = [client EXCEPT ![p] =
                      [c EXCEPT !.sock = s, !.key = PasswordKey(c.user), !.timer = TRUE]],
             s \in OfPlace(p)
      PROVE  /\ client' \in [Places -> Programs] /\ Only(p)
             /\ client'[p].sock = s /\ client'[p].user = c.user
             /\ client'[p].key = PasswordKey(c.user)
             /\ client'[p].verified = client[p].verified
             /\ client'[p].page = c.page
             /\ client'[p].state = client[p].state /\ client'[p].before = client[p].before
             /\ Client(p)'
  <2>1. PICK d : d = [c EXCEPT !.sock = s, !.key = PasswordKey(c.user), !.timer = TRUE]
    OBVIOUS
  <2>2. s \in Sockets /\ PasswordKey(c.user) \in ClientKeys
    BY <1>2 DEF OfPlace, ClientKeys
  <2>3. /\ d \in Programs /\ d.user = c.user /\ d.sock = s /\ d.key = PasswordKey(c.user)
        /\ d.verified = c.verified /\ d.page = c.page /\ d.state = c.state
        /\ d.before = c.before
    BY <2>1, <2>2 DEF Programs
  <2>4. client' \in [Places -> Programs] /\ Only(p) /\ client'[p] = d
    BY <1>2, <2>1, <2>3, ClientReplaced
  <2>5. s # NoSocket
    BY <2>2 DEF IMSessionAssumption
  <2>6. Client(p)'
    BY <1>2, <2>3, <2>4, <2>5 DEF Client
  <2> QED BY <2>3, <2>4, <2>6
<1>3. CASE /\ c.sock # NoSocket /\ UNCHANGED link
           /\ client' = [client EXCEPT ![p] =
                [c EXCEPT !.sock = c.sock, !.key = PasswordKey(c.user), !.timer = TRUE]]
           /\ toServer' = Send(toServer, Up \cup Unused(p), c.sock, e)
  <2>1. c.sock \in OfPlace(p) /\ c.sock \in Sockets /\ c.sock[1] = p
    BY <1>01, <1>3 DEF Client, OfPlace
  <2>2. /\ client' \in [Places -> Programs] /\ Only(p)
        /\ client'[p].sock = c.sock /\ client'[p].user = c.user
        /\ client'[p].key = PasswordKey(c.user)
        /\ client'[p].verified = client[p].verified
        /\ client'[p].page = c.page
        /\ client'[p].state = client[p].state /\ client'[p].before = client[p].before
        /\ Client(p)'
    BY <1>2, <1>3, <2>1
  <2>3. Shown(p)'
    BY <1>01, <2>2 DEF Shown
  <2>4. link[c.sock] # "unused"
    BY <2>1 DEF Connections, Connection, Open
  <2>5. Says(p)
    <3>1. CASE link[c.sock] = "up"
      <4>1. toServer' = [toServer EXCEPT ![c.sock] = Append(@, e)]
        BY <1>3, <2>1, <3>1 DEF Send, Up
      <4>2. <<e>> \in Seq(ToServerPackets) /\ toServer[c.sock] \o <<e>> = Append(toServer[c.sock], e)
        BY <1>0, <1>03, <2>1
      <4>3. ToSet(<<e>>) = {e}
        BY DEF ToSet
      <4>4. Sayable(<<e>>, p, c.sock)
        BY <1>03, <4>3 DEF Sayable
      <4>5. /\ toServer' \in [Sockets -> Seq(ToServerPackets)]
            /\ toServer'[c.sock] = toServer[c.sock] \o <<e>>
            /\ \A t \in Sockets : t # c.sock => toServer'[t] = toServer[t]
        <5>1. Append(toServer[c.sock], e) \in Seq(ToServerPackets)
          BY <1>0, <1>03, <2>1
        <5> QED BY <1>0, <2>1, <4>1, <4>2, <5>1
      <4>6. \E r \in Seq(ToServerPackets) :
              toServer'[c.sock] = toServer[c.sock] \o r /\ Sayable(r, p, c.sock)
        BY <4>2, <4>4, <4>5
      <4>7. ASSUME NEW t \in Sockets, t = client[p].sock
            PROVE  /\ link[t] = "up"
                   /\ \E r \in Seq(ToServerPackets) : toServer'[t] = toServer[t] \o r /\ Sayable(r, p, t)
        BY <3>1, <4>6, <4>7, Zenon
      <4> QED BY <4>5, <4>7 DEF Says
    <3>2. CASE link[c.sock] # "up"
      <4>1. toServer' = toServer
        BY <1>3, <2>4, <3>2 DEF Send, Up, Unused
      <4> QED BY <1>0, <4>1 DEF Says
    <3> QED BY <3>1, <3>2
  <2>6. Asks(p)
    BY <2>2 DEF Asks, Reads
  <2>7. client[p].sock # NoSocket
    BY <1>3
  <2> QED BY <1>3, <2>2, <2>3, <2>5, <2>6, <2>7 DEF Talks
<1>4. ASSUME NEW s \in Unused(p), c.sock = NoSocket,
             client' = [client EXCEPT ![p] =
                [c EXCEPT !.sock = s, !.key = PasswordKey(c.user), !.timer = TRUE]],
             toServer' = Send(toServer, Up \cup Unused(p), s, e),
             link' = [link EXCEPT ![s] = "up"]
      PROVE  Connects(p, s)
  <2>1. s \in OfPlace(p) /\ s \in Sockets /\ link[s] = "unused"
    BY <1>4 DEF Unused, OfPlace
  <2>2. /\ client' \in [Places -> Programs] /\ Only(p)
        /\ client'[p].sock = s /\ client'[p].user = c.user
        /\ client'[p].key = PasswordKey(c.user)
        /\ client'[p].verified = client[p].verified
        /\ Client(p)'
    BY <1>2, <1>4, <2>1
  <2>3. ~client'[p].verified
    BY <1>01, <1>4, <2>2 DEF Client
  <2>4. toServer' = [toServer EXCEPT ![s] = Append(@, e)]
    BY <1>4 DEF Send
  <2> QED BY <1>03, <1>4, <2>1, <2>2, <2>3, <2>4 DEF Connects
<1>5. \A s \in Unused(p) : s \in Sockets
  BY DEF Unused, OfPlace
<1>6. \/ /\ c.sock # NoSocket /\ UNCHANGED link
         /\ client' = [client EXCEPT ![p] =
              [c EXCEPT !.sock = c.sock, !.key = PasswordKey(c.user), !.timer = TRUE]]
         /\ toServer' = Send(toServer, Up \cup Unused(p), c.sock, e)
      \/ \E s \in Unused(p) :
           /\ c.sock = NoSocket
           /\ client' = [client EXCEPT ![p] =
                [c EXCEPT !.sock = s, !.key = PasswordKey(c.user), !.timer = TRUE]]
           /\ toServer' = Send(toServer, Up \cup Unused(p), s, e)
           /\ link' = [link EXCEPT ![s] = "up"]
      \/ /\ c.sock = NoSocket /\ client' = [client EXCEPT ![p] = [c EXCEPT !.page = "normal"]]
         /\ UNCHANGED <<link, toServer>>
  BY <1>02 DEF RequestsLogin
<1> QED BY <1>1, <1>3, <1>4, <1>5, <1>6
\* The ends of a queue.
LEMMA EndsLastTail ==
  ASSUME NEW S, NEW q \in Seq(S), EndsLast(q), q # <<>>
  PROVE  /\ EndsLast(Tail(q))
         /\ Head(q).type \in Ends => \A e \in ToSet(Tail(q)) : e.type = "disconnected"
         /\ Head(q).type = "disconnected" => Tail(q) = <<>>
<1>1. /\ Len(q) \in Nat \ {0} /\ Len(Tail(q)) = Len(q) - 1 /\ Head(q) = q[1] /\ Tail(q) \in Seq(S)
      /\ \A i \in 1 .. Len(Tail(q)) : i + 1 \in 1 .. Len(q) /\ Tail(q)[i] = q[i + 1]
  BY TailFacts
<1>2. EndsLast(Tail(q))
  BY <1>1 DEF EndsLast
<1>3. ASSUME Head(q).type = "disconnected" PROVE Tail(q) = <<>>
  <2>1. ASSUME Len(q) # 1 PROVE FALSE
    <3>1. 1 \in 1 .. Len(q) /\ 2 \in 1 .. Len(q) /\ 1 < 2
      BY <1>1, <2>1
    <3> QED BY <1>1, <1>3, <3>1 DEF EndsLast
  <2> QED BY <1>1, <2>1
<1>4. ASSUME Head(q).type = "kicked", NEW e \in ToSet(Tail(q)) PROVE e.type = "disconnected"
  <2>1. PICK i \in 1 .. Len(Tail(q)) : Tail(q)[i] = e
    BY <1>1, ToSetFacts
  <2>2. 1 \in 1 .. Len(q) /\ i + 1 \in 1 .. Len(q) /\ 1 < i + 1 /\ q[i + 1] = e
    BY <1>1, <2>1
  <2> QED BY <1>1, <1>4, <2>2 DEF EndsLast
<1>5. ASSUME Head(q).type = "disconnected", NEW e \in ToSet(Tail(q)) PROVE FALSE
  BY <1>1, <1>3, <1>5, ToSetOf
<1> QED BY <1>2, <1>3, <1>4, <1>5 DEF Ends

LEMMA EndsLastPrefix ==
  ASSUME NEW S, NEW q \in Seq(S), EndsLast(q), NEW p \in Prefixes(q)
  PROVE  EndsLast(p)
BY PrefixFacts DEF EndsLast

LEMMA EndsLastConcat ==
  ASSUME NEW S, NEW q \in Seq(S), ~Ended(q), NEW r \in Seq(S), EndsLast(r)
  PROVE  EndsLast(q \o r)
<1>1. PICK c : c = q \o r
  OBVIOUS
<1>2. /\ Len(q) \in Nat /\ Len(r) \in Nat /\ Len(c) = Len(q) + Len(r)
      /\ \A i \in 1 .. Len(c) : \/ i \in 1 .. Len(q) /\ c[i] = q[i]
                                \/ i - Len(q) \in 1 .. Len(r) /\ c[i] = r[i - Len(q)]
  BY <1>1, ConcatFacts
<1>3. ASSUME NEW i \in 1 .. Len(c), NEW j \in 1 .. Len(c), i < j
      PROVE  c[i].type # "disconnected" /\ (c[i].type = "kicked" => c[j].type = "disconnected")
  <2>1. CASE i \in 1 .. Len(q) /\ c[i] = q[i]
    <3>1. c[i] \in ToSet(q)
      BY <2>1, ToSetFacts
    <3> QED BY <3>1 DEF Ended, Ends
  <2>2. CASE i - Len(q) \in 1 .. Len(r) /\ c[i] = r[i - Len(q)]
    <3>1. j - Len(q) \in 1 .. Len(r) /\ c[j] = r[j - Len(q)] /\ i - Len(q) < j - Len(q)
      BY <1>2, <1>3, <2>2
    <3> QED BY <2>2, <3>1 DEF EndsLast
  <2> QED BY <1>2, <2>1, <2>2
<1> QED BY <1>1, <1>3 DEF EndsLast

LEMMA EndsLastAppend ==
  ASSUME NEW S, NEW q \in Seq(S), ~Ended(q), NEW e \in S
  PROVE  EndsLast(Append(q, e))
<1>1. <<e>> \in Seq(S) /\ Append(q, e) = q \o <<e>> /\ EndsLast(<<e>>)
  BY DEF EndsLast
<1> QED BY <1>1, EndsLastConcat

LEMMA EndedFacts ==
  ASSUME NEW S, NEW q \in Seq(S)
  PROVE  /\ \A r \in Seq(S) : Ended(q \o r) <=> Ended(q) \/ Ended(r)
         /\ \A e \in S : Ended(Append(q, e)) <=> Ended(q) \/ e.type \in Ends
         /\ \A p \in Prefixes(q) : Ended(p) => Ended(q)
         /\ q # <<>> => (Ended(q) <=> Ended(Tail(q)) \/ Head(q).type \in Ends)
         /\ q = <<>> => ~Ended(q)
BY ToSetConcat, ToSetAppend, ToSetPrefix, ToSetTail, ToSetOf DEF Ended

-----------------------------------------------------------------------------
(* A client's steps are of a kind, continued                               *)

\* The client that handles an event of s, which is not its loss, has not closed s.
LEMMA HandlesOpen ==
  ASSUME Types, Connections, NEW s \in Sockets, toClient[s] # <<>>,
         Head(toClient[s]).type # "disconnected"
  PROVE  /\ client[s[1]].sock = s /\ s[1] \in Places /\ s \in OfPlace(s[1])
         /\ Head(toClient[s]) \in ToClientPackets
<1>1. toClient[s] \in Seq(ToClientPackets)
  BY DEF Types
<1>2. Head(toClient[s]) \in ToSet(toClient[s]) /\ Head(toClient[s]) \in ToClientPackets
  BY <1>1, ToSetOf
<1>3. Open(s)
  BY <1>2 DEF Connections, Connection
<1> QED BY <1>2, <1>3, PlaceOf DEF Open

LEMMA GoesOfflineEffect ==
  ASSUME IMSessionAssumption, Types, Connections, NEW s \in Sockets, NEW c \in Programs,
         client[s[1]].sock = s, c.sock = s, c.user \in Users, c.key = client[s[1]].key,
         toClient[s] # <<>>, Head(toClient[s]).type \in Ends,
         GoesOffline(s[1], c, [toClient EXCEPT ![s] = Tail(@)]),
         UNCHANGED <<server, loggedOn, returned>>
  PROVE  Leaves(s[1])
<1>0. /\ toServer \in [Sockets -> Seq(ToServerPackets)]
      /\ toClient \in [Sockets -> Seq(ToClientPackets)]
      /\ link \in [Sockets -> {"unused", "up", "down"}]
  BY DEF Types
<1>1. s # NoSocket /\ s[1] \in Places
  BY PlaceOf DEF IMSessionAssumption
<1>2. PICK d : d = [c EXCEPT !.state = "offline", !.sock = NoSocket, !.verified = FALSE]
  OBVIOUS
<1>3. d \in Programs /\ d.sock = NoSocket /\ d.user \in Users /\ d.key = c.key /\ ~d.verified
  BY <1>2 DEF Programs, States
<1>4. client' \in [Places -> Programs] /\ Only(s[1]) /\ client'[s[1]] = d
  <2>1. client' = [client EXCEPT ![s[1]] = d]
    BY <1>2 DEF GoesOffline
  <2> QED BY <1>1, <1>3, <2>1, ClientReplaced
<1>5. Client(s[1])'
  BY <1>3, <1>4 DEF Client
<1>6. PICK rest : rest = Tail(toClient[s])
  OBVIOUS
<1>7. /\ rest \in Seq(ToClientPackets) /\ EndsLast(rest)
      /\ \A e \in ToSet(rest) : e.type = "disconnected"
  <2>1. toClient[s] \in Seq(ToClientPackets) /\ EndsLast(toClient[s])
    BY <1>0 DEF Connections, Connection
  <2> QED BY <1>6, <2>1, TailFacts, EndsLastTail
<1>8. PICK q \in Prefixes(rest) : toClient' = [toClient EXCEPT ![s] = q]
  <2>1. [toClient EXCEPT ![s] = Tail(@)] = [toClient EXCEPT ![s] = rest]
    BY <1>6
  <2>2. PICK q \in Prefixes(rest) : toClient' = [[toClient EXCEPT ![s] = rest] EXCEPT ![s] = q]
    BY <1>0, <1>1, <2>1 DEF GoesOffline
  <2> QED BY <1>0, <2>2
<1>9. q \in Seq(ToClientPackets) /\ EndsLast(q) /\ \A e \in ToSet(q) : e.type = "disconnected"
  BY <1>7, PrefixFacts, EndsLastPrefix, ToSetPrefix
<1>10. /\ toClient' \in [Sockets -> Seq(ToClientPackets)] /\ toClient'[s] = q
       /\ \A t \in Sockets : t # s => toClient'[t] = toClient[t]
  BY <1>0, <1>8, <1>9
<1>11. /\ link' \in [Sockets -> {"unused", "up", "down"}] /\ link'[s] = "down"
       /\ \A t \in Sockets : t # s => link'[t] = link[t]
  BY <1>0, <1>1 DEF GoesOffline
<1>12. toServer' = Send(toServer, Up, s, Disconnected)
  BY <1>1 DEF GoesOffline
<1>13. Disconnected \in ToServerPackets
  BY DEF Disconnected, ToServerPackets
<1>14. /\ toServer' \in [Sockets -> Seq(ToServerPackets)]
       /\ \A t \in Sockets : t # s => toServer'[t] = toServer[t]
       /\ \/ link[s] # "up" /\ toServer'[s] = toServer[s]
          \/ /\ link[s] = "up"
             /\ \E r \in Seq(ToServerPackets) :
                  /\ toServer'[s] = Append(toServer[s] \o r, Disconnected)
                  /\ \A e \in ToSet(r) : e.type = "state" /\ e.key = client[s[1]].key
  <2>1. CASE link[s] # "up"
    <3>1. toServer' = toServer
      BY <1>12, <2>1 DEF Send, Up
    <3> QED BY <1>0, <2>1, <3>1
  <2>2. CASE link[s] = "up"
    <3>1. toServer' = [toServer EXCEPT ![s] = Append(@, Disconnected)]
      BY <1>12, <2>2 DEF Send, Up
    <3>2. /\ <<>> \in Seq(ToServerPackets) /\ toServer[s] \o <<>> = toServer[s]
          /\ ToSet(<<>>) = {}
      BY <1>0 DEF ToSet
    <3>3. /\ toServer'[s] = Append(toServer[s] \o <<>>, Disconnected)
          /\ toServer' \in [Sockets -> Seq(ToServerPackets)]
          /\ \A t \in Sockets : t # s => toServer'[t] = toServer[t]
      BY <1>0, <1>13, <3>1, <3>2
    <3> QED BY <2>2, <3>2, <3>3
  <2> QED BY <2>1, <2>2
<1>15. \A t \in Sockets : t # client[s[1]].sock =>
         /\ link'[t] = link[t] /\ toServer'[t] = toServer[t]
         /\ toClient'[t] = toClient[t]
  BY <1>10, <1>11, <1>14
<1>16. \A t \in Sockets : t = client[s[1]].sock =>
         /\ link'[t] = "down"
         /\ EndsLast(toClient'[t]) /\ \A e \in ToSet(toClient'[t]) : e.type = "disconnected"
         /\ \/ link[t] # "up" /\ toServer'[t] = toServer[t]
            \/ /\ link[t] = "up"
               /\ \E r \in Seq(ToServerPackets) :
                    /\ toServer'[t] = Append(toServer[t] \o r, Disconnected)
                    /\ \A e \in ToSet(r) : e.type = "state" /\ e.key = client[s[1]].key
  <2>1. TAKE t \in Sockets
  <2>2. HAVE t = client[s[1]].sock
  <2>3. t = s
    BY <2>2
  <2> QED BY <1>9, <1>10, <1>11, <1>14, <2>3
<1>17. /\ client'[s[1]].sock = NoSocket /\ client'[s[1]].key \in {client[s[1]].key, NoKey}
       /\ UNCHANGED <<server, loggedOn, returned>>
  BY <1>3, <1>4
<1> QED BY <1>4, <1>5, <1>10, <1>11, <1>14, <1>15, <1>16, <1>17 DEF Leaves
LEMMA AnnouncedSays ==
  ASSUME Types, NEW p \in Places, NEW c \in Programs, NEW sts \in Seq(States),
         toServer' = Announce(c, sts), c.sock = client[p].sock, client'[p].key = c.key,
         c.sock \in Sockets => c.user \in Users,
         \A st \in ToSet(sts) :
           st = "offline" => ~client'[p].verified \/ loggedOn[c.sock] # 1
  PROVE  Says(p)
<1>1. PICK q : q = toServer'
  OBVIOUS
<1>2. Announced(q, c, sts)
  BY <1>1, AnnounceEffect
<1>3. ASSUME NEW t \in Sockets, toServer'[t] # toServer[t]
      PROVE  /\ t = client[p].sock /\ link[t] = "up"
             /\ \E r \in Seq(ToServerPackets) : toServer'[t] = toServer[t] \o r /\ Sayable(r, p, t)
  <2>1. t = c.sock /\ link[t] = "up"
    BY <1>1, <1>2, <1>3 DEF Announced
  <2>2. PICK r \in Seq(ToServerPackets) :
          /\ q[t] = toServer[t] \o r
          /\ \A e \in ToSet(r) : e.type = "state" /\ e.key = c.key /\ e.state \in ToSet(sts)
    BY <1>1, <1>2, <1>3 DEF Announced
  <2>3. Sayable(r, p, c.sock)
    BY <2>2 DEF Sayable
  <2>4. Sayable(r, p, t)
    BY <2>1, <2>3, Zenon
  <2> QED BY <1>1, <2>1, <2>2, <2>4
<1>4. toServer' \in [Sockets -> Seq(ToServerPackets)]
  BY <1>1, <1>2 DEF Announced
<1> QED BY <1>3, <1>4 DEF Says

LEMMA UserVerifiedEffect ==
  ASSUME IMSessionAssumption, Types, NEW p \in Places, NEW c \in Programs, UserVerified(p, c),
         c.sock = client[p].sock, c.sock # NoSocket => c.sock \in OfPlace(p) /\ c.user \in Users,
         c.sock # NoSocket => (c.key[1] = "password" => c.key = PasswordKey(c.user)),
         c.sock = NoSocket => c.page # "verifying" /\ ~c.verified,
         c.dialog => c.user \in Users,
         c.verified /\ loggedOn[c.sock] = 1 /\ c.page # "verifying" => c.before # "offline",
         UNCHANGED loggedOn
  PROVE  /\ client' \in [Places -> Programs] /\ Only(p)
         /\ client'[p].sock = c.sock /\ client'[p].user = c.user /\ client'[p].key = c.key
         /\ c.page # "verifying" => client'[p].verified = c.verified
         /\ Client(p)' /\ Shown(p)' /\ Says(p)
<1>0. toServer \in [Sockets -> Seq(ToServerPackets)]
  BY DEF Types
<1>1. CASE c.page = "verifying"
  <2>1. PICK d : d = [c EXCEPT !.main = TRUE, !.page = "normal", !.verified = TRUE, !.state = c.after]
    OBVIOUS
  <2>2. /\ d \in Programs /\ d.sock = c.sock /\ d.user = c.user /\ d.key = c.key
        /\ d.state = c.after /\ d.page = "normal" /\ d.dialog = c.dialog
    BY <2>1 DEF Programs, States
  <2>3. [[c EXCEPT !.main = TRUE, !.page = "normal"] EXCEPT !.verified = TRUE, !.state = c.after] = d
    BY <2>1 DEF Programs
  <2>4. client' = [client EXCEPT ![p] = d] /\ UNCHANGED toServer
    BY <1>1, <2>3 DEF UserVerified
  <2>5. client' \in [Places -> Programs] /\ Only(p) /\ client'[p] = d
    BY <2>2, <2>4, ClientReplaced
  <2>6. Client(p)'
    BY <1>1, <2>2, <2>5 DEF Client
  <2>7. d.state # "offline"
    BY <2>2 DEF Programs
  <2>8. Shown(p)' /\ Says(p)
    BY <1>0, <2>2, <2>4, <2>5, <2>7 DEF Shown, Says
  <2> QED BY <1>1, <2>2, <2>5, <2>6, <2>8
<1>2. CASE c.page # "verifying"
  <2>1. PICK d : d = [c EXCEPT !.main = TRUE, !.page = "normal", !.state = c.before, !.restored = c.page]
    OBVIOUS
  <2>2. /\ d \in Programs /\ d.sock = c.sock /\ d.user = c.user /\ d.key = c.key
        /\ d.state = c.before /\ d.page = "normal" /\ d.dialog = c.dialog
        /\ d.verified = c.verified
    BY <2>1 DEF Programs
  <2>3. [[c EXCEPT !.main = TRUE, !.page = "normal"] EXCEPT !.state = c.before, !.restored = c.page] = d
    BY <2>1 DEF Programs
  <2>4. PICK sts : sts = IF c.before = "invisible" THEN <<>> ELSE <<c.before>>
    OBVIOUS
  <2>5. client' = [client EXCEPT ![p] = d] /\ toServer' = Announce(c, sts)
    BY <1>2, <2>3, <2>4 DEF UserVerified
  <2>6. client' \in [Places -> Programs] /\ Only(p) /\ client'[p] = d
    BY <2>2, <2>5, ClientReplaced
  <2>7. Client(p)'
    BY <1>2, <2>2, <2>6 DEF Client
  <2>8. Shown(p)'
    BY <1>2, <2>2, <2>6 DEF Shown
  <2>9. sts \in Seq(States) /\ \A st \in ToSet(sts) : st = c.before
    <3>1. c.before \in States
      BY DEF Programs
    <3> QED BY <2>4, <3>1 DEF ToSet
  <2>10. c.sock \in Sockets => c.user \in Users
    BY DEF IMSessionAssumption
  <2>11. \A st \in ToSet(sts) :
           st = "offline" => ~client'[p].verified \/ loggedOn[c.sock] # 1
    BY <1>2, <2>2, <2>6, <2>9
  <2>12. client'[p].key = c.key
    BY <2>2, <2>6
  <2>13. Says(p)
    BY <2>5, <2>9, <2>10, <2>11, <2>12, AnnouncedSays
  <2> QED BY <2>2, <2>6, <2>7, <2>8, <2>13
<1> QED BY <1>1, <1>2
LEMMA TimeoutTalks ==
  ASSUME IMSessionAssumption, Types, Clients, NEW p \in Places, LoginTimeout(p) \/ CloseDialog(p)
  PROVE  Talks(p)
<1>0. client[p] \in Programs /\ toServer \in [Sockets -> Seq(ToServerPackets)]
  BY DEF Types
<1>1. UNCHANGED <<link, toServer, toClient, server, loggedOn, returned>>
  BY DEF LoginTimeout, CloseDialog
<1>2. PICK d \in Programs :
        /\ client' = [client EXCEPT ![p] = d]
        /\ d.sock = client[p].sock /\ d.user = client[p].user /\ d.key = client[p].key
        /\ d.verified = client[p].verified /\ d.state = client[p].state
        /\ d.before = client[p].before /\ d.page \in {client[p].page, "normal"}
        /\ d.dialog => client[p].dialog
  <2>1. CASE LoginTimeout(p)
    <3>1. PICK d : d = [client[p] EXCEPT !.timer = FALSE,
                                         !.page = IF client[p].verified THEN @ ELSE "normal"]
      OBVIOUS
    <3>2. client' = [client EXCEPT ![p] = d]
      BY <2>1, <3>1 DEF LoginTimeout, Types
    <3>3. d \in Programs
      BY <1>0, <3>1 DEF Programs
    <3> QED BY <1>0, <3>1, <3>2, <3>3 DEF Programs
  <2>2. CASE CloseDialog(p)
    <3>1. PICK d : d = [client[p] EXCEPT !.dialog = FALSE]
      OBVIOUS
    <3>2. client' = [client EXCEPT ![p] = d]
      BY <2>2, <3>1 DEF CloseDialog, Types
    <3>3. d \in Programs
      BY <1>0, <3>1 DEF Programs
    <3> QED BY <1>0, <3>1, <3>2, <3>3 DEF Programs
  <2> QED BY <2>1, <2>2
<1>3. client' \in [Places -> Programs] /\ Only(p) /\ client'[p] = d
  BY <1>2, ClientReplaced
<1>4. Client(p)' /\ Shown(p)'
  BY <1>1, <1>2, <1>3 DEF Clients, Client, Shown
<1>5. Says(p) /\ GoesOn(p)
  BY <1>0, <1>1, <1>2, <1>3 DEF Says, GoesOn, Reads
<1> QED BY <1>1, <1>2, <1>3, <1>4, <1>5 DEF Talks

LEMMA SignInConnects ==
  ASSUME IMSessionAssumption, Types, Connections, Clients, NEW p \in Places,
         ClickLogin(p) \/ AutoLogin(p) \/ SignInAgain(p)
  PROVE  Talks(p) \/ \E s \in Sockets : Connects(p, s)
<1>0. client[p] \in Programs /\ UsersAt[p] \subseteq Users
  BY DEF Types, IMSessionAssumption
<1>1. UNCHANGED <<toClient, server, loggedOn, returned>>
  BY DEF ClickLogin, AutoLogin, SignInAgain
<1>2. \E c \in Programs :
        /\ RequestsLogin(p, c)
        /\ c.user \in Users /\ c.sock = client[p].sock /\ c.key = client[p].key
        /\ c.verified = client[p].verified /\ c.state = client[p].state
        /\ c.before = client[p].before /\ c.page \in {client[p].page, "verifying"}
  <2>1. CASE ClickLogin(p)
    <3>5. PICK u \in UsersAt[p], right \in Passwords : \E st \in LoginStates[u] :
            RequestsLogin(p, [client[p] EXCEPT !.user = u, !.after = st, !.right = right,
                                               !.page = "verifying"])
      BY <2>1 DEF ClickLogin
    <3>1. PICK st \in LoginStates[u] :
            RequestsLogin(p, [client[p] EXCEPT !.user = u, !.after = st, !.right = right,
                                               !.page = "verifying"])
      BY <3>5
    <3>2. u \in Users /\ right \in BOOLEAN /\ st \in {"online", "invisible"}
      BY <1>0 DEF IMSessionAssumption
    <3>3. PICK c : c = [client[p] EXCEPT !.user = u, !.after = st, !.right = right,
                                         !.page = "verifying"]
      OBVIOUS
    <3>4. c \in Programs
      BY <1>0, <3>2, <3>3 DEF Programs
    <3> QED BY <1>0, <3>1, <3>2, <3>3, <3>4 DEF Programs
  <2>2. CASE AutoLogin(p)
    <3>1. PICK u \in UsersAt[p] : RequestsLogin(p, [client[p] EXCEPT !.user = u])
      BY <2>2 DEF AutoLogin
    <3>2. PICK c : c = [client[p] EXCEPT !.user = u]
      OBVIOUS
    <3>3. c \in Programs /\ u \in Users
      BY <1>0, <3>2 DEF Programs
    <3> QED BY <1>0, <3>1, <3>2, <3>3 DEF Programs
  <2>3. CASE SignInAgain(p)
    <3>1. RequestsLogin(p, [client[p] EXCEPT !.dialog = FALSE]) /\ client[p].user \in Users
      BY <2>3 DEF SignInAgain, Clients, Client
    <3>2. PICK c : c = [client[p] EXCEPT !.dialog = FALSE]
      OBVIOUS
    <3>3. c \in Programs
      BY <1>0, <3>2 DEF Programs
    <3> QED BY <1>0, <3>1, <3>2, <3>3 DEF Programs
  <2> QED BY <2>1, <2>2, <2>3
<1> QED BY <1>1, <1>2, RequestsLoginEffect

LEMMA LetInTalks ==
  ASSUME IMSessionAssumption, Types, Connections, Clients, NEW s \in Sockets, LetIn(s[1], s)
  PROVE  Talks(s[1])
<1> DEFINE p == s[1]
<1>0. /\ toServer \in [Sockets -> Seq(ToServerPackets)] /\ client \in [Places -> Programs]
      /\ UNCHANGED <<link, server, loggedOn, returned>>
  BY DEF Types, LetIn
<1>1. toClient[s] # <<>> /\ Head(toClient[s]).type = "can"
      /\ toClient' = [toClient EXCEPT ![s] = Tail(@)]
  BY DEF LetIn
<1>2. client[p].sock = s /\ p \in Places /\ s \in OfPlace(p)
  BY <1>1, HandlesOpen
<1>3. client[p] \in Programs /\ s # NoSocket /\ client[p].user \in Users /\ Client(p) /\ Shown(p)
  BY <1>0, <1>2 DEF Clients, Client, IMSessionAssumption
<1>4. PasswordKey(client[p].user) \in ClientKeys
  BY <1>3 DEF ClientKeys
<1>5. PICK d \in Programs :
        /\ client' = [client EXCEPT ![p] = d]
        /\ d.sock = s /\ d.user = client[p].user /\ d.key = PasswordKey(client[p].user)
        /\ d.verified = client[p].verified /\ d.state = client[p].state
        /\ d.before = client[p].before /\ d.page \in {client[p].page, "normal"}
        /\ d.dialog = client[p].dialog
  <2>1. CASE s \in Up
    <3>1. PICK d : d = [client[p] EXCEPT !.key = PasswordKey(client[p].user)]
      OBVIOUS
    <3>2. client' = [client EXCEPT ![p] = d]
      BY <1>0, <2>1, <3>1 DEF LetIn
    <3>3. d \in Programs
      BY <1>3, <1>4, <3>1 DEF Programs
    <3> QED BY <1>2, <1>3, <3>1, <3>2, <3>3 DEF Programs
  <2>2. CASE s \notin Up
    <3>1. PICK d : d = [client[p] EXCEPT !.key = PasswordKey(client[p].user),
                                         !.timer = FALSE, !.page = "normal"]
      OBVIOUS
    <3>2. client' = [client EXCEPT ![p] = d]
      BY <1>0, <1>2, <2>2, <3>1 DEF LetIn
    <3>3. d \in Programs
      BY <1>3, <1>4, <3>1 DEF Programs
    <3> QED BY <1>2, <1>3, <3>1, <3>2, <3>3 DEF Programs
  <2> QED BY <2>1, <2>2
<1>6. client' \in [Places -> Programs] /\ Only(p) /\ client'[p] = d
  BY <1>2, <1>5, ClientReplaced
<1>7. Client(p)' /\ Shown(p)'
  BY <1>0, <1>2, <1>3, <1>5, <1>6 DEF Client, Shown
<1>8. Asks(p)
  BY <1>1, <1>2, <1>5, <1>6 DEF Asks, Reads, Takes
<1>9. Says(p)
  <2>1. CASE s \in Up
    <3>1. PICK e : e = LoginInfo(client[p])
      OBVIOUS
    <3>2. e \in ToServerPackets /\ e.type = "login"
      BY <1>3, <3>1 DEF LoginInfo, ToServerPackets, Programs
    <3>3. toServer' = [toServer EXCEPT ![s] = Append(@, e)]
      BY <2>1, <3>1 DEF LetIn, Send
    <3>4. /\ toServer[s] \in Seq(ToServerPackets) /\ <<e>> \in Seq(ToServerPackets)
          /\ toServer[s] \o <<e>> = Append(toServer[s], e)
          /\ Append(toServer[s], e) \in Seq(ToServerPackets)
      BY <1>0, <3>2
    <3>5. ToSet(<<e>>) = {e}
      BY DEF ToSet
    <3>6. Sayable(<<e>>, p, s)
      BY <3>2, <3>5 DEF Sayable
    <3>7. /\ toServer' \in [Sockets -> Seq(ToServerPackets)]
          /\ toServer'[s] = toServer[s] \o <<e>>
          /\ \A t \in Sockets : t # s => toServer'[t] = toServer[t]
      BY <1>0, <3>3, <3>4
    <3>8. link[s] = "up"
      BY <2>1 DEF Up
    <3>9. \E r \in Seq(ToServerPackets) : toServer'[s] = toServer[s] \o r /\ Sayable(r, p, s)
      BY <3>4, <3>6, <3>7
    <3>10. ASSUME NEW t \in Sockets, toServer'[t] # toServer[t]
           PROVE  /\ t = client[p].sock /\ link[t] = "up"
                  /\ \E r \in Seq(ToServerPackets) :
                       toServer'[t] = toServer[t] \o r /\ Sayable(r, p, t)
      <4>1. t = s
        BY <3>7, <3>10
      <4> QED BY <1>2, <3>8, <3>9, <4>1, Zenon
    <3> QED BY <3>7, <3>10 DEF Says
  <2>2. CASE s \notin Up
    BY <1>0, <2>2 DEF LetIn, Says
  <2> QED BY <2>1, <2>2
<1>10. p \in Places /\ client'[p].sock = client[p].sock /\ client[p].sock # NoSocket
  BY <1>2, <1>3, <1>5, <1>6
<1> HIDE DEF p
<1>11. Talks(p)
  BY <1>0, <1>6, <1>7, <1>8, <1>9, <1>10 DEF Talks
<1> QED BY <1>11 DEF p

LEMMA LoginSucceededTalks ==
  ASSUME IMSessionAssumption, Types, Connections, Clients, NEW s \in Sockets, Replies(s),
         LoginSucceeded(s[1], s)
  PROVE  Talks(s[1])
<1>1. PICK p : p = s[1]
  OBVIOUS
<1>2. PICK e : e = Head(toClient[s])
  OBVIOUS
<1>3. /\ toClient[s] # <<>> /\ e.type = "succeeded"
      /\ toClient' = [toClient EXCEPT ![s] = Tail(@)]
      /\ UNCHANGED <<link, server, loggedOn, returned>>
  BY <1>2 DEF LoginSucceeded
<1>4. client[p].sock = s /\ p \in Places /\ s \in OfPlace(p) /\ e \in ToClientPackets
  BY <1>1, <1>2, <1>3, HandlesOpen
<1>5. client[p] \in Programs /\ s # NoSocket /\ client[p].user \in Users /\ Client(p)
  BY <1>4 DEF Types, Clients, Client, IMSessionAssumption
<1>6. e.user \in Users /\ e.key \in SessionKeys
  BY <1>3, <1>4, ToClientKinds
<1>7. PICK k : k = IF client[p].key = PasswordKey(e.user) THEN e.key ELSE NoKey
  OBVIOUS
<1>8. k \in ClientKeys /\ k[1] # "password" /\ (k \in SessionKeys => k = e.key)
  BY <1>6, <1>7, KeyKinds DEF ClientKeys
<1>9. PICK c : c = [client[p] EXCEPT !.timer = FALSE, !.key = k]
  OBVIOUS
<1>10. /\ c \in Programs /\ c.sock = s /\ c.user = client[p].user /\ c.key = k
       /\ c.verified = client[p].verified /\ c.before = client[p].before
       /\ c.dialog = client[p].dialog
  BY <1>4, <1>5, <1>8, <1>9 DEF Programs
<1>11. UserVerified(p, c)
  BY <1>1, <1>2, <1>7, <1>9 DEF LoginSucceeded
<1>12. loggedOn[s] = 1 => ~client[p].verified
  <2>1. toClient[s] \in Seq(ToClientPackets)
    BY DEF Types
  <2>2. e \in ToSet(toClient[s])
    BY <1>2, <1>3, <2>1, ToSetOf
  <2> QED BY <1>1, <1>3, <1>4, <2>2 DEF Replies, NotYet, Open
<1>13. /\ client' \in [Places -> Programs] /\ Only(p)
       /\ client'[p].sock = c.sock /\ client'[p].user = c.user /\ client'[p].key = c.key
       /\ Client(p)' /\ Shown(p)' /\ Says(p)
  <2>1. c.dialog => c.user \in Users
    BY <1>5, <1>10
  <2>2. c.sock # NoSocket => c.sock \in OfPlace(p) /\ c.user \in Users
    BY <1>4, <1>5, <1>10
  <2> QED BY <1>3, <1>4, <1>5, <1>8, <1>10, <1>11, <1>12, <2>1, <2>2, UserVerifiedEffect
<1>14. IsAnswered(p)
  BY <1>2, <1>3, <1>4, <1>7, <1>10, <1>13 DEF IsAnswered, Takes
<1>15. Talks(p)
  BY <1>3, <1>4, <1>5, <1>10, <1>13, <1>14 DEF Talks
<1> QED BY <1>1, <1>15
LEMMA LoginFailedTalks ==
  ASSUME IMSessionAssumption, Types, Connections, Clients, NEW s \in Sockets, LoginFailed(s[1], s)
  PROVE  Talks(s[1])
<1>1. PICK p : p = s[1]
  OBVIOUS
<1>2. /\ toClient[s] # <<>> /\ Head(toClient[s]).type = "failed"
      /\ toClient' = [toClient EXCEPT ![s] = Tail(@)]
      /\ UNCHANGED <<link, toServer, server, loggedOn, returned>>
  BY DEF LoginFailed
<1>3. client[p].sock = s /\ p \in Places
  BY <1>1, <1>2, HandlesOpen
<1>4. /\ client[p] \in Programs /\ s # NoSocket /\ Client(p) /\ Shown(p)
      /\ toServer \in [Sockets -> Seq(ToServerPackets)]
  BY <1>3 DEF Types, Clients, IMSessionAssumption
<1>5. PICK d : d = [client[p] EXCEPT !.timer = FALSE, !.page = "normal"]
  OBVIOUS
<1>6. /\ d \in Programs /\ d.sock = s /\ d.user = client[p].user /\ d.key = client[p].key
      /\ d.verified = client[p].verified /\ d.state = client[p].state
      /\ d.before = client[p].before /\ d.page = "normal" /\ d.dialog = client[p].dialog
  BY <1>3, <1>4, <1>5 DEF Programs
<1>7. client' = [client EXCEPT ![p] = d]
  BY <1>1, <1>3, <1>5 DEF LoginFailed, Types
<1>8. client' \in [Places -> Programs] /\ Only(p) /\ client'[p] = d
  BY <1>3, <1>6, <1>7, ClientReplaced
<1>9. Client(p)' /\ Shown(p)'
  BY <1>2, <1>3, <1>4, <1>6, <1>8 DEF Client, Shown
<1>10. GoesOn(p) /\ Says(p)
  BY <1>2, <1>3, <1>4, <1>6, <1>8 DEF GoesOn, Reads, Takes, Says
<1>11. Talks(p)
  BY <1>2, <1>3, <1>4, <1>6, <1>8, <1>9, <1>10 DEF Talks
<1> QED BY <1>1, <1>11

LEMMA LockTalks ==
  ASSUME IMSessionAssumption, Types, Clients, NEW p \in Places, Lock(p)
  PROVE  Talks(p)
<1>1. PICK c : c = client[p]
  OBVIOUS
<1>2. c \in Programs /\ Client(p) /\ Shown(p)
  BY <1>1 DEF Types, Clients
<1>3. UNCHANGED <<link, toClient, server, loggedOn, returned>>
  BY DEF Lock
<1>4. PICK away \in BOOLEAN : away = (c.state \notin {"invisible", "away"})
  OBVIOUS
<1>5. PICK d : d = [c EXCEPT !.page = "locked", !.main = FALSE, !.before = c.state,
                             !.state = IF away THEN "away" ELSE @]
  OBVIOUS
<1>6. /\ d \in Programs /\ d.sock = c.sock /\ d.user = c.user /\ d.key = c.key
      /\ d.verified = c.verified /\ d.before = c.state /\ d.dialog = c.dialog
      /\ d.state \in {"away", c.state}
  BY <1>2, <1>5 DEF Programs, States
<1>7. client' = [client EXCEPT ![p] = d]
  BY <1>1, <1>4, <1>5 DEF Lock, Types
<1>8. client' \in [Places -> Programs] /\ Only(p) /\ client'[p] = d
  BY <1>6, <1>7, ClientReplaced
<1>9. Client(p)' /\ Shown(p)'
  BY <1>1, <1>2, <1>3, <1>6, <1>8 DEF Client, Shown
<1>10. PICK sts : sts = IF away THEN <<"away">> ELSE <<>>
  OBVIOUS
<1>11. toServer' = Announce(c, sts)
  BY <1>1, <1>4, <1>10 DEF Lock
<1>12. sts \in Seq(States) /\ \A st \in ToSet(sts) : st # "offline"
  <2>1. CASE away
    BY <1>10, <2>1 DEF States, ToSet
  <2>2. CASE ~away
    BY <1>10, <2>2 DEF ToSet
  <2> QED BY <2>1, <2>2
<1>13. c.sock \in Sockets => c.user \in Users
  BY <1>1, <1>2 DEF Client, IMSessionAssumption
<1>14. Says(p)
  BY <1>1, <1>2, <1>6, <1>8, <1>11, <1>12, <1>13, AnnouncedSays
<1>15. GoesOn(p)
  BY <1>1, <1>3, <1>6, <1>8 DEF GoesOn, Reads
<1> QED BY <1>1, <1>3, <1>6, <1>8, <1>9, <1>14, <1>15 DEF Talks

LEMMA UnlockTalks ==
  ASSUME IMSessionAssumption, Types, Clients, NEW p \in Places, Unlock(p)
  PROVE  Talks(p)
<1>1. PICK c : c = client[p]
  OBVIOUS
<1>2. c \in Programs /\ Client(p) /\ Shown(p)
  BY <1>1 DEF Types, Clients
<1>3. UNCHANGED <<link, toClient, server, loggedOn, returned>> /\ c.page = "locked"
  BY <1>1 DEF Unlock
<1>4. UserVerified(p, c)
  BY <1>1 DEF Unlock
<1>5. /\ client' \in [Places -> Programs] /\ Only(p)
      /\ client'[p].sock = c.sock /\ client'[p].user = c.user /\ client'[p].key = c.key
      /\ client'[p].verified = c.verified
      /\ Client(p)' /\ Shown(p)' /\ Says(p)
  <2>1. /\ c.sock # NoSocket => c.sock \in OfPlace(p) /\ c.user \in Users
        /\ c.sock # NoSocket => (c.key[1] = "password" => c.key = PasswordKey(c.user))
        /\ c.sock = NoSocket => ~c.verified
        /\ c.dialog => c.user \in Users
        /\ c.verified /\ loggedOn[c.sock] = 1 => c.before # "offline"
    BY <1>1, <1>2, <1>3 DEF Client, Shown
  <2> QED BY <1>1, <1>2, <1>3, <1>4, <2>1, UserVerifiedEffect
<1>6. GoesOn(p)
  BY <1>1, <1>3, <1>5 DEF GoesOn, Reads
<1> QED BY <1>1, <1>3, <1>5, <1>6 DEF Talks

LEMMA LossLeaves ==
  ASSUME IMSessionAssumption, Types, Connections, Clients, NEW s \in Sockets,
         KickedOff(s[1], s) \/ ServerLost(s[1], s)
  PROVE  Leaves(s[1]) \/ Ignores(s)
<1>1. PICK p : p = s[1]
  OBVIOUS
<1>2. p \in Places /\ s # NoSocket /\ UNCHANGED <<server, loggedOn, returned>>
  BY <1>1, PlaceOf DEF IMSessionAssumption, KickedOff, ServerLost
<1>3. client[p] \in Programs /\ Client(p)
  BY <1>2 DEF Types, Clients
<1>4. CASE KickedOff(s[1], s)
  <2>1. toClient[s] # <<>> /\ Head(toClient[s]).type = "kicked"
    BY <1>4 DEF KickedOff
  <2>2. client[p].sock = s
    BY <1>1, <2>1, HandlesOpen
  <2>3. PICK c : c = [client[p] EXCEPT !.timer = FALSE, !.dialog = TRUE]
    OBVIOUS
  <2>4. c \in Programs /\ c.sock = s /\ c.user \in Users /\ c.key = client[p].key
    BY <1>2, <1>3, <2>2, <2>3 DEF Programs, Client
  <2>5. GoesOffline(s[1], c, [toClient EXCEPT ![s] = Tail(@)])
    BY <1>1, <1>4, <2>3 DEF KickedOff
  <2> QED BY <1>1, <1>2, <2>1, <2>2, <2>4, <2>5, GoesOfflineEffect DEF Ends
<1>5. CASE ServerLost(s[1], s)
  <2>1. toClient[s] # <<>> /\ Head(toClient[s]).type = "disconnected"
    BY <1>5 DEF ServerLost
  <2>2. CASE client[p].sock = s
    <3>1. GoesOffline(s[1], client[p], [toClient EXCEPT ![s] = Tail(@)])
      BY <1>1, <1>5, <2>2 DEF ServerLost
    <3>2. client[p].user \in Users
      BY <1>2, <1>3, <2>2 DEF Client
    <3> QED BY <1>1, <1>2, <1>3, <2>1, <2>2, <3>1, <3>2, GoesOfflineEffect DEF Ends
  <2>3. CASE client[p].sock # s
    BY <1>1, <1>2, <1>5, <2>1, <2>3 DEF ServerLost, Ignores, Open, Takes
  <2> QED BY <2>2, <2>3
<1> QED BY <1>4, <1>5
\* What a program that ends leaves.
LEMMA QuitLeaves ==
  ASSUME IMSessionAssumption, Types, Connections, Clients, NEW p \in Places, Quit(p)
  PROVE  Leaves(p)
<1>0. /\ toServer \in [Sockets -> Seq(ToServerPackets)]
      /\ toClient \in [Sockets -> Seq(ToClientPackets)]
      /\ link \in [Sockets -> {"unused", "up", "down"}] /\ client[p] \in Programs /\ Client(p)
  BY DEF Types, Clients
<1>1. PICK c : c = client[p]
  OBVIOUS
<1>2. c \in Programs /\ (c.sock \in Sockets => c.sock \in OfPlace(p) /\ c.user \in Users)
  BY <1>0, <1>1 DEF Client, IMSessionAssumption
<1>3. PICK last : last = IF c.state \in {"offline", "invisible"} THEN <<"offline">>
                         ELSE <<"offline", "offline">>
  OBVIOUS
<1>4. last \in Seq(States)
  <2>1. CASE c.state \in {"offline", "invisible"}
    BY <1>3, <2>1 DEF States
  <2>2. CASE c.state \notin {"offline", "invisible"}
    BY <1>3, <2>2 DEF States
  <2> QED BY <2>1, <2>2
<1>5. /\ client' = [client EXCEPT ![p] = Program]
      /\ toClient' = [t \in Sockets |-> IF t[1] = p THEN <<>> ELSE toClient[t]]
      /\ IF c.sock \in Up
         THEN /\ toServer' = [Announce(c, last) EXCEPT ![c.sock] = Append(@, Disconnected)]
              /\ link' = [link EXCEPT ![c.sock] = "down"]
         ELSE UNCHANGED <<toServer, link>>
      /\ UNCHANGED <<server, loggedOn, returned>>
  BY <1>1, <1>3 DEF Quit
<1>6. PICK d : d = Program
  OBVIOUS
<1>7. d \in Programs /\ d.sock = NoSocket /\ d.key = NoKey /\ ~d.verified /\ ~d.dialog
  BY <1>6 DEF Program, Programs, States, ClientKeys
<1>8. client' \in [Places -> Programs] /\ Only(p) /\ client'[p] = d
  BY <1>5, <1>6, <1>7, ClientReplaced
<1>9. Client(p)'
  BY <1>7, <1>8 DEF Client
<1>10. toClient' \in [Sockets -> Seq(ToClientPackets)]
       /\ \A t \in Sockets : toClient'[t] = IF t[1] = p THEN <<>> ELSE toClient[t]
  BY <1>0, <1>5
<1>11. PICK q : q = Announce(c, last)
  OBVIOUS
<1>12. Announced(q, c, last)
  BY <1>2, <1>4, <1>11, AnnounceEffect
<1>13. Disconnected \in ToServerPackets
  BY DEF Disconnected, ToServerPackets
<1>14. CASE c.sock \in Up
  <2>1. c.sock \in Sockets /\ link[c.sock] = "up" /\ c.sock[1] = p
    BY <1>2, <1>14 DEF Up, OfPlace
  <2>2. q \in [Sockets -> Seq(ToServerPackets)] /\ toServer' = [q EXCEPT ![c.sock] = Append(@, Disconnected)]
    BY <1>5, <1>11, <1>12, <1>14 DEF Announced
  <2>3. PICK r \in Seq(ToServerPackets) :
          /\ q[c.sock] = toServer[c.sock] \o r
          /\ \A e \in ToSet(r) : e.type = "state" /\ e.key = c.key
    <3>1. CASE q[c.sock] = toServer[c.sock]
      <4>1. <<>> \in Seq(ToServerPackets) /\ toServer[c.sock] \o <<>> = toServer[c.sock]
            /\ ToSet(<<>>) = {}
        BY <1>0, <2>1 DEF ToSet
      <4> QED BY <3>1, <4>1
    <3>2. CASE q[c.sock] # toServer[c.sock]
      BY <1>12, <2>1, <3>2 DEF Announced
    <3> QED BY <3>1, <3>2
  <2>4. Append(q[c.sock], Disconnected) \in Seq(ToServerPackets)
    BY <1>13, <2>1, <2>2
  <2>5. /\ toServer' \in [Sockets -> Seq(ToServerPackets)]
        /\ toServer'[c.sock] = Append(toServer[c.sock] \o r, Disconnected)
        /\ \A t \in Sockets : t # c.sock => toServer'[t] = q[t]
    BY <2>1, <2>2, <2>3, <2>4
  <2>6. \A t \in Sockets : t # c.sock => toServer'[t] = toServer[t]
    BY <1>12, <2>5 DEF Announced
  <2>7. /\ link' \in [Sockets -> {"unused", "up", "down"}] /\ link'[c.sock] = "down"
        /\ \A t \in Sockets : t # c.sock => link'[t] = link[t]
    <3>1. link' = [link EXCEPT ![c.sock] = "down"]
      BY <1>5, <1>14
    <3> QED BY <1>0, <2>1, <3>1
  <2>8. toClient'[c.sock] = <<>> /\ EndsLast(<<>>) /\ ToSet(<<>>) = {}
    BY <1>10, <2>1 DEF EndsLast, ToSet
  <2>9. \A t \in Sockets : t # client[p].sock =>
          /\ link'[t] = link[t] /\ toServer'[t] = toServer[t]
          /\ toClient'[t] = toClient[t] \/ (t[1] = p /\ toClient'[t] = <<>>)
    BY <1>1, <1>10, <2>6, <2>7
  <2>10. /\ link'[c.sock] = "down"
         /\ EndsLast(toClient'[c.sock]) /\ \A e \in ToSet(toClient'[c.sock]) : e.type = "disconnected"
         /\ link[c.sock] = "up"
         /\ \E rr \in Seq(ToServerPackets) :
              /\ toServer'[c.sock] = Append(toServer[c.sock] \o rr, Disconnected)
              /\ \A e \in ToSet(rr) : e.type = "state" /\ e.key = c.key
    BY <2>1, <2>3, <2>5, <2>7, <2>8
  <2>11. \A s \in Sockets : s = client[p].sock =>
       /\ link'[s] = "down"
       /\ EndsLast(toClient'[s]) /\ \A e \in ToSet(toClient'[s]) : e.type = "disconnected"
       /\ \/ link[s] # "up" /\ toServer'[s] = toServer[s]
          \/ /\ link[s] = "up"
             /\ \E rr \in Seq(ToServerPackets) :
                  /\ toServer'[s] = Append(toServer[s] \o rr, Disconnected)
                  /\ \A e \in ToSet(rr) : e.type = "state" /\ e.key = client[p].key
    BY <1>1, <2>10
  <2> QED BY <1>5, <1>7, <1>8, <1>9, <1>10, <2>5, <2>7, <2>9, <2>11 DEF Leaves
<1>15. CASE c.sock \notin Up
  <2>1. UNCHANGED <<toServer, link>>
    BY <1>5, <1>15
  <2>2. \A s \in Sockets : s = client[p].sock => s[1] = p /\ link[s] # "up" /\ link[s] # "unused"
    BY <1>1, <1>2, <1>15 DEF Up, OfPlace, Connections, Connection, Open
  <2>3. \A s \in Sockets : s = client[p].sock => toClient'[s] = <<>> /\ link'[s] = "down"
    BY <1>0, <1>10, <2>1, <2>2
  <2>4. EndsLast(<<>>) /\ ToSet(<<>>) = {}
    BY DEF EndsLast, ToSet
  <2>5. \A t \in Sockets : t # client[p].sock =>
          /\ link'[t] = link[t] /\ toServer'[t] = toServer[t]
          /\ toClient'[t] = toClient[t] \/ (t[1] = p /\ toClient'[t] = <<>>)
    BY <1>10, <2>1
  <2>6. \A s \in Sockets : s = client[p].sock =>
          /\ link'[s] = "down"
          /\ EndsLast(toClient'[s]) /\ \A e \in ToSet(toClient'[s]) : e.type = "disconnected"
          /\ link[s] # "up" /\ toServer'[s] = toServer[s]
    BY <2>1, <2>2, <2>3, <2>4
  <2> QED BY <1>0, <1>5, <1>7, <1>8, <1>9, <1>10, <2>1, <2>5, <2>6 DEF Leaves
<1> QED BY <1>14, <1>15
-----------------------------------------------------------------------------
(* The server's steps are of a kind                                        *)

\* The state w of the server is sv, but that u is st and the contacts are told.
Turned(w, sv, up, u, st) ==
  /\ w \in ServerStates
  /\ w.state = [sv.state EXCEPT ![u] = st]
  /\ w.sock = sv.sock /\ w.key = sv.key /\ w.logins = sv.logins
  /\ \A t \in Sockets :
       w.watched[t] = IF st = "offline" /\ t = sv.sock[u] THEN NoUser ELSE sv.watched[t]
  /\ \A t \in Sockets : \A v \in Users \ {u} : w.told[t][v] = sv.told[t][v]
  /\ \A t \in Sockets :
       w.told[t][u] = IF /\ t \in up
                         /\ \E c \in Contacts[u] : sv.state[c] # "offline" /\ sv.sock[c] = t
                      THEN st ELSE sv.told[t][u]

LEMMA StatusChangedEffect ==
  ASSUME IMSessionAssumption, NEW sv \in ServerStates, NEW up, NEW u \in Users, NEW st \in States,
         NEW w, w = StatusChanged(sv, up, u, st)
  PROVE  Turned(w, sv, up, u, st)
<1>0. /\ sv.state \in [Users -> States] /\ sv.sock \in [Users -> Sockets \cup {NoSocket}]
      /\ sv.watched \in [Sockets -> Users \cup {NoUser}]
      /\ sv.told \in [Sockets -> [Users -> States]] /\ Contacts[u] \subseteq Users
  BY DEF ServerStates, IMSessionAssumption
<1>1. PICK told : told = { sv.sock[c] : c \in { v \in Contacts[u] : sv.state[v] # "offline" } }
  OBVIOUS
<1>2. \A t : t \in told <=> \E c \in Contacts[u] : sv.state[c] # "offline" /\ sv.sock[c] = t
  BY <1>1
<1>3. PICK watched : watched = [t \in Sockets |->
            IF st = "offline" /\ t = sv.sock[u] THEN NoUser ELSE sv.watched[t]]
  OBVIOUS
<1>4. PICK tells : tells = [t \in Sockets |->
            IF t \in told \cap up THEN [sv.told[t] EXCEPT ![u] = st] ELSE sv.told[t]]
  OBVIOUS
<1>5. w = [sv EXCEPT !.state[u] = st, !.watched = watched, !.told = tells]
  BY <1>1, <1>3, <1>4 DEF StatusChanged
<1>6. PICK state : state = [sv.state EXCEPT ![u] = st]
  OBVIOUS
<1>7. state \in [Users -> States]
  BY <1>0, <1>6
<1>8. watched \in [Sockets -> Users \cup {NoUser}]
  BY <1>0, <1>3
<1>9. \A t \in Sockets : [sv.told[t] EXCEPT ![u] = st] \in [Users -> States]
  BY <1>0
<1>10. tells \in [Sockets -> [Users -> States]]
  BY <1>0, <1>4, <1>9
<1>11. w = [sv EXCEPT !.state = state, !.watched = watched, !.told = tells]
  BY <1>5, <1>6
<1>12. w \in ServerStates
  BY <1>7, <1>8, <1>10, <1>11 DEF ServerStates
<1>13. /\ w.state = state /\ w.watched = watched /\ w.told = tells
       /\ w.sock = sv.sock /\ w.key = sv.key /\ w.logins = sv.logins
  BY <1>11 DEF ServerStates
<1>14. ASSUME NEW t \in Sockets
       PROVE  /\ \A v \in Users \ {u} : tells[t][v] = sv.told[t][v]
              /\ tells[t][u] = IF t \in told \cap up THEN st ELSE sv.told[t][u]
  BY <1>0, <1>4
<1> QED BY <1>2, <1>3, <1>6, <1>12, <1>13, <1>14 DEF Turned

LEMMA AnswersLogin ==
  ASSUME IMSessionAssumption, Types, NEW s \in Sockets, HandleRequest(s) \/ HandleWrongPassword(s)
  PROVE  Answers(s)
<1>1. Handles(s, {"request", "login"}) /\ UNCHANGED <<link, server, client, loggedOn, returned>>
  BY DEF HandleRequest, HandleWrongPassword, Handles
<1>2. PICK e \in {[type |-> "can"], [type |-> "failed"]} : toClient' = Send(toClient, Up, s, e)
  BY DEF HandleRequest, HandleWrongPassword
<1>3. e \in ToClientPackets /\ e.type \in {"can", "failed"}
  BY <1>2 DEF ToClientPackets
<1>4. CASE s \in Up
  <2>1. link[s] = "up" /\ toClient' = [toClient EXCEPT ![s] = Append(@, e)]
    BY <1>2, <1>4 DEF Up, Send
  <2> QED BY <1>1, <1>3, <2>1 DEF Answers
<1>5. CASE s \notin Up
  BY <1>1, <1>2, <1>5 DEF Send, Answers
<1> QED BY <1>4, <1>5

\* The event that the server handles next.
LEMMA HandlesPacket ==
  ASSUME Types, NEW s \in Sockets, toServer[s] # <<>>
  PROVE  Head(toServer[s]) \in ToServerPackets /\ Head(toServer[s]) \in ToSet(toServer[s])
<1>1. toServer[s] \in Seq(ToServerPackets)
  BY DEF Types
<1> QED BY <1>1, ToSetOf

LEMMA StateChanges ==
  ASSUME IMSessionAssumption, Types, NEW s \in Sockets, HandleState(s)
  PROVE  Drops(s) \/ \E u \in Users, st \in States : Changes(s, u, st)
<1>1. /\ Handles(s, {"state"}) /\ toServer[s] # <<>>
      /\ UNCHANGED <<link, toClient, client, loggedOn>>
  BY DEF HandleState, Handles
<1>2. PICK e : e = Head(toServer[s])
  OBVIOUS
<1>3. e.user \in Users /\ e.state \in States
  BY <1>1, <1>2, HandlesPacket, ToServerKinds DEF Handles
<1>4. IF e.key = server.key[e.user]
      THEN /\ server' = StatusChanged(server, Up, e.user, e.state)
           /\ returned' = IF server.state[e.user] = "offline" /\ e.state # "offline"
                          THEN returned \cup {e.user} ELSE returned
      ELSE UNCHANGED <<server, returned>>
  BY <1>2 DEF HandleState
<1>5. CASE e.key = server.key[e.user]
  BY <1>1, <1>2, <1>3, <1>4, <1>5 DEF Changes
<1>6. CASE e.key # server.key[e.user]
  BY <1>1, <1>4, <1>6 DEF Drops
<1> QED BY <1>5, <1>6

LEMMA LossChanges ==
  ASSUME IMSessionAssumption, Types, NEW s \in Sockets, HandleDisconnected(s)
  PROVE  Drops(s) \/ \E u \in Users, st \in States : Changes(s, u, st)
<1>1. /\ Handles(s, {"disconnected"}) /\ UNCHANGED <<link, toClient, client, loggedOn, returned>>
      /\ server' = IF server.watched[s] = NoUser THEN server
                   ELSE StatusChanged(server, Up, server.watched[s], "offline")
  BY DEF HandleDisconnected, Handles
<1>2. server.watched[s] \in Users \cup {NoUser}
  BY DEF Types, ServerStates
<1>3. CASE server.watched[s] = NoUser
  BY <1>1, <1>3 DEF Drops
<1>4. CASE server.watched[s] # NoUser
  BY <1>1, <1>2, <1>4 DEF Changes, States
<1> QED BY <1>3, <1>4

Watches(sv, s, u) == [sv EXCEPT !.watched[s] = u]

LEMMA WatchesEffect ==
  ASSUME NEW sv \in ServerStates, NEW u \in Users, NEW s \in Sockets,
         NEW w, w = Watches(sv, s, u)
  PROVE  /\ w \in ServerStates /\ w.state = sv.state /\ w.sock = sv.sock /\ w.key = sv.key
         /\ w.logins = sv.logins /\ w.told = sv.told
         /\ \A t \in Sockets : w.watched[t] = IF t = s THEN u ELSE sv.watched[t]
<1>1. PICK watched : watched = [sv.watched EXCEPT ![s] = u]
  OBVIOUS
<1>2. watched \in [Sockets -> Users \cup {NoUser}]
      /\ \A t \in Sockets : watched[t] = IF t = s THEN u ELSE sv.watched[t]
  BY <1>1 DEF ServerStates
<1>3. w = [sv EXCEPT !.watched = watched]
  BY <1>1 DEF ServerStates, Watches
<1> QED BY <1>2, <1>3 DEF ServerStates

\* A login of u over s, when no session of u is left.
Entered(w, sv, up, u, s, st) ==
  /\ w \in ServerStates
  /\ w.state = [sv.state EXCEPT ![u] = st]
  /\ w.sock = [sv.sock EXCEPT ![u] = s]
  /\ w.key = [sv.key EXCEPT ![u] = SessionKey(sv.logins + 1)]
  /\ w.logins = sv.logins + 1
  /\ \A t \in Sockets : w.watched[t] = IF t = s THEN u ELSE sv.watched[t]
  /\ \A t \in Sockets \ {s} : \A v \in Users \ {u} : w.told[t][v] = sv.told[t][v]
  /\ \A t \in Sockets \ {s} : \A c \in Contacts[u] :
       t \in up /\ sv.state[c] # "offline" /\ sv.sock[c] = t => w.told[t][u] = st
  /\ s \in up => \A v \in Contacts[u] :
       w.told[s][v] = IF sv.state[v] \in {"offline", "invisible"} THEN "offline"
                      ELSE sv.state[v]

LEMMA LoggedInEffect ==
  ASSUME IMSessionAssumption, NEW sv \in ServerStates, NEW up, NEW u \in Users, NEW s \in Sockets,
         NEW st \in {"online", "invisible"}, NEW w, w = LoggedIn(sv, up, u, s, st)
  PROVE  Entered(w, sv, up, u, s, st)
<1>0. /\ sv.state \in [Users -> States] /\ sv.sock \in [Users -> Sockets \cup {NoSocket}]
      /\ sv.key \in [Users -> {FirstKey} \cup SessionKeys] /\ sv.logins \in Nat
      /\ sv.watched \in [Sockets -> Users \cup {NoUser}]
      /\ sv.told \in [Sockets -> [Users -> States]] /\ Contacts[u] \subseteq Users
      /\ u \notin Contacts[u] /\ st \in States /\ st # "offline"
  BY DEF ServerStates, IMSessionAssumption, States
<1>1. PICK entered : entered = [sv EXCEPT !.state[u] = st,
                                          !.key[u] = SessionKey(sv.logins + 1),
                                          !.logins = @ + 1,
                                          !.sock[u] = s]
  OBVIOUS
<1>2. PICK state, key, sock : /\ state = [sv.state EXCEPT ![u] = st]
                              /\ key = [sv.key EXCEPT ![u] = SessionKey(sv.logins + 1)]
                              /\ sock = [sv.sock EXCEPT ![u] = s]
  OBVIOUS
<1>3. /\ state \in [Users -> States] /\ key \in [Users -> {FirstKey} \cup SessionKeys]
      /\ sock \in [Users -> Sockets \cup {NoSocket}] /\ sv.logins + 1 \in Nat
      /\ \A v \in Users \ {u} : state[v] = sv.state[v] /\ sock[v] = sv.sock[v]
  <2>1. SessionKey(sv.logins + 1) \in SessionKeys
    BY <1>0, KeyKinds
  <2> QED BY <1>0, <1>2, <2>1
<1>4. entered = [sv EXCEPT !.state = state, !.key = key, !.logins = sv.logins + 1, !.sock = sock]
  BY <1>1, <1>2 DEF ServerStates
<1>5. /\ entered \in ServerStates /\ entered.state = state /\ entered.key = key
      /\ entered.sock = sock /\ entered.logins = sv.logins + 1
      /\ entered.watched = sv.watched /\ entered.told = sv.told
  BY <1>3, <1>4 DEF ServerStates
<1>6. PICK listed : listed = [entered EXCEPT !.told[s] = IF s \in up THEN OnlineContacts(sv, u) ELSE @]
  OBVIOUS
<1>7. PICK told : told = [sv.told EXCEPT ![s] = IF s \in up THEN OnlineContacts(sv, u) ELSE @]
  OBVIOUS
<1>8. listed = [entered EXCEPT !.told = told]
  BY <1>5, <1>6, <1>7 DEF ServerStates
<1>9. OnlineContacts(sv, u) \in [Users -> States]
  BY <1>0 DEF OnlineContacts, States
<1>10. told \in [Sockets -> [Users -> States]]
  BY <1>0, <1>7, <1>9
<1>11. /\ \A t \in Sockets \ {s} : told[t] = sv.told[t]
       /\ s \in up => told[s] = OnlineContacts(sv, u)
  BY <1>0, <1>7
<1>12. /\ listed \in ServerStates /\ listed.state = state /\ listed.key = key
       /\ listed.sock = sock /\ listed.logins = sv.logins + 1
       /\ listed.watched = sv.watched /\ listed.told = told
  BY <1>5, <1>8, <1>10 DEF ServerStates
<1>13. PICK changed : changed = StatusChanged(listed, up, u, st)
  OBVIOUS
<1>14. /\ changed \in ServerStates
       /\ changed.state = [state EXCEPT ![u] = st]
       /\ changed.sock = sock /\ changed.key = key /\ changed.logins = sv.logins + 1
       /\ \A t \in Sockets : changed.watched[t] = sv.watched[t]
       /\ \A t \in Sockets : \A v \in Users \ {u} : changed.told[t][v] = told[t][v]
       /\ \A t \in Sockets :
            changed.told[t][u] = IF /\ t \in up
                                    /\ \E c \in Contacts[u] : state[c] # "offline" /\ sock[c] = t
                                 THEN st ELSE told[t][u]
  <2>1. Turned(changed, listed, up, u, st)
    BY <1>0, <1>12, <1>13, StatusChangedEffect
  <2> QED BY <1>0, <1>12, <2>1 DEF Turned
<1>15. w = Watches(changed, s, u)
  BY <1>1, <1>6, <1>13 DEF LoggedIn, Watches
<1>16. /\ w \in ServerStates /\ w.state = changed.state /\ w.sock = changed.sock
       /\ w.key = changed.key /\ w.logins = changed.logins /\ w.told = changed.told
       /\ \A t \in Sockets : w.watched[t] = IF t = s THEN u ELSE changed.watched[t]
  <2>1. changed \in ServerStates
    BY <1>14
  <2> QED BY <1>15, <2>1, WatchesEffect
<1>19. /\ w.sock = sock /\ w.key = key /\ w.logins = sv.logins + 1
       /\ w.state = changed.state /\ w.told = changed.told
  BY <1>14, <1>16
<1>20. w.state = [sv.state EXCEPT ![u] = st]
  <2>1. [state EXCEPT ![u] = st] = state
    BY <1>0, <1>2
  <2> QED BY <1>2, <1>14, <1>19, <2>1
<1>21. \A t \in Sockets \ {s} : \A v \in Users \ {u} : w.told[t][v] = sv.told[t][v]
  BY <1>11, <1>14, <1>19
<1>22. ASSUME NEW t \in Sockets \ {s}, NEW c \in Contacts[u],
              t \in up, sv.state[c] # "offline", sv.sock[c] = t
       PROVE  w.told[t][u] = st
  <2>1. c \in Users \ {u}
    BY <1>0
  <2>2. state[c] # "offline" /\ sock[c] = t
    BY <1>3, <1>22, <2>1
  <2> QED BY <1>14, <1>19, <1>22, <2>2
<1>23. ASSUME s \in up, NEW v \in Contacts[u]
       PROVE  w.told[s][v] = IF sv.state[v] \in {"offline", "invisible"} THEN "offline"
                             ELSE sv.state[v]
  <2>1. v \in Users \ {u}
    BY <1>0
  <2>2. w.told[s][v] = OnlineContacts(sv, u)[v]
    BY <1>11, <1>14, <1>19, <1>23, <2>1
  <2> QED BY <2>1, <2>2 DEF OnlineContacts
<1>24. \A t \in Sockets : w.watched[t] = IF t = s THEN u ELSE sv.watched[t]
  BY <1>14, <1>16
<1> QED BY <1>2, <1>16, <1>19, <1>20, <1>21, <1>22, <1>23, <1>24 DEF Entered
\* What logUserIn() leaves of the session that a user has elsewhere.
KickedSession(k, u) ==
  /\ k.sv \in ServerStates
  /\ \A v \in Users \ {u} : k.sv.state[v] = server.state[v]
  /\ k.sv.sock = server.sock /\ k.sv.key = server.key /\ k.sv.logins = server.logins
  /\ \A t \in Sockets :
       k.sv.watched[t] = IF KickedOut(u, t) THEN NoUser ELSE server.watched[t]
  /\ \A t \in Sockets : \A v \in Users \ {u} : k.sv.told[t][v] = server.told[t][v]
  /\ k.up \in SUBSET Sockets
  /\ \A t \in Sockets : t \in k.up <=> link[t] = "up" /\ ~KickedOut(u, t)
  /\ k.toClient \in [Sockets -> Seq(ToClientPackets)]
  /\ \A t \in Sockets :
       k.toClient[t] = IF KickedOut(u, t) /\ link[t] = "up"
                       THEN toClient[t] \o <<[type |-> "kicked"], Disconnected>>
                       ELSE toClient[t]

LEMMA KickedEffect ==
  ASSUME IMSessionAssumption, Types, NEW u \in Users, NEW k, k = Kicked(u)
  PROVE  KickedSession(k, u)
<1>0. /\ toClient \in [Sockets -> Seq(ToClientPackets)] /\ server \in ServerStates
      /\ "offline" \in States
  BY DEF Types, States
<1>1. CASE server.state[u] = "offline"
  <2>1. k = [sv |-> server, up |-> Up, toClient |-> toClient]
    BY <1>1 DEF Kicked
  <2>2. \A t : ~KickedOut(u, t)
    BY <1>1 DEF KickedOut
  <2> QED BY <1>0, <2>1, <2>2 DEF KickedSession, Up
<1>2. CASE server.state[u] # "offline"
  <2>1. PICK old : old = server.sock[u]
    OBVIOUS
  <2>2. PICK sv : sv = StatusChanged(server, Up \ {old}, u, "offline")
    OBVIOUS
  <2>3. PICK news : news = <<[type |-> "kicked"], Disconnected>>
    OBVIOUS
  <2>4. PICK rest : rest = IF old \in Up THEN [toClient EXCEPT ![old] = @ \o news] ELSE toClient
    OBVIOUS
  <2>5. k = [sv |-> sv, up |-> Up \ {old}, toClient |-> rest]
    BY <1>2, <2>1, <2>2, <2>3, <2>4 DEF Kicked
  <2>6. Turned(sv, server, Up \ {old}, u, "offline")
    BY <1>0, <2>2, StatusChangedEffect
  <2>7. \A t : KickedOut(u, t) <=> t = old
    BY <1>2, <2>1 DEF KickedOut
  <2>8. /\ sv \in ServerStates /\ \A v \in Users \ {u} : sv.state[v] = server.state[v]
        /\ sv.sock = server.sock /\ sv.key = server.key /\ sv.logins = server.logins
        /\ \A t \in Sockets :
             sv.watched[t] = IF KickedOut(u, t) THEN NoUser ELSE server.watched[t]
        /\ \A t \in Sockets : \A v \in Users \ {u} : sv.told[t][v] = server.told[t][v]
    BY <1>0, <2>1, <2>6, <2>7 DEF Turned, ServerStates
  <2>9. news \in Seq(ToClientPackets)
    BY <2>3 DEF ToClientPackets, Disconnected
  <2>10. /\ rest \in [Sockets -> Seq(ToClientPackets)]
         /\ \A t \in Sockets : rest[t] = IF t = old /\ link[t] = "up"
                                         THEN toClient[t] \o news ELSE toClient[t]
    <3>1. CASE old \in Up
      <4>1. old \in Sockets /\ link[old] = "up" /\ rest = [toClient EXCEPT ![old] = @ \o news]
        BY <2>4, <3>1 DEF Up
      <4>2. toClient[old] \o news \in Seq(ToClientPackets)
        BY <1>0, <2>9, <4>1, ConcatFacts
      <4> QED BY <1>0, <4>1, <4>2
    <3>2. CASE old \notin Up
      BY <1>0, <2>4, <3>2 DEF Up
    <3> QED BY <3>1, <3>2
  <2>11. \A t \in Sockets : t \in Up \ {old} <=> link[t] = "up" /\ ~KickedOut(u, t)
    BY <2>7 DEF Up
  <2>12. Up \ {old} \in SUBSET Sockets
    BY DEF Up
  <2>13. k.sv = sv /\ k.up = Up \ {old} /\ k.toClient = rest
    BY <2>5
  <2>14. \A t \in Sockets :
           rest[t] = IF KickedOut(u, t) /\ link[t] = "up"
                     THEN toClient[t] \o <<[type |-> "kicked"], Disconnected>>
                     ELSE toClient[t]
    BY <2>3, <2>7, <2>10
  <2> QED BY <2>8, <2>10, <2>11, <2>12, <2>13, <2>14 DEF KickedSession
<1> QED BY <1>1, <1>2

LEMMA LoginLogsIn ==
  ASSUME IMSessionAssumption, Types, Sessions, NEW s \in Sockets, HandleLogin(s)
  PROVE  \E u \in Users : LogsIn(s, u)
<1>0. /\ toServer \in [Sockets -> Seq(ToServerPackets)] /\ server \in ServerStates
      /\ link \in [Sockets -> {"unused", "up", "down"}]
      /\ server.sock \in [Users -> Sockets \cup {NoSocket}]
  BY DEF Types, ServerStates
<1>1. /\ toServer[s] # <<>> /\ Head(toServer[s]).type = "login"
      /\ loggedOn' = [loggedOn EXCEPT ![s] = @ + 1] /\ UNCHANGED client
  BY DEF HandleLogin
<1>2. PICK u, st : u = Head(toServer[s]).user /\ st = Head(toServer[s]).state
  OBVIOUS
<1>3. u \in Users /\ st \in {"online", "invisible"}
  BY <1>1, <1>2, HandlesPacket, ToServerKinds
<1>4. PICK k : k = Kicked(u)
  OBVIOUS
<1>5. PICK taken : taken = [toServer EXCEPT ![s] = Tail(@)]
  OBVIOUS
<1>6. PICK old : old = server.sock[u]
  OBVIOUS
<1>7. /\ server' = LoggedIn(k.sv, k.up, u, s, st)
      /\ toClient' = Send(k.toClient, k.up, s, Succeeded(u, server'.key[u]))
      /\ link' = [t \in Sockets |-> IF link[t] = "up" /\ t \notin k.up THEN "down" ELSE link[t]]
      /\ IF server.state[u] = "offline"
         THEN toServer' = taken
         ELSE \E q \in Prefixes(taken[old]) : toServer' = [taken EXCEPT ![old] = q]
      /\ returned' = returned \ {u}
  BY <1>2, <1>4, <1>5, <1>6 DEF HandleLogin
<1>8. KickedSession(k, u)
  BY <1>3, <1>4, KickedEffect
<1>9. Entered(server', k.sv, k.up, u, s, st)
  BY <1>3, <1>7, <1>8, LoggedInEffect DEF KickedSession
<1>10. /\ server' \in ServerStates
       /\ server'.state = [server.state EXCEPT ![u] = st]
       /\ server'.sock = [server.sock EXCEPT ![u] = s]
       /\ server'.key = [server.key EXCEPT ![u] = SessionKey(server.logins + 1)]
       /\ server'.logins = server.logins + 1
  <2>1. [k.sv.state EXCEPT ![u] = st] = [server.state EXCEPT ![u] = st]
    <3>1. k.sv.state \in [Users -> States] /\ server.state \in [Users -> States]
          /\ \A v \in Users \ {u} : k.sv.state[v] = server.state[v]
      BY <1>0, <1>8 DEF KickedSession, ServerStates
    <3> QED BY <1>3, <3>1
  <2> QED BY <1>8, <1>9, <2>1 DEF KickedSession, Entered
<1>11. \A t \in Sockets :
         server'.watched[t] = IF t = s THEN u ELSE IF KickedOut(u, t) THEN NoUser
                              ELSE server.watched[t]
  BY <1>8, <1>9 DEF KickedSession, Entered
<1>12. \A t, v : t \in Sockets \ {s} /\ v \in Users \ {u} => server'.told[t][v] = server.told[t][v]
  BY <1>8, <1>9 DEF KickedSession, Entered
<1>13. /\ link' \in [Sockets -> {"unused", "up", "down"}]
       /\ \A t \in Sockets :
            /\ link'[t] = IF KickedOut(u, t) /\ link[t] = "up" THEN "down" ELSE link[t]
            /\ link'[t] = "up" => t \in k.up
  BY <1>0, <1>7, <1>8 DEF KickedSession
<1>14. Contacts[u] \subseteq Users \ {u}
  BY <1>3 DEF IMSessionAssumption
<1>15. ASSUME NEW t \in Sockets \ {s}, NEW w \in Contacts[u],
              link'[t] = "up", server.state[w] # "offline", server.sock[w] = t
       PROVE  server'.told[t][u] = st
  <2>1. w \in Users \ {u} /\ k.sv.state[w] # "offline" /\ k.sv.sock[w] = t /\ t \in k.up
    BY <1>8, <1>13, <1>14, <1>15 DEF KickedSession
  <2> QED BY <1>9, <2>1 DEF Entered
<1>16. ASSUME link'[s] = "up", NEW v \in Contacts[u]
       PROVE  server'.told[s][v] = IF server.state[v] \in {"offline", "invisible"} THEN "offline"
                                   ELSE server.state[v]
  <2>1. v \in Users \ {u} /\ k.sv.state[v] = server.state[v] /\ s \in k.up
    BY <1>8, <1>13, <1>14, <1>16 DEF KickedSession
  <2> QED BY <1>9, <2>1 DEF Entered
<1>17. PICK reply : reply = Succeeded(u, SessionKey(server.logins + 1))
  OBVIOUS
<1>18. reply \in ToClientPackets /\ toClient' = Send(k.toClient, k.up, s, reply)
  <2>1. server'.key[u] = SessionKey(server.logins + 1)
    <3>1. server.key \in [Users -> {FirstKey} \cup SessionKeys]
      BY <1>0 DEF ServerStates
    <3> QED BY <1>3, <1>10, <3>1
  <2>2. SessionKey(server.logins + 1) \in SessionKeys
    <3>1. server.logins \in Nat
      BY <1>0 DEF ServerStates
    <3> QED BY <3>1, KeyKinds
  <2>3. reply \in ToClientPackets
    BY <1>3, <1>17, <2>2 DEF Succeeded, ToClientPackets
  <2> QED BY <1>7, <1>17, <2>1, <2>3
<1>19. /\ toClient' \in [Sockets -> Seq(ToClientPackets)]
       /\ \A t \in Sockets :
            toClient'[t] = IF KickedOut(u, t) /\ link[t] = "up"
                           THEN toClient[t] \o <<[type |-> "kicked"], Disconnected>>
                           ELSE IF t = s /\ link[s] = "up" THEN Append(toClient[s], reply)
                           ELSE toClient[t]
  <2>0. /\ k.toClient \in [Sockets -> Seq(ToClientPackets)]
        /\ \A t \in Sockets :
             k.toClient[t] = IF KickedOut(u, t) /\ link[t] = "up"
                             THEN toClient[t] \o <<[type |-> "kicked"], Disconnected>>
                             ELSE toClient[t]
    BY <1>8 DEF KickedSession
  <2>1. CASE s \in k.up
    <3>1. toClient' = [k.toClient EXCEPT ![s] = Append(@, reply)]
      BY <1>18, <2>1 DEF Send
    <3>2. link[s] = "up" /\ ~KickedOut(u, s) /\ k.toClient[s] = toClient[s]
      BY <1>8, <2>0, <2>1 DEF KickedSession
    <3>3. Append(k.toClient[s], reply) \in Seq(ToClientPackets)
      BY <1>18, <2>0, AppendFacts
    <3>4. /\ toClient' \in [Sockets -> Seq(ToClientPackets)]
          /\ toClient'[s] = Append(toClient[s], reply)
          /\ \A t \in Sockets : t # s => toClient'[t] = k.toClient[t]
      BY <2>0, <3>1, <3>2, <3>3
    <3> QED BY <2>0, <3>2, <3>4
  <2>2. CASE s \notin k.up
    <3>1. toClient' = k.toClient
      BY <1>18, <2>2 DEF Send
    <3>2. link[s] # "up" \/ KickedOut(u, s)
      BY <1>8, <2>2 DEF KickedSession
    <3> QED BY <2>0, <3>1, <3>2
  <2> QED BY <2>1, <2>2
<1>20. /\ taken \in [Sockets -> Seq(ToServerPackets)] /\ taken[s] = Tail(toServer[s])
       /\ \A t \in Sockets \ {s} : taken[t] = toServer[t]
  <2>1. Tail(toServer[s]) \in Seq(ToServerPackets)
    BY <1>0, <1>1, TailFacts
  <2> QED BY <1>0, <1>5, <2>1
<1>21. \A q \in Seq(ToServerPackets) : q \in Prefixes(q)
  BY PrefixSelf
<1>22. /\ toServer' \in [Sockets -> Seq(ToServerPackets)]
       /\ toServer'[s] \in Prefixes(Tail(toServer[s]))
       /\ ~KickedOut(u, s) => toServer'[s] = Tail(toServer[s])
       /\ \A t \in Sockets \ {s} :
            /\ toServer'[t] \in Prefixes(toServer[t])
            /\ ~KickedOut(u, t) => toServer'[t] = toServer[t]
  <2>1. CASE server.state[u] = "offline"
    <3>1. toServer' = taken
      BY <1>7, <2>1
    <3> QED BY <1>0, <1>20, <1>21, <3>1
  <2>2. CASE server.state[u] # "offline"
    <3>1. PICK q \in Prefixes(taken[old]) : toServer' = [taken EXCEPT ![old] = q]
      BY <1>7, <2>2
    <3>2. old \in Sockets
      BY <1>0, <1>3, <1>6, <2>2 DEF Sessions
    <3>3. q \in Seq(ToServerPackets)
      BY <1>20, <3>2, PrefixFacts
    <3>4. /\ toServer' \in [Sockets -> Seq(ToServerPackets)] /\ toServer'[old] = q
          /\ \A t \in Sockets : t # old => toServer'[t] = taken[t]
      BY <1>20, <3>1, <3>2, <3>3
    <3>5. \A t : KickedOut(u, t) <=> t = old
      BY <1>6, <2>2 DEF KickedOut
    <3>6. \A t \in Sockets : toServer'[t] \in Prefixes(taken[t])
      BY <1>20, <1>21, <3>1, <3>4
    <3> QED BY <1>20, <3>4, <3>5, <3>6
  <2> QED BY <2>1, <2>2
<1>23. /\ u = Head(toServer[s]).user
       /\ server'.state = [server.state EXCEPT ![u] = Head(toServer[s]).state]
  BY <1>2, <1>10
<1>24. \A t \in Sockets \ {s} : \A w \in Contacts[u] :
         link'[t] = "up" /\ server.state[w] # "offline" /\ server.sock[w] = t =>
           server'.told[t][u] = Head(toServer[s]).state
  BY <1>2, <1>15
<1>25. link'[s] = "up" => \A v \in Contacts[u] :
         server'.told[s][v] = IF server.state[v] \in {"offline", "invisible"} THEN "offline"
                              ELSE server.state[v]
  BY <1>16
<1>26. \A t \in Sockets :
         toClient'[t] = IF KickedOut(u, t) /\ link[t] = "up"
                        THEN toClient[t] \o <<[type |-> "kicked"], Disconnected>>
                        ELSE IF t = s /\ link[s] = "up"
                        THEN Append(toClient[s], Succeeded(u, SessionKey(server.logins + 1)))
                        ELSE toClient[t]
  BY <1>17, <1>19
<1>27. /\ returned' = returned \ {u}
       /\ \A t \in Sockets :
            link'[t] = IF KickedOut(u, t) /\ link[t] = "up" THEN "down" ELSE link[t]
  BY <1>7, <1>13
<1> QED BY <1>1, <1>3, <1>10, <1>11, <1>12, <1>13, <1>19, <1>22, <1>23, <1>24, <1>25, <1>26, <1>27, Zenon DEF LogsIn
-----------------------------------------------------------------------------
(* Each kind of step keeps the invariant: a client talks                   *)

\* What a client that talks takes from its queue.
LEMMA TalksTakes ==
  ASSUME Types, NEW p \in Places, Talks(p)
  PROVE  /\ toClient' \in [Sockets -> Seq(ToClientPackets)]
         /\ \A s \in Sockets : toClient'[s] = toClient[s]
              \/ /\ s = client[p].sock /\ toClient[s] # <<>>
                 /\ Head(toClient[s]).type \in {"can", "failed", "succeeded"}
                 /\ toClient'[s] = Tail(toClient[s])
<1>1. toClient \in [Sockets -> Seq(ToClientPackets)]
  BY DEF Types
<1>2. UNCHANGED toClient
      \/ \E s \in Sockets : s = client[p].sock /\ Takes(s, {"can", "failed", "succeeded"})
  BY DEF Talks, GoesOn, Asks, IsAnswered, Reads, Takes
<1>3. ASSUME NEW s \in Sockets, s = client[p].sock, Takes(s, {"can", "failed", "succeeded"})
      PROVE  /\ toClient' \in [Sockets -> Seq(ToClientPackets)]
             /\ \A t \in Sockets : toClient'[t] = toClient[t]
                  \/ /\ t = client[p].sock /\ toClient[t] # <<>>
                     /\ Head(toClient[t]).type \in {"can", "failed", "succeeded"}
                     /\ toClient'[t] = Tail(toClient[t])
  <2>1. /\ toClient[s] # <<>> /\ Head(toClient[s]).type \in {"can", "failed", "succeeded"}
        /\ toClient' = [toClient EXCEPT ![s] = Tail(@)]
    BY <1>3 DEF Takes
  <2>2. Tail(toClient[s]) \in Seq(ToClientPackets)
    BY <1>1, <2>1, TailFacts
  <2> QED BY <1>1, <1>3, <2>1, <2>2
<1> QED BY <1>1, <1>2, <1>3

\* The same client has each socket open.
LEMMA TalksOpen ==
  ASSUME NEW p \in Places, Talks(p), NEW s \in Sockets
  PROVE  Open(s)' <=> Open(s)
<1>1. s[1] \in Places
  BY PlaceOf
<1>2. client'[s[1]].sock = client[s[1]].sock
  BY <1>1 DEF Talks, Only
<1> QED BY <1>2 DEF Open

\* What a client that talks says.
LEMMA TalksSays ==
  ASSUME Types, NEW p \in Places, Talks(p), NEW s \in Sockets, toServer'[s] # toServer[s]
  PROVE  /\ s = client[p].sock /\ link[s] = "up"
         /\ \E r \in Seq(ToServerPackets) :
              /\ toServer'[s] = toServer[s] \o r /\ Sayable(r, p, s)
              /\ ToSet(toServer'[s]) = ToSet(toServer[s]) \cup ToSet(r)
<1>1. Says(p) /\ toServer[s] \in Seq(ToServerPackets)
  BY DEF Talks, Types
<1>2. s = client[p].sock /\ link[s] = "up"
  BY <1>1 DEF Says
<1>3. PICK r \in Seq(ToServerPackets) : toServer'[s] = toServer[s] \o r /\ Sayable(r, p, s)
  BY <1>1 DEF Says
<1>4. ToSet(toServer'[s]) = ToSet(toServer[s]) \cup ToSet(r)
  BY <1>1, <1>3, ToSetConcat
<1> QED BY <1>2, <1>3, <1>4

LEMMA TalksConnections ==
  ASSUME IMSessionAssumption, IInv, NEW p \in Places, Talks(p)
  PROVE  Connections'
<1> SUFFICES ASSUME NEW s \in Sockets PROVE Connection(s)'
  BY DEF Connections
<1>1. /\ toServer[s] \in Seq(ToServerPackets) /\ toClient[s] \in Seq(ToClientPackets)
      /\ Types /\ Connection(s)
  BY DEF IInv, Types, Connections
<1>2. (Open(s)' <=> Open(s)) /\ link'[s] = link[s] /\ loggedOn'[s] = loggedOn[s]
  BY TalksOpen DEF Talks
<1>3. \/ toServer'[s] = toServer[s]
      \/ link[s] = "up" /\ EndsLast(toServer'[s]) /\ ~Ended(toServer'[s])
  <2>0. SUFFICES ASSUME toServer'[s] # toServer[s]
                 PROVE  link[s] = "up" /\ EndsLast(toServer'[s]) /\ ~Ended(toServer'[s])
    OBVIOUS
  <2>1. PICK r \in Seq(ToServerPackets) : toServer'[s] = toServer[s] \o r /\ Sayable(r, p, s)
    BY <1>1, <2>0, TalksSays
  <2>2. link[s] = "up" /\ ~Ended(toServer[s])
    BY <1>1, <2>0, TalksSays DEF Connection
  <2>3. \A e \in ToSet(r) : e.type \notin Ends
    BY <2>1 DEF Sayable, Ends
  <2>4. ~Ended(r)
    BY <2>3 DEF Ended
  <2>5. \A i \in 1 .. Len(r) : r[i].type \notin Ends
    BY <2>3, ToSetFacts
  <2>6. EndsLast(r)
    BY <2>5 DEF EndsLast, Ends
  <2>7. EndsLast(toServer[s] \o r) /\ ~Ended(toServer[s] \o r)
    BY <1>1, <2>2, <2>4, <2>6, EndsLastConcat, EndedFacts
  <2> QED BY <2>1, <2>2, <2>7
<1>4. /\ EndsLast(toClient'[s]) /\ (Ended(toClient'[s]) <=> Ended(toClient[s]))
      /\ ToSet(toClient'[s]) \subseteq ToSet(toClient[s])
      /\ toClient[s] = <<>> => toClient'[s] = <<>>
  <2>1. CASE toClient'[s] = toClient[s]
    BY <1>1, <2>1 DEF Connection
  <2>2. CASE toClient'[s] # toClient[s]
    <3>1. /\ toClient[s] # <<>> /\ toClient'[s] = Tail(toClient[s])
          /\ Head(toClient[s]).type \notin Ends
      BY <1>1, <2>2, TalksTakes DEF Ends
    <3>2. EndsLast(Tail(toClient[s])) /\ (Ended(Tail(toClient[s])) <=> Ended(toClient[s]))
      BY <1>1, <3>1, EndsLastTail, EndedFacts DEF Connection
    <3>3. ToSet(Tail(toClient[s])) \subseteq ToSet(toClient[s])
      BY <1>1, <3>1, ToSetTail
    <3> QED BY <3>1, <3>2, <3>3
  <2> QED BY <2>1, <2>2
<1>5. link[s] = "unused" => toServer'[s] = <<>> /\ toClient'[s] = <<>>
  BY <1>1, <1>3, <1>4 DEF Connection
<1> QED BY <1>1, <1>2, <1>3, <1>4, <1>5 DEF Connection
LEMMA TalksHolds ==
  ASSUME IMSessionAssumption, IInv, NEW p \in Places, Talks(p),
         NEW s \in Sockets, NEW k \in SessionKeys, Holds(s, k)'
  PROVE  Holds(s, k)
<1>0. Types /\ toClient[s] \in Seq(ToClientPackets) /\ toClient'[s] \in Seq(ToClientPackets)
  BY TalksTakes DEF IInv, Types
<1>1. ASSUME NEW e \in ToSet(toClient'[s]) PROVE e \in ToSet(toClient[s])
  BY <1>0, <1>1, TalksTakes, ToSetTail
<1>2. ASSUME Open(s)', client'[s[1]].key = k PROVE Holds(s, k)
  <2>1. Open(s)
    BY <1>2, TalksOpen
  <2>2. CASE s[1] # p
    <3>1. client'[s[1]] = client[s[1]]
      BY <2>2, PlaceOf DEF Talks, Only
    <3> QED BY <1>2, <2>1, <3>1 DEF Holds
  <2>3. CASE s[1] = p
    <3>1. client[p].sock = s /\ client'[p].key = k
      BY <1>2, <2>1, <2>3 DEF Open
    <3>2. CASE GoesOn(p)
      <4>1. client'[p].key = client[p].key
        BY <3>1, <3>2 DEF GoesOn, Talks
      <4> QED BY <2>1, <2>3, <3>1, <4>1 DEF Holds
    <3>3. CASE Asks(p)
      BY <3>1, <3>3, KeyKinds DEF Asks
    <3>4. CASE IsAnswered(p)
      <4>1. PICK t \in Sockets :
              /\ t = client[p].sock /\ Takes(t, {"succeeded"})
              /\ client'[p].key = IF client[p].key = PasswordKey(Head(toClient[t]).user)
                                  THEN Head(toClient[t]).key ELSE NoKey
        BY <3>4 DEF IsAnswered
      <4>2. t = s
        BY <3>1, <4>1
      <4>3. k = Head(toClient[s]).key /\ Head(toClient[s]).type = "succeeded" /\ toClient[s] # <<>>
        BY <3>1, <4>1, <4>2, KeyKinds DEF Takes
      <4>4. Head(toClient[s]) \in ToSet(toClient[s])
        BY <1>0, <4>3, ToSetOf
      <4> QED BY <4>3, <4>4 DEF Holds
    <3> QED BY <3>2, <3>3, <3>4 DEF Talks
  <2> QED BY <2>2, <2>3
<1>3. ASSUME NEW e \in ToSet(toServer'[s]), e.type = "state", e.key = k PROVE Holds(s, k)
  <2>1. CASE e \in ToSet(toServer[s])
    BY <1>3, <2>1 DEF Holds
  <2>2. CASE e \notin ToSet(toServer[s])
    <3>1. toServer'[s] # toServer[s]
      BY <1>3, <2>2
    <3>2. s = client[p].sock
      BY <1>0, <3>1, TalksSays
    <3>3. PICK r \in Seq(ToServerPackets) :
            Sayable(r, p, s) /\ ToSet(toServer'[s]) = ToSet(toServer[s]) \cup ToSet(r)
      BY <1>0, <3>1, TalksSays
    <3>4. e.key = client'[p].key
      <4>1. e \in ToSet(r) /\ e.type \notin {"request", "login"}
        BY <1>3, <2>2, <3>3
      <4> QED BY <3>3, <4>1 DEF Sayable
    <3>5. s[1] = p /\ client'[p].sock = s
      <4>1. s[1] = p
        BY <3>2 DEF IMSessionAssumption, IInv, Clients, Client, OfPlace
      <4> QED BY <3>2, <4>1 DEF Talks
    <3> QED BY <1>2, <1>3, <3>4, <3>5 DEF Open
  <2> QED BY <2>1, <2>2
<1>4. ASSUME NEW e \in ToSet(toClient'[s]), e.type = "succeeded", e.key = k PROVE Holds(s, k)
  BY <1>1, <1>4 DEF Holds
<1> QED BY <1>2, <1>3, <1>4 DEF Holds
LEMMA TalksKeysApart ==
  ASSUME IMSessionAssumption, IInv, NEW p \in Places, Talks(p)
  PROVE  KeysApart'
<1>0. KeysApart /\ Types /\ server' = server
  BY DEF IInv, Talks
<1>1. \A s \in Sockets : \A k \in SessionKeys : Holds(s, k)' => Holds(s, k)
  BY TalksHolds
<1>2. \A n \in Nat \ {0} : SessionKey(n) \in SessionKeys
  BY KeyKinds
<1>3. \A s \in Sockets : \A n \in Nat \ {0} : Holds(s, SessionKey(n))' => n <= server.logins
  BY <1>0, <1>1, <1>2 DEF KeysApart
<1>4. ASSUME NEW q \in Places, NEW n \in Nat \ {0}, client'[q].key = SessionKey(n)
      PROVE  n <= server.logins
  <2>1. CASE client'[q].key = client[q].key
    BY <1>0, <1>4, <2>1 DEF KeysApart
  <2>2. CASE client'[q].key # client[q].key
    <3>1. q = p
      BY <2>2 DEF Talks, Only
    <3>2. client[p].sock # NoSocket
      BY <1>2, <1>4, <2>2, <3>1 DEF Talks
    <3>3. PICK s \in Sockets : s = client[p].sock /\ s[1] = p
      BY <3>2 DEF IInv, Clients, Client, OfPlace
    <3>4. Open(s)'
      BY <3>3 DEF Open, Talks
    <3>5. Holds(s, SessionKey(n))'
      BY <1>4, <3>1, <3>3, <3>4 DEF Holds
    <3> QED BY <1>3, <3>5
  <2> QED BY <2>1, <2>2
<1> QED BY <1>0, <1>1, <1>3, <1>4 DEF KeysApart

\* A client that talks and has been let in by no reply stays so.
LEMMA TalksNotYet ==
  ASSUME IMSessionAssumption, IInv, NEW p \in Places, Talks(p), NEW s \in Sockets, NotYet(s),
         \/ \A e \in ToSet(toClient[s]) : e.type # "succeeded"
         \/ loggedOn[s] = 1 /\ \E e \in ToSet(toClient'[s]) : e.type = "succeeded"
  PROVE  NotYet(s)'
<1>0. Types /\ Replies(s) /\ toClient[s] \in Seq(ToClientPackets)
  BY DEF IInv, Types
<1> SUFFICES ASSUME Open(s)'
             PROVE  client'[s[1]].key \notin SessionKeys /\ ~client'[s[1]].verified
  BY DEF NotYet
<1>1. Open(s) /\ client[s[1]].key \notin SessionKeys /\ ~client[s[1]].verified
  BY TalksOpen DEF NotYet
<1>2. CASE s[1] # p
  BY <1>1, <1>2, PlaceOf DEF Talks, Only
<1>3. CASE s[1] = p
  <2>1. client[p].sock = s /\ s # NoSocket
    BY <1>1, <1>3 DEF Open, IMSessionAssumption
  <2>2. CASE GoesOn(p)
    BY <1>1, <1>3, <2>1, <2>2 DEF GoesOn
  <2>3. CASE Asks(p)
    BY <1>1, <1>3, <2>3, KeyKinds DEF Asks
  <2>4. CASE IsAnswered(p)
    <3>1. PICK t \in Sockets : t = client[p].sock /\ Takes(t, {"succeeded"})
      BY <2>4 DEF IsAnswered
    <3>2. t = s
      BY <2>1, <3>1
    <3>3. toClient[s] # <<>> /\ Head(toClient[s]).type = "succeeded" /\ toClient'[s] = Tail(toClient[s])
      BY <1>0, <3>1, <3>2 DEF Takes, Types
    <3>4. Head(toClient[s]) \in ToSet(toClient[s])
      BY <1>0, <3>3, ToSetOf
    <3>5. PICK e \in ToSet(toClient'[s]) : loggedOn[s] = 1 /\ e.type = "succeeded"
      BY <3>3, <3>4
    <3>6. PICK q : q = Tail(toClient[s])
      OBVIOUS
    <3>7. /\ q \in Seq(ToClientPackets) /\ Len(toClient[s]) \in Nat \ {0}
          /\ Head(toClient[s]) = toClient[s][1]
          /\ \A i \in 1 .. Len(q) : i + 1 \in 1 .. Len(toClient[s]) /\ q[i] = toClient[s][i + 1]
      BY <1>0, <3>3, <3>6, TailFacts
    <3>8. PICK i \in 1 .. Len(q) : q[i] = e
      <4>1. e \in ToSet(q) /\ q \in Seq(ToClientPackets)
        BY <3>3, <3>5, <3>6, <3>7
      <4> QED BY <4>1, ToSetFacts
    <3>9. /\ toClient[s][1].type = "succeeded" /\ toClient[s][i + 1].type = "succeeded"
          /\ 1 \in 1 .. Len(toClient[s]) /\ i + 1 \in 1 .. Len(toClient[s])
      BY <3>3, <3>5, <3>7, <3>8
    <3>10. 1 = i + 1
      BY <1>0, <3>5, <3>9 DEF Replies
    <3> QED BY <3>8, <3>10
  <2> QED BY <2>2, <2>3, <2>4 DEF Talks
<1> QED BY <1>2, <1>3

LEMMA TalksReplies ==
  ASSUME IMSessionAssumption, IInv, NEW p \in Places, Talks(p), NEW s \in Sockets
  PROVE  Replies(s)'
<1>0. /\ Types /\ Replies(s) /\ toClient[s] \in Seq(ToClientPackets)
      /\ toClient'[s] \in Seq(ToClientPackets) /\ loggedOn'[s] = loggedOn[s]
  BY TalksTakes DEF IInv, Types, Talks
<1>1. ASSUME NEW e \in ToSet(toClient'[s]) PROVE e \in ToSet(toClient[s])
  BY <1>0, <1>1, TalksTakes, ToSetTail
<1>2. ASSUME loggedOn[s] = 0
      PROVE  NotYet(s)' /\ \A e \in ToSet(toClient'[s]) : e.type # "succeeded"
  <2>1. NotYet(s) /\ \A e \in ToSet(toClient[s]) : e.type # "succeeded"
    BY <1>0, <1>2 DEF Replies
  <2> QED BY <1>1, <2>1, TalksNotYet
<1>3. ASSUME loggedOn[s] = 1, NEW e \in ToSet(toClient'[s]), e.type = "succeeded"
      PROVE  NotYet(s)'
  <2>1. NotYet(s)
    BY <1>0, <1>1, <1>3 DEF Replies
  <2> QED BY <1>3, <2>1, TalksNotYet
<1>4. ASSUME loggedOn[s] = 1, NEW i \in 1 .. Len(toClient'[s]), NEW j \in 1 .. Len(toClient'[s]),
             toClient'[s][i].type = "succeeded", toClient'[s][j].type = "succeeded"
      PROVE  i = j
  <2>1. CASE toClient'[s] = toClient[s]
    BY <1>0, <1>4, <2>1 DEF Replies
  <2>2. CASE toClient[s] # <<>> /\ toClient'[s] = Tail(toClient[s])
    <3>1. \A n \in 1 .. Len(toClient'[s]) :
            n + 1 \in 1 .. Len(toClient[s]) /\ toClient'[s][n] = toClient[s][n + 1]
      BY <1>0, <2>2, TailFacts
    <3>2. /\ i + 1 \in 1 .. Len(toClient[s]) /\ j + 1 \in 1 .. Len(toClient[s])
          /\ toClient[s][i + 1].type = "succeeded" /\ toClient[s][j + 1].type = "succeeded"
      BY <1>4, <3>1
    <3>3. i + 1 = j + 1
      BY <1>0, <1>4, <3>2 DEF Replies
    <3> QED BY <3>3
  <2> QED BY <1>0, <2>1, <2>2, TalksTakes
<1> QED BY <1>0, <1>2, <1>3, <1>4 DEF Replies
\* The key of a login that is replied to, or was over an open socket, is not used elsewhere:
\* so nobody else says with it that its user is offline.
LEMMA TalksFarewell ==
  ASSUME IMSessionAssumption, IInv, NEW p \in Places, Talks(p), NEW s \in Sockets,
         loggedOn[s] = 1, link[s] = "up", NEW k \in SessionKeys, Holds(s, k), NoFarewell(k),
         \/ \E e \in ToSet(toClient'[s]) : e.type = "succeeded"
         \/ client'[s[1]].verified
  PROVE  NoFarewell(k)'
<1>0. Types /\ KeysApart /\ loggedOn' = loggedOn
  BY DEF IInv, Talks
<1> SUFFICES ASSUME NEW t \in Sockets, NEW e \in ToSet(toServer'[t]), e.type = "state",
                    e.key = k, e.state = "offline"
             PROVE  FALSE
  BY DEF NoFarewell
<1>1. e \notin ToSet(toServer[t])
  BY DEF NoFarewell
<1>2. toServer'[t] # toServer[t]
  BY <1>1
<1>3. t = client[p].sock /\ link[t] = "up"
  BY <1>0, <1>2, TalksSays
<1>4. PICK r \in Seq(ToServerPackets) :
        Sayable(r, p, t) /\ ToSet(toServer'[t]) = ToSet(toServer[t]) \cup ToSet(r)
  BY <1>0, <1>2, TalksSays
<1>5. e \in ToSet(r) /\ e.type \notin {"request", "login"}
  BY <1>1, <1>4
<1>6. client'[p].key = k /\ (~client'[p].verified \/ loggedOn[t] # 1)
  BY <1>4, <1>5 DEF Sayable
<1>7. t[1] = p /\ client'[p].sock = t
  <2>1. t[1] = p
    BY <1>3 DEF IMSessionAssumption, IInv, Clients, Client, OfPlace
  <2> QED BY <1>3, <2>1 DEF Talks
<1>8. Open(t)'
  BY <1>7 DEF Open
<1>9. Holds(t, k)'
  BY <1>6, <1>7, <1>8 DEF Holds
<1>10. Holds(t, k)
  BY <1>9, TalksHolds
<1>11. s = t
  BY <1>0, <1>10 DEF KeysApart
<1>12. Replies(s)'
  BY TalksReplies
<1>13. ~client'[p].verified
  BY <1>6, <1>11
<1>14. \E x \in ToSet(toClient'[s]) : x.type = "succeeded"
  BY <1>7, <1>11, <1>13
<1>15. NotYet(s)'
  BY <1>0, <1>12, <1>14 DEF Replies
<1> QED BY <1>6, <1>7, <1>8, <1>11, <1>15 DEF NotYet

LEMMA TalksAgreed ==
  ASSUME IMSessionAssumption, IInv, NEW p \in Places, Talks(p), NEW s \in Sockets
  PROVE  Agreed(s)'
<1>0. /\ Types /\ Agreed(s) /\ toClient[s] \in Seq(ToClientPackets)
      /\ server' = server /\ link' = link /\ loggedOn' = loggedOn
      /\ s[1] \in Places /\ s # NoSocket
  BY PlaceOf DEF IMSessionAssumption, IInv, Types, Talks
<1> SUFFICES ASSUME loggedOn[s] = 1, link[s] = "up"
             PROVE  /\ \A e \in ToSet(toClient'[s]) : e.type = "succeeded" => SignedOn(e.user, e.key, s)'
                    /\ client'[s[1]].verified /\ client'[s[1]].key \in SessionKeys =>
                         SignedOn(client[s[1]].user, client[s[1]].key, s)'
  BY <1>0 DEF Agreed
<1>1. Open(s) /\ Open(s)'
  BY TalksOpen DEF IInv, Connections, Connection
<1>2. ASSUME NEW u, NEW k \in SessionKeys, SignedOn(u, k, s), Holds(s, k),
             \/ \E e \in ToSet(toClient'[s]) : e.type = "succeeded"
             \/ client'[s[1]].verified
      PROVE  SignedOn(u, k, s)'
  <2>1. NoFarewell(k)'
    BY <1>2, TalksFarewell DEF SignedOn
  <2> QED BY <1>0, <1>2, <2>1 DEF SignedOn
<1>3. ASSUME NEW e \in ToSet(toClient[s]), e.type = "succeeded"
      PROVE  /\ e.key \in SessionKeys /\ SignedOn(e.user, e.key, s) /\ Holds(s, e.key)
  <2>1. e \in ToClientPackets
    BY <1>0, ToSetOf
  <2>2. e.key \in SessionKeys
    BY <1>3, <2>1, ToClientKinds
  <2> QED BY <1>0, <1>3, <2>2 DEF Agreed, Holds
<1>4. ASSUME NEW e \in ToSet(toClient'[s]), e.type = "succeeded"
      PROVE  SignedOn(e.user, e.key, s)'
  <2>1. e \in ToSet(toClient[s])
    BY <1>0, <1>4, TalksTakes, ToSetTail
  <2> QED BY <1>2, <1>3, <1>4, <2>1
<1>5. ASSUME client'[s[1]].verified, client'[s[1]].key \in SessionKeys
      PROVE  SignedOn(client[s[1]].user, client[s[1]].key, s)'
  <2>1. PICK u, k : u = client'[s[1]].user /\ k = client'[s[1]].key
    OBVIOUS
  <2>2. SUFFICES SignedOn(u, k, s)'
    BY <2>1 DEF SignedOn, NoFarewell
  <2>3. Holds(s, k)'
    BY <1>1, <2>1 DEF Holds
  <2>4. k \in SessionKeys /\ Holds(s, k)
    BY <1>5, <2>1, <2>3, TalksHolds
  <2>5. SUFFICES SignedOn(u, k, s)
    BY <1>2, <1>5, <2>4
  <2>6. CASE client'[s[1]].user = client[s[1]].user /\ client'[s[1]].key = client[s[1]].key
             /\ client[s[1]].verified
    BY <1>0, <1>5, <2>1, <2>6 DEF Agreed
  <2>7. CASE s[1] # p
    <3>1. client'[s[1]] = client[s[1]]
      BY <1>0, <2>7 DEF Talks, Only
    <3> QED BY <1>5, <2>6, <3>1
  <2>8. CASE s[1] = p
    <3>1. client[p].sock = s
      BY <1>1, <2>8 DEF Open
    <3>2. CASE GoesOn(p)
      BY <1>0, <1>5, <2>6, <2>8, <3>1, <3>2 DEF GoesOn
    <3>3. CASE Asks(p)
      BY <1>5, <2>8, <3>3, KeyKinds DEF Asks
    <3>4. CASE IsAnswered(p)
      <4>1. PICK t \in Sockets :
              /\ t = client[p].sock /\ Takes(t, {"succeeded"})
              /\ client'[p].user = client[p].user
              /\ client'[p].key = IF client[p].key = PasswordKey(Head(toClient[t]).user)
                                  THEN Head(toClient[t]).key ELSE NoKey
        BY <3>4 DEF IsAnswered
      <4>2. PICK e : e = Head(toClient[s])
        OBVIOUS
      <4>3. e.type = "succeeded" /\ toClient[s] # <<>>
        BY <3>1, <4>1, <4>2 DEF Takes
      <4>4. client[p].key = PasswordKey(e.user) /\ k = e.key /\ u = client[p].user
        BY <2>1, <2>4, <2>8, <3>1, <4>1, <4>2, KeyKinds
      <4>5. e \in ToSet(toClient[s])
        BY <1>0, <4>2, <4>3, ToSetOf
      <4>6. client[p].key = PasswordKey(client[p].user)
        BY <1>0, <3>1, <4>4, KeyKinds DEF IInv, Clients, Client
      <4>7. e.user = u
        BY <4>4, <4>6, KeyKinds
      <4> QED BY <1>3, <4>3, <4>4, <4>5, <4>7
    <3> QED BY <3>2, <3>3, <3>4 DEF Talks
  <2> QED BY <2>7, <2>8
<1> QED BY <1>4, <1>5

LEMMA TalksKeeps ==
  ASSUME IMSessionAssumption, IInv, NEW p \in Places, Talks(p),
         attempts' \in 0 .. MaxAttempts + MaxReturns
  PROVE  IInv'
<1>0. UNCHANGED <<link, server, loggedOn, returned>> /\ Types /\ Says(p)
  BY DEF Talks, IInv
<1>1. Types'
  <2>1. toClient' \in [Sockets -> Seq(ToClientPackets)]
    BY <1>0, TalksTakes
  <2>2. /\ link \in [Sockets -> {"unused", "up", "down"}] /\ server \in ServerStates
        /\ loggedOn \in [Sockets -> Nat] /\ returned \subseteq Users
    BY <1>0 DEF Types
  <2>3. client' \in [Places -> Programs] /\ toServer' \in [Sockets -> Seq(ToServerPackets)]
    BY <1>0 DEF Talks, Says
  <2> QED BY <1>0, <2>1, <2>2, <2>3 DEF Types
<1>2. Connections' /\ KeysApart' /\ (\A s \in Sockets : Replies(s)') /\ (\A s \in Sockets : Agreed(s)')
  BY TalksConnections, TalksKeysApart, TalksReplies, TalksAgreed
<1>3. Clients'
  <2> SUFFICES ASSUME NEW q \in Places, q # p PROVE Client(q)' /\ Shown(q)'
    BY DEF Clients, Talks
  <2>1. client'[q] = client[q] /\ Client(q) /\ Shown(q)
    BY DEF Talks, Only, IInv, Clients
  <2> QED BY <1>0, <2>1 DEF Client, Shown
<1>4. Sessions' /\ PresenceTold'
  <2>1. Sessions /\ PresenceTold
    BY DEF IInv
  <2> QED BY <1>0, <2>1 DEF Sessions, PresenceTold
<1>5. ASSUME NEW u \in Users PROVE Found(u)'
  <2>1. Found(u)
    BY DEF IInv
  <2>2. CASE server.state[u] = "offline"
    BY <1>0, <2>2 DEF Found
  <2>3. CASE server.state[u] # "offline"
    <3>1. PICK s \in Sockets : s = server.sock[u]
      BY <2>3 DEF IInv, Sessions, Types, ServerStates
    <3>2. ToSet(toServer[s]) \subseteq ToSet(toServer'[s])
      BY <1>0, TalksSays
    <3> QED BY <1>0, <2>1, <3>1, <3>2 DEF Found
  <2> QED BY <2>2, <2>3
<1> QED BY <1>1, <1>2, <1>3, <1>4, <1>5 DEF IInv
-----------------------------------------------------------------------------
(* What keeps a part of the invariant, whatever the step                   *)

Success(q) == \E e \in ToSet(q) : e.type = "succeeded"
OneSuccess(q) ==
  \A i, j \in 1 .. Len(q) : q[i].type = "succeeded" /\ q[j].type = "succeeded" => i = j

\* The queue q has no replies to logins but those of r.
NoMoreReplies(q, r) ==
  /\ q \in Seq(ToClientPackets)
  /\ \A e \in ToSet(q) : e.type = "succeeded" => e \in ToSet(r)
  /\ OneSuccess(r) => OneSuccess(q)

LEMMA RepliesLess ==
  ASSUME NEW r \in Seq(ToClientPackets)
  PROVE  /\ NoMoreReplies(r, r) /\ NoMoreReplies(<<>>, r)
         /\ r # <<>> => NoMoreReplies(Tail(r), r)
         /\ \A q \in Prefixes(r) : NoMoreReplies(q, r)
<1>1. NoMoreReplies(r, r)
  BY DEF NoMoreReplies
<1>2. NoMoreReplies(<<>>, r)
  BY DEF NoMoreReplies, OneSuccess, ToSet
<1>3. ASSUME r # <<>> PROVE NoMoreReplies(Tail(r), r)
  <2>1. PICK q : q = Tail(r)
    OBVIOUS
  <2>2. /\ q \in Seq(ToClientPackets) /\ Len(r) \in Nat
        /\ \A i \in 1 .. Len(q) : i + 1 \in 1 .. Len(r) /\ q[i] = r[i + 1]
    BY <1>3, <2>1, TailFacts
  <2>3. ToSet(q) \subseteq ToSet(r)
    BY <1>3, <2>1, ToSetTail
  <2>4. ASSUME OneSuccess(r), NEW i \in 1 .. Len(q), NEW j \in 1 .. Len(q),
               q[i].type = "succeeded", q[j].type = "succeeded"
        PROVE  i = j
    <3>1. /\ i + 1 \in 1 .. Len(r) /\ j + 1 \in 1 .. Len(r)
          /\ r[i + 1].type = "succeeded" /\ r[j + 1].type = "succeeded"
      BY <2>2, <2>4
    <3>2. i + 1 = j + 1
      BY <2>4, <3>1 DEF OneSuccess
    <3> QED BY <3>2
  <2>5. OneSuccess(r) => OneSuccess(q)
    BY <2>4 DEF OneSuccess
  <2> QED BY <2>1, <2>2, <2>3, <2>5 DEF NoMoreReplies
<1>4. ASSUME NEW q \in Prefixes(r) PROVE NoMoreReplies(q, r)
  <2>1. /\ q \in Seq(ToClientPackets)
        /\ \A i \in 1 .. Len(q) : i \in 1 .. Len(r) /\ q[i] = r[i]
    BY PrefixFacts
  <2>2. ToSet(q) \subseteq ToSet(r)
    BY ToSetPrefix
  <2>3. OneSuccess(r) => OneSuccess(q)
    BY <2>1 DEF OneSuccess
  <2> QED BY <2>1, <2>2, <2>3 DEF NoMoreReplies
<1> QED BY <1>1, <1>2, <1>3, <1>4

LEMMA RepliesBefore ==
  ASSUME NEW r \in Seq(ToClientPackets), NEW x \in Seq(ToClientPackets), ~Success(x)
  PROVE  NoMoreReplies(r \o x, r)
<1>1. PICK q : q = r \o x
  OBVIOUS
<1>2. /\ q \in Seq(ToClientPackets) /\ Len(r) \in Nat /\ Len(x) \in Nat
      /\ \A i \in 1 .. Len(q) : \/ i \in 1 .. Len(r) /\ q[i] = r[i]
                                \/ i - Len(r) \in 1 .. Len(x) /\ q[i] = x[i - Len(r)]
  BY <1>1, ConcatFacts
<1>3. \A i \in 1 .. Len(x) : x[i].type # "succeeded"
  BY ToSetFacts DEF Success
<1>4. \A i \in 1 .. Len(q) : q[i].type = "succeeded" => i \in 1 .. Len(r) /\ q[i] = r[i]
  BY <1>2, <1>3
<1>5. OneSuccess(r) => OneSuccess(q)
  BY <1>4 DEF OneSuccess
<1>6. ToSet(q) = ToSet(r) \cup ToSet(x)
  BY <1>1, ToSetConcat
<1> QED BY <1>1, <1>2, <1>5, <1>6 DEF NoMoreReplies, Success

LEMMA RepliesBeforeOne ==
  ASSUME NEW r \in Seq(ToClientPackets), NEW e \in ToClientPackets, e.type # "succeeded"
  PROVE  NoMoreReplies(Append(r, e), r)
<1>1. <<e>> \in Seq(ToClientPackets) /\ Append(r, e) = r \o <<e>>
  OBVIOUS
<1>2. ToSet(<<e>>) = {e}
  BY DEF ToSet
<1>3. ~Success(<<e>>)
  BY <1>2 DEF Success
<1> QED BY <1>1, <1>3, RepliesBefore

LEMMA RepliesKept ==
  ASSUME NEW s \in Sockets, Replies(s), loggedOn'[s] = loggedOn[s],
         NotYet(s) => NotYet(s)', NoMoreReplies(toClient'[s], toClient[s])
  PROVE  Replies(s)'
<1>1. PICK q, r : q = toClient'[s] /\ r = toClient[s]
  OBVIOUS
<1>2. ASSUME loggedOn[s] = 0
      PROVE  NotYet(s)' /\ \A e \in ToSet(toClient'[s]) : e.type # "succeeded"
  BY <1>2 DEF Replies, NoMoreReplies
<1>3. ASSUME loggedOn[s] = 1
      PROVE  /\ (\E e \in ToSet(toClient'[s]) : e.type = "succeeded") => NotYet(s)'
             /\ OneSuccess(q)
  <2>1. OneSuccess(r)
    BY <1>1, <1>3 DEF Replies, OneSuccess
  <2>2. (\E e \in ToSet(toClient'[s]) : e.type = "succeeded") => NotYet(s)'
    BY <1>3 DEF Replies, NoMoreReplies
  <2> QED BY <1>1, <2>1, <2>2 DEF NoMoreReplies
<1>4. loggedOn[s] = 1 => \A i, j \in 1 .. Len(toClient'[s]) :
        toClient'[s][i].type = "succeeded" /\ toClient'[s][j].type = "succeeded" => i = j
  BY <1>1, <1>3 DEF OneSuccess
<1> QED BY <1>2, <1>3, <1>4 DEF Replies

\* A queue to the server says nothing more with a key.
NoMoreKeys(s) ==
  \A e \in ToSet(toServer'[s]) : e.type = "state" => e \in ToSet(toServer[s])

LEMMA HoldsKept ==
  ASSUME NEW s \in Sockets, NEW k, Holds(s, k)',
         Open(s)' => Open(s) /\ client'[s[1]].key = client[s[1]].key,
         NoMoreKeys(s), NoMoreReplies(toClient'[s], toClient[s])
  PROVE  Holds(s, k)
BY DEF Holds, NoMoreKeys, NoMoreReplies

LEMMA KeysKept ==
  ASSUME KeysApart, server'.key = server.key, server'.logins = server.logins,
         \A q \in Places : client'[q].key \in SessionKeys => client'[q].key = client[q].key,
         \A s \in Sockets : \A k \in SessionKeys : Holds(s, k)' => Holds(s, k)
  PROVE  KeysApart'
<1>1. \A n \in Nat \ {0} : SessionKey(n) \in SessionKeys
  BY KeyKinds
<1>2. ASSUME NEW q \in Places, NEW n \in Nat \ {0}, client'[q].key = SessionKey(n)
      PROVE  n <= server.logins
  BY <1>1, <1>2 DEF KeysApart
<1>3. \A s \in Sockets : \A n \in Nat \ {0} : Holds(s, SessionKey(n))' => n <= server.logins
  BY <1>1 DEF KeysApart
<1>4. \A u \in Users : \A n \in Nat \ {0} : server'.key[u] = SessionKey(n) => n <= server.logins
  BY DEF KeysApart
<1>5. \A s, t \in Sockets : \A k \in SessionKeys : Holds(s, k)' /\ Holds(t, k)' => s = t
  BY DEF KeysApart
<1> QED BY <1>2, <1>3, <1>4, <1>5 DEF KeysApart

LEMMA AgreedKept ==
  ASSUME NEW s \in Sockets, Agreed(s), loggedOn'[s] = loggedOn[s],
         link'[s] = "up" => /\ link[s] = "up" /\ client'[s[1]] = client[s[1]] /\ Open(s)
                            /\ NoMoreReplies(toClient'[s], toClient[s]),
         toClient[s] \in Seq(ToClientPackets),
         \A u : \A k \in SessionKeys :
           loggedOn[s] = 1 /\ link'[s] = "up" /\ Holds(s, k) /\ SignedOn(u, k, s) => SignedOn(u, k, s)'
  PROVE  Agreed(s)'
<1> SUFFICES ASSUME loggedOn'[s] = 1, link'[s] = "up"
             PROVE  /\ \A e \in ToSet(toClient'[s]) : e.type = "succeeded" => SignedOn(e.user, e.key, s)'
                    /\ client'[s[1]].verified /\ client'[s[1]].key \in SessionKeys =>
                         SignedOn(client[s[1]].user, client[s[1]].key, s)'
  BY DEF Agreed
<1>0. loggedOn[s] = 1 /\ link[s] = "up" /\ client'[s[1]] = client[s[1]] /\ Open(s)
  OBVIOUS
<1>1. ASSUME NEW e \in ToSet(toClient'[s]), e.type = "succeeded"
      PROVE  SignedOn(e.user, e.key, s)'
  <2>1. e \in ToSet(toClient[s])
    BY <1>1 DEF NoMoreReplies
  <2>2. e.key \in SessionKeys
    <3>1. e \in ToClientPackets
      BY <2>1, ToSetOf
    <3> QED BY <1>1, <3>1, ToClientKinds
  <2>3. SignedOn(e.user, e.key, s) /\ Holds(s, e.key)
    BY <1>0, <1>1, <2>1 DEF Agreed, Holds
  <2> QED BY <1>0, <2>2, <2>3
<1>2. ASSUME client'[s[1]].verified, client'[s[1]].key \in SessionKeys
      PROVE  SignedOn(client[s[1]].user, client[s[1]].key, s)'
  <2>1. PICK u, k : u = client[s[1]].user /\ k = client[s[1]].key
    OBVIOUS
  <2>2. k \in SessionKeys /\ Holds(s, k) /\ SignedOn(u, k, s)
    BY <1>0, <1>2, <2>1 DEF Agreed, Holds
  <2>3. SignedOn(u, k, s)'
    BY <1>0, <2>2
  <2>4. client'[s[1]].user = u /\ client'[s[1]].key = k
    BY <1>0, <2>1
  <2> QED BY <2>3, <2>4 DEF SignedOn, NoFarewell
<1> QED BY <1>1, <1>2

\* The client of another place is as it was.
LEMMA OthersStay ==
  ASSUME NEW p, Only(p), NEW s \in Sockets, s[1] # p
  PROVE  client'[s[1]] = client[s[1]]
BY PlaceOf DEF Only
\* A socket that a user is found by works, or its loss is known.
Minded(s) == link[s] = "up" \/ Disconnected \in ToSet(toServer[s])

LEMMA FoundKept ==
  ASSUME Types, Sessions, NEW u \in Users, Found(u), UNCHANGED <<server, loggedOn, returned>>,
         \A s \in Sockets : Minded(s) /\ loggedOn[s] = 1 /\ server.watched[s] = u => Minded(s)'
  PROVE  Found(u)'
<1>1. CASE server.state[u] = "offline"
  BY <1>1 DEF Found
<1>2. CASE server.state[u] # "offline"
  <2>1. PICK s \in Sockets : s = server.sock[u]
    BY <1>2 DEF Sessions, Types, ServerStates
  <2> QED BY <2>1 DEF Found, Minded
<1> QED BY <1>1, <1>2

-----------------------------------------------------------------------------
(* A client connects, leaves or ignores                                    *)

LEMMA ConnectsKeeps ==
  ASSUME IMSessionAssumption, IInv, NEW p \in Places, NEW s \in Sockets, Connects(p, s),
         attempts' \in 0 .. MaxAttempts + MaxReturns
  PROVE  IInv'
<1>0. /\ Types /\ Sessions /\ Connection(s) /\ Only(p)
      /\ toServer \in [Sockets -> Seq(ToServerPackets)]
      /\ toClient \in [Sockets -> Seq(ToClientPackets)]
      /\ link \in [Sockets -> {"unused", "up", "down"}]
      /\ UNCHANGED <<toClient, server, loggedOn, returned>>
  BY DEF IInv, Types, Connections, Connects
<1>1. PICK e \in ToServerPackets : e.type = "request" /\ toServer' = [toServer EXCEPT ![s] = Append(@, e)]
  BY DEF Connects
<1>2. /\ link[s] = "unused" /\ toServer[s] = <<>> /\ toClient[s] = <<>> /\ loggedOn[s] = 0
      /\ client[p].sock = NoSocket /\ client'[p].sock = s /\ s[1] = p /\ s # NoSocket
  BY <1>0 DEF Connects, Connection, OfPlace, IMSessionAssumption
<1>3. /\ toServer' \in [Sockets -> Seq(ToServerPackets)] /\ toServer'[s] = Append(toServer[s], e)
      /\ \A t \in Sockets \ {s} : toServer'[t] = toServer[t]
  <2>1. Append(toServer[s], e) \in Seq(ToServerPackets)
    BY <1>0
  <2> QED BY <1>0, <1>1, <2>1
<1>4. /\ link' \in [Sockets -> {"unused", "up", "down"}] /\ link'[s] = "up"
      /\ \A t \in Sockets \ {s} : link'[t] = link[t]
  BY <1>0 DEF Connects
<1>5. Types'
  <2>1. client' \in [Places -> Programs]
    BY DEF Connects
  <2> QED BY <1>0, <1>3, <1>4, <2>1 DEF Types
<1>6. \A t \in Sockets : t # s => (Open(t)' <=> Open(t)) /\ (Open(t) => client'[t[1]] = client[t[1]])
  <2> SUFFICES ASSUME NEW t \in Sockets, t # s
               PROVE  (Open(t)' <=> Open(t)) /\ (Open(t) => client'[t[1]] = client[t[1]])
    OBVIOUS
  <2>1. CASE t[1] = p
    BY <1>2, <2>1 DEF Open, IMSessionAssumption
  <2>2. CASE t[1] # p
    <3>1. client'[t[1]] = client[t[1]]
      BY <1>0, <2>2, OthersStay
    <3> QED BY <3>1 DEF Open
  <2> QED BY <2>1, <2>2
<1>7. Open(s)' /\ ~Open(s)
  BY <1>2 DEF Open
<1>8. ToSet(toServer'[s]) = {e} /\ ToSet(toClient[s]) = {}
  <2>1. ToSet(toServer'[s]) = ToSet(toServer[s]) \cup {e}
    BY <1>0, <1>3, ToSetAppend
  <2>2. ToSet(<<>>) = {}
    BY DEF ToSet
  <2> QED BY <1>2, <2>1, <2>2
<1>9. ASSUME NEW t \in Sockets PROVE Connection(t)'
  <2>1. CASE t = s
    <3>1. EndsLast(toServer'[s]) /\ ~Ended(toServer'[s]) /\ ~Ended(toClient[s])
      <4>1. ~Ended(toServer[s]) /\ ~Ended(toClient[s])
        BY <1>0, <1>2, EndedFacts
      <4>2. EndsLast(toServer'[s])
        BY <1>0, <1>3, <4>1, EndsLastAppend
      <4> QED BY <1>1, <1>8, <4>1, <4>2 DEF Ended, Ends
    <3> QED BY <1>0, <1>2, <1>4, <1>7, <2>1, <3>1 DEF Connection
  <2>2. CASE t # s
    <3>1. Connection(t) /\ (Open(t)' <=> Open(t))
      BY <1>6, <2>2 DEF IInv, Connections
    <3> QED BY <1>0, <1>3, <1>4, <2>2, <3>1 DEF Connection
  <2> QED BY <2>1, <2>2
<1>10. Clients'
  <2> SUFFICES ASSUME NEW q \in Places PROVE Client(q)' /\ Shown(q)'
    BY DEF Clients
  <2>1. CASE q = p
    BY <2>1 DEF Connects, Shown
  <2>2. CASE q # p
    <3>1. client'[q] = client[q] /\ Client(q) /\ Shown(q)
      BY <1>0, <2>2 DEF Only, IInv, Clients
    <3> QED BY <1>0, <3>1 DEF Client, Shown
  <2> QED BY <2>1, <2>2
<1>11. Sessions'
  BY <1>0 DEF Sessions
<1>12. /\ client'[p].key \notin SessionKeys /\ ~client'[p].verified
       /\ \A q \in Places : client'[q].key \in SessionKeys => client'[q].key = client[q].key
  BY <1>0, KeyKinds DEF Connects, Only
<1>13. \A t \in Sockets : NoMoreKeys(t) /\ NoMoreReplies(toClient'[t], toClient[t])
  BY <1>0, <1>1, <1>3, <1>8, RepliesLess DEF NoMoreKeys
<1>14. \A t \in Sockets : \A k \in SessionKeys : Holds(t, k)' => Holds(t, k)
  <2> SUFFICES ASSUME NEW t \in Sockets, NEW k \in SessionKeys, Holds(t, k)' PROVE Holds(t, k)
    OBVIOUS
  <2>1. CASE t = s
    BY <1>2, <1>12, <1>13, <2>1 DEF Holds, NoMoreKeys, NoMoreReplies
  <2>2. CASE t # s
    BY <1>6, <1>13, <2>2, HoldsKept
  <2> QED BY <2>1, <2>2
<1>15. KeysApart'
  <2>1. KeysApart /\ server'.key = server.key /\ server'.logins = server.logins
    BY <1>0 DEF IInv
  <2> QED BY <1>12, <1>14, <2>1, KeysKept
<1>16. ASSUME NEW t \in Sockets PROVE Replies(t)'
  <2>1. NotYet(t) => NotYet(t)'
    <3>1. CASE t = s
      BY <1>2, <1>12, <3>1 DEF NotYet
    <3>2. CASE t # s
      BY <1>6, <3>2 DEF NotYet
    <3> QED BY <3>1, <3>2
  <2>2. Replies(t) /\ loggedOn'[t] = loggedOn[t]
    BY <1>0 DEF IInv
  <2> QED BY <1>13, <2>1, <2>2, RepliesKept
<1>17. ASSUME NEW k, NoFarewell(k) PROVE NoFarewell(k)'
  BY <1>13, <1>17 DEF NoFarewell, NoMoreKeys
<1>18. ASSUME NEW t \in Sockets PROVE Agreed(t)'
  <2>1. CASE t = s
    BY <1>0, <1>2, <2>1 DEF Agreed
  <2>2. CASE t # s
    <3>1. Agreed(t) /\ toClient[t] \in Seq(ToClientPackets) /\ loggedOn'[t] = loggedOn[t]
      BY <1>0 DEF IInv
    <3>2. link'[t] = "up" => /\ link[t] = "up" /\ client'[t[1]] = client[t[1]] /\ Open(t)
                             /\ NoMoreReplies(toClient'[t], toClient[t])
      BY <1>4, <1>6, <1>13, <2>2 DEF IInv, Connections, Connection
    <3>3. \A u : \A k \in SessionKeys : SignedOn(u, k, t) => SignedOn(u, k, t)'
      BY <1>0, <1>17 DEF SignedOn
    <3> QED BY <3>1, <3>2, <3>3, AgreedKept
  <2> QED BY <2>1, <2>2
<1>19. ASSUME NEW u \in Users PROVE Found(u)'
  <2>1. Found(u) /\ \A t \in Sockets : Minded(t) /\ loggedOn[t] = 1 => Minded(t)'
    BY <1>0, <1>2, <1>3, <1>4 DEF IInv, Minded
  <2> QED BY <1>0, <2>1, FoundKept
<1>20. server.watched[s] = NoUser
  BY <1>0, <1>2 DEF Sessions, Types, ServerStates
<1>21. PresenceTold'
  <2>1. PresenceTold
    BY DEF IInv
  <2> QED BY <1>0, <1>4, <1>20, <2>1 DEF PresenceTold
<1>22. Connections'
  BY <1>9 DEF Connections
<1> QED BY <1>5, <1>22, <1>10, <1>11, <1>15, <1>16, <1>18, <1>19, <1>21 DEF IInv
LEMMA LeavesKeeps ==
  ASSUME IMSessionAssumption, IInv, NEW p \in Places, Leaves(p),
         attempts' \in 0 .. MaxAttempts + MaxReturns
  PROVE  IInv'
<1>0. /\ Types /\ Sessions /\ Only(p)
      /\ toServer \in [Sockets -> Seq(ToServerPackets)]
      /\ toClient \in [Sockets -> Seq(ToClientPackets)]
      /\ toServer' \in [Sockets -> Seq(ToServerPackets)]
      /\ toClient' \in [Sockets -> Seq(ToClientPackets)]
      /\ UNCHANGED <<server, loggedOn, returned>>
  BY DEF IInv, Types, Leaves
<1>1. PICK x : x = client[p].sock
  OBVIOUS
<1>2. x \in Sockets => x[1] = p /\ Open(x)
  <2>1. x \in Sockets => x[1] = p
    BY <1>1 DEF IMSessionAssumption, IInv, Clients, Client, OfPlace
  <2> QED BY <1>1, <2>1 DEF Open
<1>3. Types'
  BY <1>0 DEF Types, Leaves
<1>4. \A t \in Sockets : (Open(t)' <=> Open(t) /\ t # x)
                         /\ (Open(t)' => client'[t[1]] = client[t[1]])
  <2> SUFFICES ASSUME NEW t \in Sockets
               PROVE  (Open(t)' <=> Open(t) /\ t # x) /\ (Open(t)' => client'[t[1]] = client[t[1]])
    OBVIOUS
  <2>1. CASE t[1] = p
    BY <1>1, <2>1 DEF Open, IMSessionAssumption, Leaves
  <2>2. CASE t[1] # p
    <3>1. client'[t[1]] = client[t[1]] /\ t # x
      BY <1>0, <1>2, <2>2, OthersStay
    <3> QED BY <3>1 DEF Open
  <2> QED BY <2>1, <2>2
<1>5. \A t \in Sockets : t # x =>
        /\ link'[t] = link[t] /\ toServer'[t] = toServer[t]
        /\ toClient'[t] = toClient[t] \/ (~Open(t) /\ toClient'[t] = <<>>)
  <2> SUFFICES ASSUME NEW t \in Sockets, t # x
               PROVE  /\ link'[t] = link[t] /\ toServer'[t] = toServer[t]
                      /\ toClient'[t] = toClient[t] \/ (~Open(t) /\ toClient'[t] = <<>>)
    OBVIOUS
  <2>1. /\ link'[t] = link[t] /\ toServer'[t] = toServer[t]
        /\ toClient'[t] = toClient[t] \/ (t[1] = p /\ toClient'[t] = <<>>)
    BY <1>1 DEF Leaves
  <2>2. t[1] = p => ~Open(t)
    BY <1>1 DEF Open
  <2> QED BY <2>1, <2>2
<1>6. x \in Sockets =>
        /\ link'[x] = "down"
        /\ EndsLast(toClient'[x]) /\ \A e \in ToSet(toClient'[x]) : e.type = "disconnected"
        /\ \/ link[x] # "up" /\ toServer'[x] = toServer[x]
           \/ /\ link[x] = "up"
              /\ \E r \in Seq(ToServerPackets) :
                   /\ toServer'[x] = Append(toServer[x] \o r, Disconnected)
                   /\ \A e \in ToSet(r) : e.type = "state" /\ e.key = client[p].key
  BY <1>1 DEF Leaves
\* The queue of the socket that is closed ends.
<1>7. ASSUME x \in Sockets, link[x] = "up"
      PROVE  /\ EndsLast(toServer'[x]) /\ Ended(toServer'[x])
             /\ Disconnected \in ToSet(toServer'[x])
             /\ \A e \in ToSet(toServer'[x]) : e.type = "state" =>
                  e \in ToSet(toServer[x]) \/ e.key = client[p].key
  <2>1. PICK r \in Seq(ToServerPackets) :
          /\ toServer'[x] = Append(toServer[x] \o r, Disconnected)
          /\ \A e \in ToSet(r) : e.type = "state" /\ e.key = client[p].key
    BY <1>6, <1>7
  <2>2. /\ toServer[x] \in Seq(ToServerPackets) /\ ~Ended(toServer[x])
        /\ Disconnected \in ToServerPackets /\ Disconnected.type = "disconnected"
    BY <1>0, <1>7 DEF IInv, Connections, Connection, Disconnected, ToServerPackets
  <2>3. PICK q : q = toServer[x] \o r
    OBVIOUS
  <2>4. q \in Seq(ToServerPackets) /\ ToSet(q) = ToSet(toServer[x]) \cup ToSet(r)
    BY <2>2, <2>3, ConcatFacts, ToSetConcat
  <2>5. ~Ended(q)
    BY <2>1, <2>2, <2>4 DEF Ended, Ends
  <2>6. toServer'[x] = Append(q, Disconnected) /\ EndsLast(Append(q, Disconnected))
    BY <2>1, <2>2, <2>3, <2>4, <2>5, EndsLastAppend
  <2>7. ToSet(toServer'[x]) = ToSet(q) \cup {Disconnected}
    BY <2>2, <2>4, <2>6, ToSetAppend
  <2>8. Ended(toServer'[x])
    BY <2>2, <2>7 DEF Ended, Ends
  <2>9. ASSUME NEW e \in ToSet(toServer'[x]), e.type = "state"
        PROVE  e \in ToSet(toServer[x]) \/ e.key = client[p].key
    BY <2>1, <2>2, <2>4, <2>7, <2>9
  <2> QED BY <2>6, <2>7, <2>8, <2>9
<1>8. ASSUME NEW t \in Sockets PROVE Connection(t)'
  <2>0. Connection(t) /\ loggedOn'[t] = loggedOn[t]
    BY <1>0 DEF IInv, Connections
  <2>1. CASE t = x
    <3>1. link'[t] = "down" /\ link[t] # "unused" /\ ~Open(t)'
      BY <1>2, <1>4, <1>6, <2>0, <2>1 DEF Connection
    <3>2. EndsLast(toClient'[t]) /\ \A e \in ToSet(toClient'[t]) : e.type = "disconnected"
      BY <1>6, <2>1
    <3>3. CASE link[t] = "up"
      <4>1. EndsLast(toServer'[t]) /\ Ended(toServer'[t])
        BY <1>7, <2>1, <3>3
      <4> QED BY <3>1, <3>2, <4>1 DEF Connection
    <3>4. CASE link[t] # "up"
      <4>1. toServer'[t] = toServer[t] /\ link[t] = "down"
        BY <1>0, <1>6, <2>1, <3>1, <3>4 DEF Types
      <4> QED BY <2>0, <3>1, <3>2, <4>1 DEF Connection
    <3> QED BY <3>3, <3>4
  <2>2. CASE t # x
    <3>1. (Open(t)' <=> Open(t)) /\ link'[t] = link[t] /\ toServer'[t] = toServer[t]
      BY <1>4, <1>5, <2>2
    <3>2. CASE toClient'[t] = toClient[t]
      BY <2>0, <3>1, <3>2 DEF Connection
    <3>3. CASE ~Open(t) /\ toClient'[t] = <<>>
      <4>1. EndsLast(<<>>) /\ ToSet(<<>>) = {}
        BY DEF EndsLast, ToSet
      <4> QED BY <2>0, <3>1, <3>3, <4>1 DEF Connection
    <3> QED BY <1>5, <2>2, <3>2, <3>3
  <2> QED BY <2>1, <2>2
<1>9. Clients'
  <2> SUFFICES ASSUME NEW q \in Places PROVE Client(q)' /\ Shown(q)'
    BY DEF Clients
  <2>1. CASE q = p
    BY <2>1 DEF Leaves, Client, Shown
  <2>2. CASE q # p
    <3>1. client'[q] = client[q] /\ Client(q) /\ Shown(q)
      BY <1>0, <2>2 DEF Only, IInv, Clients
    <3> QED BY <1>0, <3>1 DEF Client, Shown
  <2> QED BY <2>1, <2>2
<1>10. Sessions'
  BY <1>0 DEF Sessions
<1>11. \A q \in Places : client'[q].key \in SessionKeys => client'[q].key = client[q].key
  BY <1>0, KeyKinds DEF Leaves, Only
<1>12. \A t \in Sockets : NoMoreReplies(toClient'[t], toClient[t])
  <2> SUFFICES ASSUME NEW t \in Sockets PROVE NoMoreReplies(toClient'[t], toClient[t])
    OBVIOUS
  <2>1. CASE t = x
    <3>1. \A e \in ToSet(toClient'[t]) : e.type # "succeeded"
      BY <1>6, <2>1
    <3>2. toClient'[t] \in Seq(ToClientPackets)
      BY <1>0
    <3>3. OneSuccess(toClient'[t])
      BY <3>1, <3>2, ToSetFacts DEF OneSuccess
    <3> QED BY <3>1, <3>2, <3>3 DEF NoMoreReplies
  <2>2. CASE t # x
    BY <1>0, <1>5, <2>2, RepliesLess
  <2> QED BY <2>1, <2>2
<1>13. \A t \in Sockets : t # x \/ link[t] # "up" => NoMoreKeys(t)
  BY <1>5, <1>6 DEF NoMoreKeys
<1>14. ASSUME NEW t \in Sockets, NEW k \in SessionKeys, Holds(t, k)' PROVE Holds(t, k)
  <2>1. Open(t)' => Open(t) /\ client'[t[1]].key = client[t[1]].key
    BY <1>4
  <2>2. CASE t # x \/ link[t] # "up"
    BY <1>12, <1>13, <1>14, <2>1, <2>2, HoldsKept
  <2>3. CASE t = x /\ link[t] = "up"
    <3>1. /\ ~Open(t)' /\ Open(t) /\ t[1] = p
          /\ \A e \in ToSet(toServer'[t]) : e.type = "state" =>
               e \in ToSet(toServer[t]) \/ e.key = client[p].key
      BY <1>2, <1>4, <1>7, <2>3
    <3>2. ASSUME NEW e \in ToSet(toServer'[t]), e.type = "state", e.key = k PROVE Holds(t, k)
      BY <3>1, <3>2 DEF Holds
    <3>3. ASSUME NEW e \in ToSet(toClient'[t]), e.type = "succeeded", e.key = k PROVE Holds(t, k)
      BY <1>12, <3>3 DEF Holds, NoMoreReplies
    <3> QED BY <1>14, <3>1, <3>2, <3>3 DEF Holds
  <2> QED BY <2>2, <2>3
<1>15. KeysApart'
  <2>1. KeysApart /\ server'.key = server.key /\ server'.logins = server.logins
    BY <1>0 DEF IInv
  <2> QED BY <1>11, <1>14, <2>1, KeysKept
<1>16. ASSUME NEW t \in Sockets PROVE Replies(t)'
  <2>1. NotYet(t) => NotYet(t)'
    BY <1>4 DEF NotYet
  <2>2. Replies(t) /\ loggedOn'[t] = loggedOn[t]
    BY <1>0 DEF IInv
  <2> QED BY <1>12, <2>1, <2>2, RepliesKept
<1>17. ASSUME NEW t \in Sockets, t # x, NEW k \in SessionKeys, Holds(t, k), NoFarewell(k)
       PROVE  NoFarewell(k)'
  <2>1. SUFFICES ASSUME NEW y \in Sockets, NEW e \in ToSet(toServer'[y]), e.type = "state",
                        e.key = k, e.state = "offline"
                 PROVE  FALSE
    BY DEF NoFarewell
  <2>2. e \notin ToSet(toServer[y])
    BY <1>17, <2>1 DEF NoFarewell
  <2>3. y = x /\ link[y] = "up"
    BY <1>13, <2>1, <2>2 DEF NoMoreKeys
  <2>4. client[p].key = k /\ Open(y) /\ y[1] = p
    BY <1>2, <1>7, <2>1, <2>2, <2>3
  <2>5. Holds(y, k)
    BY <2>4 DEF Holds
  <2> QED BY <1>17, <2>3, <2>5 DEF IInv, KeysApart
<1>18. ASSUME NEW t \in Sockets PROVE Agreed(t)'
  <2>1. CASE t = x
    <3>1. link'[t] # "up"
      BY <1>6, <2>1
    <3> QED BY <3>1 DEF Agreed
  <2>2. CASE t # x
    <3>1. Agreed(t) /\ toClient[t] \in Seq(ToClientPackets) /\ loggedOn'[t] = loggedOn[t]
      BY <1>0 DEF IInv
    <3>2. link'[t] = "up" => /\ link[t] = "up" /\ client'[t[1]] = client[t[1]] /\ Open(t)
                             /\ NoMoreReplies(toClient'[t], toClient[t])
      BY <1>4, <1>5, <1>12, <2>2 DEF IInv, Connections, Connection
    <3>3. \A u : \A k \in SessionKeys : Holds(t, k) /\ SignedOn(u, k, t) => SignedOn(u, k, t)'
      BY <1>0, <1>17, <2>2 DEF SignedOn
    <3> QED BY <3>1, <3>2, <3>3, AgreedKept
  <2> QED BY <2>1, <2>2
<1>19. ASSUME NEW t \in Sockets, Minded(t) PROVE Minded(t)'
  <2>1. CASE t = x /\ link[t] = "up"
    BY <1>7, <2>1 DEF Minded
  <2>2. CASE t # x \/ link[t] # "up"
    <3>1. toServer'[t] = toServer[t] /\ (link[t] = "up" => link'[t] = "up")
      BY <1>5, <1>6, <2>2
    <3> QED BY <1>19, <3>1 DEF Minded
  <2> QED BY <2>1, <2>2
<1>20. ASSUME NEW u \in Users PROVE Found(u)'
  <2>1. Found(u)
    BY DEF IInv
  <2> QED BY <1>0, <1>19, <2>1, FoundKept
<1>21. PresenceTold'
  <2>1. PresenceTold /\ \A t \in Sockets : link'[t] = "up" => link[t] = "up"
    BY <1>5, <1>6 DEF IInv
  <2> QED BY <1>0, <2>1 DEF PresenceTold
<1>22. Connections'
  BY <1>8 DEF Connections
<1> QED BY <1>3, <1>22, <1>9, <1>10, <1>15, <1>16, <1>18, <1>20, <1>21 DEF IInv
LEMMA IgnoresKeeps ==
  ASSUME IMSessionAssumption, IInv, NEW s \in Sockets, Ignores(s),
         attempts' \in 0 .. MaxAttempts + MaxReturns
  PROVE  IInv'
<1>0. /\ Types /\ Sessions /\ toClient \in [Sockets -> Seq(ToClientPackets)]
      /\ UNCHANGED <<link, toServer, server, client, loggedOn, returned>>
      /\ ~Open(s) /\ toClient[s] # <<>> /\ Head(toClient[s]).type = "disconnected"
  BY DEF IInv, Types, Ignores, Takes
<1>1. toClient' = [toClient EXCEPT ![s] = Tail(@)]
  BY DEF Ignores, Takes
<1>2. /\ toClient' \in [Sockets -> Seq(ToClientPackets)] /\ toClient'[s] = Tail(toClient[s])
      /\ \A t \in Sockets \ {s} : toClient'[t] = toClient[t]
  <2>1. Tail(toClient[s]) \in Seq(ToClientPackets)
    BY <1>0, TailFacts
  <2> QED BY <1>0, <1>1, <2>1
<1>3. Types'
  BY <1>0, <1>2 DEF Types
<1>4. \A t : Open(t)' <=> Open(t)
  BY <1>0 DEF Open
<1>5. ASSUME NEW t \in Sockets PROVE Connection(t)'
  <2>0. Connection(t)
    BY DEF IInv, Connections
  <2>1. CASE t = s
    <3>1. EndsLast(Tail(toClient[s])) /\ link[s] = "down"
      BY <1>0, <2>0, <2>1, EndsLastTail DEF Connection, Types
    <3>2. ToSet(Tail(toClient[s])) \subseteq ToSet(toClient[s])
      BY <1>0, ToSetTail
    <3> QED BY <1>0, <1>2, <1>4, <2>0, <2>1, <3>1, <3>2 DEF Connection
  <2>2. CASE t # s
    BY <1>0, <1>2, <1>4, <2>0, <2>2 DEF Connection
  <2> QED BY <2>1, <2>2
<1>6. Clients' /\ Sessions' /\ PresenceTold'
  <2>1. Clients /\ Sessions /\ PresenceTold
    BY DEF IInv
  <2> QED BY <1>0, <2>1 DEF Clients, Client, Shown, Sessions, PresenceTold
<1>7. \A t \in Sockets : NoMoreReplies(toClient'[t], toClient[t])
  BY <1>0, <1>2, RepliesLess
<1>8. \A t \in Sockets : NoMoreKeys(t) /\ (NotYet(t) => NotYet(t)')
  BY <1>0, <1>4 DEF NoMoreKeys, NotYet
<1>9. \A t \in Sockets : \A k \in SessionKeys : Holds(t, k)' => Holds(t, k)
  BY <1>0, <1>4, <1>7, <1>8, HoldsKept
<1>10. KeysApart'
  <2>1. KeysApart
    BY DEF IInv
  <2> QED BY <1>0, <1>9, <2>1, KeysKept
<1>11. \A t \in Sockets : Replies(t)'
  BY <1>0, <1>7, <1>8, RepliesKept DEF IInv
<1>12. ASSUME NEW t \in Sockets PROVE Agreed(t)'
  <2>1. Agreed(t) /\ toClient[t] \in Seq(ToClientPackets) /\ loggedOn'[t] = loggedOn[t]
    BY <1>0 DEF IInv
  <2>2. link'[t] = "up" => /\ link[t] = "up" /\ client'[t[1]] = client[t[1]] /\ Open(t)
                           /\ NoMoreReplies(toClient'[t], toClient[t])
    BY <1>0, <1>7 DEF IInv, Connections, Connection
  <2>3. \A u : \A k \in SessionKeys : SignedOn(u, k, t) => SignedOn(u, k, t)'
    BY <1>0 DEF SignedOn, NoFarewell
  <2> QED BY <2>1, <2>2, <2>3, AgreedKept
<1>13. ASSUME NEW u \in Users PROVE Found(u)'
  <2>1. Found(u)
    BY DEF IInv
  <2> QED BY <1>0, <2>1 DEF Found
<1>14. Connections'
  BY <1>5 DEF Connections
<1> QED BY <1>3, <1>6, <1>10, <1>11, <1>12, <1>13, <1>14 DEF IInv

-----------------------------------------------------------------------------
(* The network fails, and the server is started again                      *)

\* What an end still gets of its queue, and that the socket is lost.
LEMMA LostQueue ==
  ASSUME NEW S, NEW q \in Seq(S), ~Ended(q), NEW p \in Prefixes(q), Disconnected \in S
  PROVE  /\ Append(p, Disconnected) \in Seq(S)
         /\ EndsLast(Append(p, Disconnected)) /\ Ended(Append(p, Disconnected))
         /\ Disconnected \in ToSet(Append(p, Disconnected))
         /\ \A e \in ToSet(Append(p, Disconnected)) : e \in ToSet(q) \/ e = Disconnected
<1>1. p \in Seq(S) /\ ~Ended(p) /\ ToSet(p) \subseteq ToSet(q)
  BY PrefixFacts, EndedFacts, ToSetPrefix
<1>2. ToSet(Append(p, Disconnected)) = ToSet(p) \cup {Disconnected}
  BY <1>1, ToSetAppend
<1>3. Append(p, Disconnected) \in Seq(S) /\ EndsLast(Append(p, Disconnected))
  BY <1>1, AppendFacts, EndsLastAppend
<1>4. Ended(Append(p, Disconnected))
  BY <1>2 DEF Ended, Ends, Disconnected
<1> QED BY <1>1, <1>2, <1>3, <1>4

LEMMA RepliesLost ==
  ASSUME NEW r \in Seq(ToClientPackets), NEW p \in Prefixes(r)
  PROVE  NoMoreReplies(Append(p, Disconnected), r)
<1>1. NoMoreReplies(p, r)
  BY RepliesLess
<1>2. Disconnected \in ToClientPackets /\ Disconnected.type # "succeeded"
  BY DEF Disconnected, ToClientPackets
<1>3. NoMoreReplies(Append(p, Disconnected), p)
  BY <1>1, <1>2, RepliesBeforeOne DEF NoMoreReplies
<1> QED BY <1>1, <1>3 DEF NoMoreReplies

LEMMA LostKeeps ==
  ASSUME IMSessionAssumption, IInv, NEW s \in Sockets, ConnectionLost(s),
         attempts' \in 0 .. MaxAttempts + MaxReturns
  PROVE  IInv'
<1>0. /\ Types /\ Sessions /\ toClient \in [Sockets -> Seq(ToClientPackets)]
      /\ toServer \in [Sockets -> Seq(ToServerPackets)]
      /\ link \in [Sockets -> {"unused", "up", "down"}]
      /\ UNCHANGED <<server, client, loggedOn, returned>> /\ link[s] = "up"
  BY DEF IInv, Types, ConnectionLost
<1>1. Open(s) /\ ~Ended(toServer[s]) /\ ~Ended(toClient[s])
  BY <1>0 DEF IInv, Connections, Connection
<1>2. PICK q \in Prefixes(toServer[s]) : toServer' = [toServer EXCEPT ![s] = Append(q, Disconnected)]
  BY DEF ConnectionLost
<1>3. PICK r \in Prefixes(toClient[s]) : toClient' = [toClient EXCEPT ![s] = Append(r, Disconnected)]
  BY DEF ConnectionLost
<1>4. Disconnected \in ToServerPackets /\ Disconnected \in ToClientPackets
      /\ Disconnected.type = "disconnected"
  BY DEF Disconnected, ToServerPackets, ToClientPackets
<1>5. PICK tos : tos = Append(q, Disconnected)
  OBVIOUS
<1>6. PICK toc : toc = Append(r, Disconnected)
  OBVIOUS
<1>7. /\ tos \in Seq(ToServerPackets) /\ EndsLast(tos) /\ Ended(tos) /\ Disconnected \in ToSet(tos)
      /\ \A e \in ToSet(tos) : e \in ToSet(toServer[s]) \/ e = Disconnected
  BY <1>0, <1>1, <1>4, <1>5, LostQueue
<1>8. /\ toc \in Seq(ToClientPackets) /\ EndsLast(toc) /\ Ended(toc)
      /\ NoMoreReplies(toc, toClient[s])
  BY <1>0, <1>1, <1>4, <1>6, LostQueue, RepliesLost
<1>9. /\ toServer' \in [Sockets -> Seq(ToServerPackets)] /\ toServer'[s] = tos
      /\ \A t \in Sockets \ {s} : toServer'[t] = toServer[t]
  BY <1>0, <1>2, <1>5, <1>7
<1>10. /\ toClient' \in [Sockets -> Seq(ToClientPackets)] /\ toClient'[s] = toc
       /\ \A t \in Sockets \ {s} : toClient'[t] = toClient[t]
  BY <1>0, <1>3, <1>6, <1>8
<1>11. /\ link' \in [Sockets -> {"unused", "up", "down"}] /\ link'[s] = "down"
       /\ \A t \in Sockets \ {s} : link'[t] = link[t]
  BY <1>0 DEF ConnectionLost
<1>12. Types'
  BY <1>0, <1>9, <1>10, <1>11 DEF Types
<1>13. \A t : Open(t)' <=> Open(t)
  BY <1>0 DEF Open
<1>14. ASSUME NEW t \in Sockets PROVE Connection(t)'
  <2>0. Connection(t)
    BY DEF IInv, Connections
  <2>1. CASE t = s
    BY <1>1, <1>7, <1>8, <1>9, <1>10, <1>11, <1>13, <2>1 DEF Connection
  <2>2. CASE t # s
    BY <1>0, <1>9, <1>10, <1>11, <1>13, <2>0, <2>2 DEF Connection
  <2> QED BY <2>1, <2>2
<1>15. Clients' /\ Sessions' /\ PresenceTold'
  <2>1. Clients /\ Sessions /\ PresenceTold /\ \A t \in Sockets : link'[t] = "up" => link[t] = "up"
    BY <1>0, <1>11 DEF IInv
  <2> QED BY <1>0, <2>1 DEF Clients, Client, Shown, Sessions, PresenceTold
<1>16. \A t \in Sockets : NoMoreReplies(toClient'[t], toClient[t])
  BY <1>0, <1>8, <1>10, RepliesLess
<1>17. \A t \in Sockets : NoMoreKeys(t) /\ (NotYet(t) => NotYet(t)')
  BY <1>0, <1>4, <1>7, <1>9, <1>13 DEF NoMoreKeys, NotYet
<1>18. \A t \in Sockets : \A k \in SessionKeys : Holds(t, k)' => Holds(t, k)
  BY <1>0, <1>13, <1>16, <1>17, HoldsKept
<1>19. KeysApart'
  <2>1. KeysApart
    BY DEF IInv
  <2> QED BY <1>0, <1>18, <2>1, KeysKept
<1>20. \A t \in Sockets : Replies(t)'
  BY <1>0, <1>16, <1>17, RepliesKept DEF IInv
<1>21. ASSUME NEW t \in Sockets PROVE Agreed(t)'
  <2>1. Agreed(t) /\ toClient[t] \in Seq(ToClientPackets) /\ loggedOn'[t] = loggedOn[t]
    BY <1>0 DEF IInv
  <2>2. link'[t] = "up" => /\ link[t] = "up" /\ client'[t[1]] = client[t[1]] /\ Open(t)
                           /\ NoMoreReplies(toClient'[t], toClient[t])
    BY <1>0, <1>11, <1>16 DEF IInv, Connections, Connection
  <2>3. \A u : \A k \in SessionKeys : SignedOn(u, k, t) => SignedOn(u, k, t)'
    BY <1>0, <1>17 DEF SignedOn, NoFarewell, NoMoreKeys
  <2> QED BY <2>1, <2>2, <2>3, AgreedKept
<1>22. ASSUME NEW u \in Users PROVE Found(u)'
  <2>1. Found(u) /\ \A t \in Sockets : Minded(t) => Minded(t)'
    BY <1>7, <1>9, <1>11 DEF IInv, Minded
  <2> QED BY <1>0, <2>1, FoundKept
<1>23. Connections'
  BY <1>14 DEF Connections
<1> QED BY <1>12, <1>15, <1>19, <1>20, <1>21, <1>22, <1>23 DEF IInv

LEMMA RestartKeeps ==
  ASSUME IMSessionAssumption, IInv, ServerRestart,
         attempts' \in 0 .. MaxAttempts + MaxReturns
  PROVE  IInv'
<1>0. /\ Types /\ toClient \in [Sockets -> Seq(ToClientPackets)]
      /\ link \in [Sockets -> {"unused", "up", "down"}] /\ server \in ServerStates
      /\ UNCHANGED <<client, loggedOn>> /\ returned' = {}
  BY DEF IInv, Types, ServerRestart
<1>1. Disconnected \in ToClientPackets /\ Disconnected.type = "disconnected"
  BY DEF Disconnected, ToClientPackets
<1>2. /\ server' \in ServerStates /\ server'.logins = server.logins
      /\ \A u \in Users : server'.state[u] = "offline" /\ server'.sock[u] = NoSocket
                          /\ server'.key[u] = FirstKey
      /\ \A s \in Sockets : server'.watched[s] = NoUser
  <2>1. server' = [state   |-> [u \in Users |-> "offline"],
                   sock    |-> [u \in Users |-> NoSocket],
                   key     |-> [u \in Users |-> FirstKey],
                   watched |-> [s \in Sockets |-> NoUser],
                   told    |-> [s \in Sockets |-> [u \in Users |-> "offline"]],
                   logins  |-> server.logins]
    BY DEF ServerRestart, ServerInit
  <2> QED BY <1>0, <2>1 DEF ServerStates, States
<1>3. \A s \in Sockets : toServer'[s] = <<>>
  BY DEF ServerRestart
<1>4. \A s \in Sockets : link'[s] = IF link[s] = "up" THEN "down" ELSE link[s]
  BY DEF ServerRestart, Up
<1>5. \A s \in Sockets :
        toClient'[s] = IF link[s] = "up" THEN Append(toClient[s], Disconnected) ELSE toClient[s]
  BY DEF ServerRestart, Up
<1>6. \A s \in Sockets : NoMoreReplies(toClient'[s], toClient[s])
  BY <1>0, <1>1, <1>5, RepliesBeforeOne, RepliesLess
<1>7. /\ toServer' \in [Sockets -> Seq(ToServerPackets)]
      /\ toClient' \in [Sockets -> Seq(ToClientPackets)]
      /\ link' \in [Sockets -> {"unused", "up", "down"}]
  <2>1. toServer' \in [Sockets -> Seq(ToServerPackets)]
    BY DEF ServerRestart
  <2>2. \A s \in Sockets : toClient'[s] \in Seq(ToClientPackets)
    BY <1>6 DEF NoMoreReplies
  <2>3. toClient' \in [Sockets -> Seq(ToClientPackets)]
    BY <2>2 DEF ServerRestart
  <2>4. link' \in [Sockets -> {"unused", "up", "down"}]
    BY <1>0 DEF ServerRestart
  <2> QED BY <2>1, <2>3, <2>4
<1>8. Types'
  BY <1>0, <1>2, <1>7 DEF Types
<1>9. \A t : Open(t)' <=> Open(t)
  BY <1>0 DEF Open
<1>10. EndsLast(<<>>) /\ ToSet(<<>>) = {}
  BY DEF EndsLast, ToSet
<1>11. ASSUME NEW t \in Sockets PROVE Connection(t)'
  <2>0. Connection(t)
    BY DEF IInv, Connections
  <2>1. CASE link[t] = "up"
    <3>1. Open(t) /\ ~Ended(toClient[t])
      BY <2>0, <2>1 DEF Connection
    <3>2. EndsLast(Append(toClient[t], Disconnected)) /\ Ended(Append(toClient[t], Disconnected))
      <4>1. ToSet(Append(toClient[t], Disconnected)) = ToSet(toClient[t]) \cup {Disconnected}
        BY <1>0, <1>1, ToSetAppend
      <4>2. EndsLast(Append(toClient[t], Disconnected))
        BY <1>0, <1>1, <3>1, EndsLastAppend
      <4> QED BY <1>1, <4>1, <4>2 DEF Ended, Ends
    <3> QED BY <1>3, <1>4, <1>5, <1>9, <1>10, <2>1, <3>1, <3>2 DEF Connection
  <2>2. CASE link[t] # "up"
    <3>1. link'[t] = link[t] /\ toClient'[t] = toClient[t] /\ toServer'[t] = <<>>
      BY <1>3, <1>4, <1>5, <2>2
    <3> QED BY <1>0, <1>9, <1>10, <2>0, <2>2, <3>1 DEF Connection
  <2> QED BY <2>1, <2>2
<1>12. Clients'
  BY <1>0 DEF IInv, Clients, Client, Shown
<1>13. Sessions' /\ PresenceTold' /\ \A u \in Users : Found(u)'
  BY <1>2 DEF Sessions, PresenceTold, Found
<1>14. \A t \in Sockets : NoMoreKeys(t) /\ (NotYet(t) => NotYet(t)')
  BY <1>0, <1>3, <1>9, <1>10 DEF NoMoreKeys, NotYet
<1>15. \A t \in Sockets : \A k \in SessionKeys : Holds(t, k)' => Holds(t, k)
  BY <1>0, <1>6, <1>9, <1>14, HoldsKept
<1>16. KeysApart'
  <2>0. KeysApart /\ \A n \in Nat \ {0} : SessionKey(n) \in SessionKeys
    BY KeyKinds DEF IInv
  <2>1. \A u \in Users : \A n \in Nat \ {0} : server'.key[u] # SessionKey(n)
    BY <1>2, <2>0, KeyKinds
  <2>2. \A p \in Places : \A n \in Nat \ {0} : client'[p].key = SessionKey(n) => n <= server.logins
    BY <1>0, <2>0 DEF KeysApart
  <2>3. \A s \in Sockets : \A n \in Nat \ {0} : Holds(s, SessionKey(n))' => n <= server.logins
    BY <1>15, <2>0 DEF KeysApart
  <2>4. \A s, t \in Sockets : \A k \in SessionKeys : Holds(s, k)' /\ Holds(t, k)' => s = t
    BY <1>15, <2>0 DEF KeysApart
  <2> QED BY <1>2, <2>1, <2>2, <2>3, <2>4 DEF KeysApart
<1>17. \A t \in Sockets : Replies(t)'
  BY <1>0, <1>6, <1>14, RepliesKept DEF IInv
<1>18. \A t \in Sockets : Agreed(t)'
  BY <1>4 DEF Agreed
<1>19. Connections'
  BY <1>11 DEF Connections
<1> QED BY <1>8, <1>12, <1>13, <1>16, <1>17, <1>18, <1>19 DEF IInv
-----------------------------------------------------------------------------
(* The server answers, or drops what it gets                               *)

\* The queues once the first event of that of s has been handled.
Handled(s) ==
  /\ toServer' \in [Sockets -> Seq(ToServerPackets)]
  /\ \A t \in Sockets :
       /\ ToSet(toServer'[t]) \subseteq ToSet(toServer[t]) /\ EndsLast(toServer'[t])
       /\ toServer[t] = <<>> => toServer'[t] = <<>>
       /\ Ended(toServer[t]) /\ toServer'[t] # <<>> => Ended(toServer'[t])
       /\ Disconnected \in ToSet(toServer[t]) =>
            \/ Disconnected \in ToSet(toServer'[t])
            \/ t = s /\ Head(toServer[s]).type = "disconnected"

LEMMA HandlesEffect ==
  ASSUME Types, Connections, NEW s \in Sockets, NEW types, Handles(s, types)
  PROVE  Handled(s)
<1>0. /\ toServer \in [Sockets -> Seq(ToServerPackets)] /\ toServer[s] # <<>>
      /\ toServer' = [toServer EXCEPT ![s] = Tail(@)]
  BY DEF Types, Handles
<1>1. PICK q : q = Tail(toServer[s])
  OBVIOUS
<1>2. /\ q \in Seq(ToServerPackets) /\ ToSet(toServer[s]) = {Head(toServer[s])} \cup ToSet(q)
      /\ EndsLast(q) /\ (Head(toServer[s]).type = "disconnected" => q = <<>>)
      /\ Head(toServer[s]) \in ToServerPackets
      /\ Ended(toServer[s]) <=> Ended(q) \/ Head(toServer[s]).type \in Ends
  <2>1. EndsLast(toServer[s])
    BY DEF Connections, Connection
  <2> QED BY <1>0, <1>1, <2>1, TailFacts, ToSetTail, EndsLastTail, EndedFacts
<1>3. /\ toServer' \in [Sockets -> Seq(ToServerPackets)] /\ toServer'[s] = q
      /\ \A t \in Sockets \ {s} : toServer'[t] = toServer[t]
  BY <1>0, <1>1, <1>2
<1>4. Disconnected.type = "disconnected" /\ Head(toServer[s]).type # "kicked"
  BY <1>2, ToServerKinds DEF Disconnected
<1>5. ASSUME NEW t \in Sockets
      PROVE  /\ ToSet(toServer'[t]) \subseteq ToSet(toServer[t]) /\ EndsLast(toServer'[t])
             /\ toServer[t] = <<>> => toServer'[t] = <<>>
             /\ Ended(toServer[t]) /\ toServer'[t] # <<>> => Ended(toServer'[t])
             /\ Disconnected \in ToSet(toServer[t]) =>
                  \/ Disconnected \in ToSet(toServer'[t])
                  \/ t = s /\ Head(toServer[s]).type = "disconnected"
  <2>1. CASE t = s
    BY <1>0, <1>2, <1>3, <1>4, <2>1 DEF Ends
  <2>2. CASE t # s
    BY <1>3, <2>2 DEF Connections, Connection
  <2> QED BY <2>1, <2>2
<1> QED BY <1>3, <1>5 DEF Handled

\* What is sent over a socket that works.
Answered ==
  /\ toClient' \in [Sockets -> Seq(ToClientPackets)]
  /\ \A t \in Sockets :
       \/ toClient'[t] = toClient[t]
       \/ /\ link[t] = "up"
          /\ \E e \in ToClientPackets :
               e.type \notin Ends \cup {"succeeded"} /\ toClient'[t] = Append(toClient[t], e)

LEMMA HandledConnections ==
  ASSUME Types, Connections, NEW s \in Sockets, Handled(s), Answered,
         UNCHANGED <<link, client, loggedOn>>
  PROVE  Connections'
<1> SUFFICES ASSUME NEW t \in Sockets PROVE Connection(t)'
  BY DEF Connections
<1>0. /\ Connection(t) /\ toServer[t] \in Seq(ToServerPackets)
      /\ toClient[t] \in Seq(ToClientPackets) /\ (Open(t)' <=> Open(t))
  BY DEF Connections, Types, Open
<1>1. /\ ToSet(toServer'[t]) \subseteq ToSet(toServer[t]) /\ EndsLast(toServer'[t])
      /\ toServer[t] = <<>> => toServer'[t] = <<>>
      /\ Ended(toServer[t]) /\ toServer'[t] # <<>> => Ended(toServer'[t])
  BY DEF Handled
<1>2. Ended(toServer'[t]) => Ended(toServer[t])
  BY <1>1 DEF Ended
<1>3. CASE toClient'[t] = toClient[t]
  BY <1>0, <1>1, <1>2, <1>3 DEF Connection
<1>4. CASE toClient'[t] # toClient[t]
  <2>1. PICK e \in ToClientPackets : e.type \notin Ends /\ toClient'[t] = Append(toClient[t], e)
    BY <1>4 DEF Answered
  <2>2. link[t] = "up" /\ ~Ended(toClient[t])
    BY <1>0, <1>4 DEF Answered, Connection
  <2>3. EndsLast(toClient'[t]) /\ ~Ended(toClient'[t])
    BY <1>0, <2>1, <2>2, EndsLastAppend, EndedFacts
  <2> QED BY <1>0, <1>1, <1>2, <2>2, <2>3 DEF Connection
<1> QED BY <1>3, <1>4

LEMMA AnsweredReplies ==
  ASSUME Types, Answered, NEW t \in Sockets
  PROVE  NoMoreReplies(toClient'[t], toClient[t])
<1>0. toClient[t] \in Seq(ToClientPackets)
  BY DEF Types
<1>1. CASE toClient'[t] = toClient[t]
  BY <1>0, <1>1, RepliesLess
<1>2. CASE toClient'[t] # toClient[t]
  BY <1>0, <1>2, RepliesBeforeOne DEF Answered
<1> QED BY <1>1, <1>2

LEMMA AnswersOrDrops ==
  ASSUME IMSessionAssumption, IInv, NEW s \in Sockets, Answers(s) \/ Drops(s)
  PROVE  Handled(s) /\ Answered
<1>0. Types /\ Connections /\ toClient \in [Sockets -> Seq(ToClientPackets)]
  BY DEF IInv, Types
<1>1. Handles(s, {"request", "login"}) \/ Handles(s, {"state"}) \/ Handles(s, {"disconnected"})
  BY DEF Answers, Drops
<1>2. Handled(s)
  BY <1>0, <1>1, HandlesEffect
<1>3. CASE UNCHANGED toClient
  BY <1>0, <1>2, <1>3 DEF Answered
<1>4. CASE ~UNCHANGED toClient
  <2>1. PICK e \in ToClientPackets :
          e.type \in {"can", "failed"} /\ toClient' = [toClient EXCEPT ![s] = Append(@, e)]
    BY <1>4 DEF Answers, Drops
  <2>2. link[s] = "up"
    BY <1>4 DEF Answers, Drops
  <2>3. Append(toClient[s], e) \in Seq(ToClientPackets)
    BY <1>0, AppendFacts
  <2>4. /\ toClient' \in [Sockets -> Seq(ToClientPackets)]
        /\ toClient'[s] = Append(toClient[s], e)
        /\ \A t \in Sockets \ {s} : toClient'[t] = toClient[t]
    BY <1>0, <2>1, <2>3
  <2> QED BY <1>2, <2>1, <2>2, <2>4 DEF Answered, Ends
<1> QED BY <1>3, <1>4

LEMMA AnswersKeeps ==
  ASSUME IMSessionAssumption, IInv, NEW s \in Sockets, Answers(s) \/ Drops(s),
         attempts' \in 0 .. MaxAttempts + MaxReturns
  PROVE  IInv'
<1>0. Types /\ Connections /\ Sessions /\ UNCHANGED <<link, server, client, loggedOn, returned>>
  BY DEF IInv, Answers, Drops
<1>1. Handled(s) /\ Answered
  BY AnswersOrDrops
<1>2. Types'
  BY <1>0, <1>1 DEF Types, Handled, Answered
<1>3. Connections'
  BY <1>0, <1>1, HandledConnections
<1>4. Clients' /\ Sessions' /\ PresenceTold'
  <2>1. Clients /\ Sessions /\ PresenceTold
    BY DEF IInv
  <2> QED BY <1>0, <2>1 DEF Clients, Client, Shown, Sessions, PresenceTold
<1>5. \A t \in Sockets : NoMoreReplies(toClient'[t], toClient[t])
  BY <1>0, <1>1, AnsweredReplies
<1>6. \A t \in Sockets : NoMoreKeys(t) /\ (NotYet(t) => NotYet(t)') /\ (Open(t)' <=> Open(t))
  BY <1>0, <1>1 DEF NoMoreKeys, NotYet, Handled, Open
<1>7. \A t \in Sockets : \A k \in SessionKeys : Holds(t, k)' => Holds(t, k)
  BY <1>0, <1>5, <1>6, HoldsKept
<1>8. KeysApart'
  <2>1. KeysApart
    BY DEF IInv
  <2> QED BY <1>0, <1>7, <2>1, KeysKept
<1>9. \A t \in Sockets : Replies(t)'
  BY <1>0, <1>5, <1>6, RepliesKept DEF IInv
<1>10. ASSUME NEW t \in Sockets PROVE Agreed(t)'
  <2>1. Agreed(t) /\ toClient[t] \in Seq(ToClientPackets) /\ loggedOn'[t] = loggedOn[t]
    BY <1>0 DEF IInv, Types
  <2>2. link'[t] = "up" => /\ link[t] = "up" /\ client'[t[1]] = client[t[1]] /\ Open(t)
                           /\ NoMoreReplies(toClient'[t], toClient[t])
    BY <1>0, <1>5 DEF Connections, Connection
  <2>3. \A u : \A k \in SessionKeys : SignedOn(u, k, t) => SignedOn(u, k, t)'
    BY <1>0, <1>6 DEF SignedOn, NoFarewell, NoMoreKeys
  <2> QED BY <2>1, <2>2, <2>3, AgreedKept
<1>11. Head(toServer[s]).type = "disconnected" => server.watched[s] = NoUser
  BY DEF Answers, Drops, Handles
<1>12. ASSUME NEW u \in Users PROVE Found(u)'
  <2>1. Found(u) /\ u # NoUser
    BY DEF IInv, IMSessionAssumption
  <2>2. ASSUME NEW t \in Sockets, Minded(t), server.watched[t] = u PROVE Minded(t)'
    BY <1>0, <1>1, <1>11, <2>1, <2>2 DEF Minded, Handled
  <2> QED BY <1>0, <2>1, <2>2, FoundKept
<1> QED BY <1>2, <1>3, <1>4, <1>8, <1>9, <1>10, <1>12 DEF IInv

-----------------------------------------------------------------------------
(* The state of a user changes                                             *)

LEMMA ChangesKeeps ==
  ASSUME IMSessionAssumption, IInv, NEW s \in Sockets, NEW u \in Users, NEW st \in States,
         Changes(s, u, st), attempts' \in 0 .. MaxAttempts + MaxReturns
  PROVE  IInv'
<1>0. /\ Types /\ Connections /\ Sessions /\ server \in ServerStates
      /\ toClient \in [Sockets -> Seq(ToClientPackets)]
      /\ UNCHANGED <<link, toClient, client, loggedOn>>
  BY DEF IInv, Types, Changes
<1>1. /\ \/ Handles(s, {"state"}) /\ Head(toServer[s]).key = server.key[u] /\ st = Head(toServer[s]).state
         \/ Handles(s, {"disconnected"}) /\ u = server.watched[s] /\ st = "offline"
      /\ returned \subseteq returned' /\ returned' \subseteq returned \cup {u}
      /\ st # "offline" /\ server.state[u] = "offline" => u \in returned'
  BY DEF Changes, Handles
<1>2. Handled(s) /\ Answered
  BY <1>0, <1>1, HandlesEffect DEF Answered
<1>3. Turned(server', server, Up, u, st)
  BY <1>0, StatusChangedEffect DEF Changes
<1>4. /\ server' \in ServerStates /\ server'.sock = server.sock /\ server'.key = server.key
      /\ server'.logins = server.logins
      /\ server'.state[u] = st /\ \A v \in Users \ {u} : server'.state[v] = server.state[v]
  <2>1. server.state \in [Users -> States]
    BY <1>0 DEF ServerStates
  <2> QED BY <1>3, <2>1 DEF Turned
<1>5. Types'
  BY <1>0, <1>1, <1>2, <1>4 DEF Types, Handled
<1>6. Connections'
  BY <1>0, <1>2, HandledConnections
<1>7. Clients'
  BY <1>0 DEF IInv, Clients, Client, Shown
\* Only a user who has logged in comes back.
<1>8. st # "offline" => server.sock[u] # NoSocket
  <2> SUFFICES ASSUME st # "offline", server.sock[u] = NoSocket PROVE FALSE
    OBVIOUS
  <2>1. /\ toServer[s] # <<>> /\ Head(toServer[s]).type = "state"
        /\ Head(toServer[s]).key = server.key[u]
    BY <1>1 DEF Handles
  <2>2. server.key[u] = FirstKey
    BY <1>0 DEF Sessions
  <2>3. Head(toServer[s]).key \in ClientKeys
    BY <1>0, <2>1, HandlesPacket, ToServerKinds
  <2> QED BY <2>1, <2>2, <2>3, KeyKinds
<1>9. ASSUME NEW t \in Sockets, server'.watched[t] # NoUser
      PROVE  /\ server.watched[t] # NoUser /\ server'.watched[t] = server.watched[t]
             /\ server'.state[server'.watched[t]] # "offline"
  <2>1. /\ server'.watched[t] = server.watched[t] /\ ~(st = "offline" /\ t = server.sock[u])
    BY <1>3, <1>9 DEF Turned
  <2>2. server.watched[t] # NoUser /\ server.watched[t] \in Users
    BY <1>0, <1>9, <2>1 DEF ServerStates
  <2>3. server.sock[server.watched[t]] = t /\ server.state[server.watched[t]] # "offline"
    BY <1>0, <2>2 DEF Sessions
  <2> QED BY <1>4, <2>1, <2>2, <2>3
<1>10. Sessions'
  <2>1. \A t \in Sockets : server'.watched[t] # NoUser =>
          server'.sock[server'.watched[t]] = t /\ server'.state[server'.watched[t]] # "offline"
    BY <1>0, <1>4, <1>9 DEF Sessions
  <2>2. \A v \in Users : server'.sock[v] = NoSocket =>
          server'.state[v] = "offline" /\ server'.key[v] = FirstKey
    BY <1>0, <1>4, <1>8 DEF Sessions
  <2> QED BY <1>0, <1>4, <2>1, <2>2 DEF Sessions
<1>11. \A t \in Sockets : NoMoreReplies(toClient'[t], toClient[t])
  BY <1>0, RepliesLess
<1>12. \A t \in Sockets : NoMoreKeys(t) /\ (NotYet(t) => NotYet(t)') /\ (Open(t)' <=> Open(t))
  BY <1>0, <1>2 DEF NoMoreKeys, NotYet, Handled, Open
<1>13. \A t \in Sockets : \A k \in SessionKeys : Holds(t, k)' => Holds(t, k)
  BY <1>0, <1>11, <1>12, HoldsKept
<1>14. KeysApart'
  <2>1. KeysApart
    BY DEF IInv
  <2> QED BY <1>0, <1>4, <1>13, <2>1, KeysKept
<1>15. \A t \in Sockets : Replies(t)'
  BY <1>0, <1>11, <1>12, RepliesKept DEF IInv
\* No client whose connection works says so, or has its loss handled.
<1>16. ASSUME NEW t \in Sockets, link[t] = "up", NEW v, NEW k, SignedOn(v, k, t)
       PROVE  SignedOn(v, k, t)'
  <2>1. NoFarewell(k)'
    BY <1>12, <1>16 DEF SignedOn, NoFarewell, NoMoreKeys
  <2>2. server'.state[v] # "offline"
    <3>1. CASE v # u
      <4>1. v \in Users \ {u}
        BY <1>16, <3>1 DEF SignedOn
      <4> QED BY <1>4, <1>16, <4>1 DEF SignedOn
    <3>2. CASE v = u /\ Handles(s, {"state"}) /\ Head(toServer[s]).key = server.key[u]
               /\ st = Head(toServer[s]).state
      <4>1. Head(toServer[s]) \in ToSet(toServer[s]) /\ Head(toServer[s]).type = "state"
        BY <1>0, <3>2, HandlesPacket DEF Handles
      <4>2. Head(toServer[s]).state # "offline"
        BY <1>16, <3>2, <4>1 DEF SignedOn, NoFarewell
      <4> QED BY <1>4, <3>2, <4>2
    <3>3. CASE v = u /\ Handles(s, {"disconnected"}) /\ u = server.watched[s]
      <4>1. server.sock[u] = s
        BY <1>0, <3>3 DEF Sessions, IMSessionAssumption
      <4>2. t = s
        BY <1>16, <3>3, <4>1 DEF SignedOn
      <4>3. Head(toServer[s]) \in ToSet(toServer[s]) /\ Head(toServer[s]).type = "disconnected"
        BY <1>0, <3>3, HandlesPacket DEF Handles
      <4>4. Ended(toServer[s])
        BY <4>3 DEF Ended, Ends
      <4> QED BY <1>0, <1>16, <4>2, <4>4 DEF Connections, Connection
    <3> QED BY <1>1, <3>1, <3>2, <3>3
  <2> QED BY <1>4, <1>16, <2>1, <2>2 DEF SignedOn
<1>17. ASSUME NEW t \in Sockets PROVE Agreed(t)'
  <2>1. Agreed(t) /\ toClient[t] \in Seq(ToClientPackets) /\ loggedOn'[t] = loggedOn[t]
    BY <1>0 DEF IInv
  <2>2. link'[t] = "up" => /\ link[t] = "up" /\ client'[t[1]] = client[t[1]] /\ Open(t)
                           /\ NoMoreReplies(toClient'[t], toClient[t])
    BY <1>0, <1>11 DEF Connections, Connection
  <2>3. \A v : \A k \in SessionKeys :
          loggedOn[t] = 1 /\ link'[t] = "up" /\ Holds(t, k) /\ SignedOn(v, k, t) => SignedOn(v, k, t)'
    BY <1>0, <1>16
  <2> QED BY <2>1, <2>2, <2>3, AgreedKept
<1>18. ASSUME NEW v \in Users PROVE Found(v)'
  <2> SUFFICES ASSUME server'.state[v] # "offline", loggedOn[server.sock[v]] = 1, v \notin returned'
               PROVE  /\ server'.watched[server.sock[v]] = v
                      /\ \/ link[server.sock[v]] = "up"
                         \/ Disconnected \in ToSet(toServer'[server.sock[v]])
    BY <1>0, <1>4 DEF Found
  <2>1. server.state[v] # "offline" /\ v \notin returned
    BY <1>1, <1>4
  <2>2. PICK t \in Sockets : t = server.sock[v]
    BY <1>0, <2>1 DEF Sessions, ServerStates
  <2>3. server.watched[t] = v /\ (link[t] = "up" \/ Disconnected \in ToSet(toServer[t]))
    BY <2>1, <2>2 DEF IInv, Found
  <2>4. ~(st = "offline" /\ t = server.sock[u])
    BY <1>0, <1>4, <2>2 DEF Sessions, IMSessionAssumption
  <2>5. server'.watched[t] = v
    BY <1>3, <2>3, <2>4 DEF Turned
  <2>6. ~(t = s /\ Head(toServer[s]).type = "disconnected")
    <3> SUFFICES ASSUME t = s, Head(toServer[s]).type = "disconnected" PROVE FALSE
      OBVIOUS
    <3>1. u = server.watched[s] /\ st = "offline"
      BY <1>1 DEF Handles
    <3> QED BY <2>2, <2>3, <2>4, <3>1
  <2>7. link[t] = "up" \/ Disconnected \in ToSet(toServer'[t])
    BY <1>2, <2>3, <2>6 DEF Handled
  <2> QED BY <2>2, <2>5, <2>7
<1>19. PresenceTold'
  <2> SUFFICES ASSUME NEW t \in Sockets, NEW c \in Users, server'.watched[t] # NoUser,
                      link[t] = "up", c \in Contacts[server'.watched[t]]
               PROVE  server'.told[t][c] \in {"invisible", "offline"}
                        <=> server'.state[c] \in {"invisible", "offline"}
    BY <1>0 DEF PresenceTold
  <2>1. PICK w \in Users : w = server'.watched[t]
    BY <1>4 DEF ServerStates
  <2>2. w = server.watched[t] /\ w # NoUser /\ server.sock[w] = t /\ server.state[w] # "offline"
    BY <1>0, <1>9, <2>1 DEF Sessions
  <2>3. server.told[t][c] \in {"invisible", "offline"}
          <=> server.state[c] \in {"invisible", "offline"}
    BY <2>1, <2>2 DEF IInv, PresenceTold
  <2>4. CASE c # u
    <3>1. server'.told[t][c] = server.told[t][c]
      BY <1>3, <2>4 DEF Turned
    <3> QED BY <1>4, <2>3, <2>4, <3>1
  <2>5. CASE c = u
    <3>1. w \in Contacts[u] /\ t \in Up
      BY <2>1, <2>5 DEF IMSessionAssumption, Up
    <3>2. server'.told[t][u] = st
      BY <1>3, <2>2, <3>1 DEF Turned
    <3> QED BY <1>4, <2>5, <3>2
  <2> QED BY <2>4, <2>5
<1> QED BY <1>5, <1>6, <1>7, <1>10, <1>14, <1>15, <1>17, <1>18, <1>19 DEF IInv
-----------------------------------------------------------------------------
(* A user logs in                                                          *)

\* What the invariant says of a login: over a socket over which nobody has logged in, it is
\* the login of nobody else's socket that is kicked.
LogInFacts(s, u) ==
  /\ Head(toServer[s]).state \in {"online", "invisible"} /\ link[s] # "unused"
  /\ server'.state[u] = Head(toServer[s]).state /\ server'.sock[u] = s
  /\ server'.key[u] = SessionKey(server.logins + 1)
  /\ \A v \in Users \ {u} :
       /\ server'.state[v] = server.state[v] /\ server'.sock[v] = server.sock[v]
       /\ server'.key[v] = server.key[v]
  /\ loggedOn'[s] = loggedOn[s] + 1 /\ \A t \in Sockets \ {s} : loggedOn'[t] = loggedOn[t]
  /\ loggedOn' \in [Sockets -> Nat]
  /\ \A t \in Sockets : loggedOn[t] \in Nat /\ (KickedOut(u, t) => loggedOn[t] >= 1)
  /\ \A t \in Sockets : link'[t] = "up" => link[t] = "up" /\ ~KickedOut(u, t)
  /\ \A t \in Sockets : ToSet(toServer'[t]) \subseteq ToSet(toServer[t])
  /\ \A t \in Sockets \ {s} :
       toClient'[t] # toClient[t] => link[t] = "up" /\ link'[t] = "down"

LEMMA LogsInFacts ==
  ASSUME IMSessionAssumption, IInv, NEW s \in Sockets, NEW u \in Users, LogsIn(s, u)
  PROVE  LogInFacts(s, u)
<1>0. /\ Types /\ Connections /\ Sessions
      /\ toServer[s] # <<>> /\ Head(toServer[s]).type = "login" /\ toServer[s] \in Seq(ToServerPackets)
      /\ loggedOn \in [Sockets -> Nat] /\ s # NoSocket
      /\ server.state \in [Users -> States] /\ server.sock \in [Users -> Sockets \cup {NoSocket}]
      /\ server.key \in [Users -> {FirstKey} \cup SessionKeys]
  BY DEF IInv, Types, ServerStates, LogsIn, IMSessionAssumption
<1>1. Head(toServer[s]).state \in {"online", "invisible"} /\ link[s] # "unused"
  BY <1>0, HandlesPacket, ToServerKinds DEF Connections, Connection
<1>2. /\ server'.state[u] = Head(toServer[s]).state /\ server'.sock[u] = s
      /\ server'.key[u] = SessionKey(server.logins + 1)
      /\ \A v \in Users \ {u} :
           /\ server'.state[v] = server.state[v] /\ server'.sock[v] = server.sock[v]
           /\ server'.key[v] = server.key[v]
  BY <1>0 DEF LogsIn
<1>3. /\ loggedOn'[s] = loggedOn[s] + 1 /\ \A t \in Sockets \ {s} : loggedOn'[t] = loggedOn[t]
      /\ loggedOn' \in [Sockets -> Nat]
  BY <1>0 DEF LogsIn
<1>4. \A t \in Sockets : loggedOn[t] \in Nat /\ (KickedOut(u, t) => loggedOn[t] >= 1)
  BY <1>0 DEF Sessions, KickedOut, IMSessionAssumption
<1>5. \A t \in Sockets : link'[t] = "up" => link[t] = "up" /\ ~KickedOut(u, t)
  BY DEF LogsIn
<1>6. ASSUME NEW t \in Sockets PROVE ToSet(toServer'[t]) \subseteq ToSet(toServer[t])
  <2>1. CASE t = s
    <3>1. Tail(toServer[s]) \in Seq(ToServerPackets) /\ toServer'[s] \in Prefixes(Tail(toServer[s]))
      BY <1>0, TailFacts DEF LogsIn
    <3>2. ToSet(toServer'[s]) \subseteq ToSet(Tail(toServer[s]))
      BY <3>1, ToSetPrefix
    <3> QED BY <1>0, <2>1, <3>2, ToSetTail
  <2>2. CASE t # s
    <3>1. toServer[t] \in Seq(ToServerPackets) /\ toServer'[t] \in Prefixes(toServer[t])
      BY <1>0, <2>2 DEF LogsIn, Types
    <3> QED BY <3>1, ToSetPrefix
  <2> QED BY <2>1, <2>2
<1>7. \A t \in Sockets \ {s} :
        toClient'[t] # toClient[t] => link[t] = "up" /\ link'[t] = "down"
  BY DEF LogsIn
<1> QED BY <1>1, <1>2, <1>3, <1>4, <1>5, <1>6, <1>7 DEF LogInFacts

LEMMA LogsInConnections ==
  ASSUME IMSessionAssumption, IInv, NEW s \in Sockets, NEW u \in Users, LogsIn(s, u)
  PROVE  Connections'
<1> SUFFICES ASSUME NEW t \in Sockets PROVE Connection(t)'
  BY DEF Connections
<1>0. /\ Connection(t) /\ toServer[t] \in Seq(ToServerPackets)
      /\ toClient[t] \in Seq(ToClientPackets) /\ client' = client
      /\ toServer[s] \in Seq(ToServerPackets) /\ toServer[s] # <<>>
      /\ link[t] \in {"unused", "up", "down"} /\ server.logins \in Nat
      /\ (Open(t)' <=> Open(t))
  BY DEF IInv, Connections, Types, Open, LogsIn, ServerStates
<1>1. LogInFacts(s, u)
  BY LogsInFacts
<1>2. /\ EndsLast(toServer'[t]) /\ (Ended(toServer'[t]) => Ended(toServer[t]))
      /\ toServer[t] = <<>> => toServer'[t] = <<>>
  <2>1. CASE t = s
    <3>1. Tail(toServer[s]) \in Seq(ToServerPackets) /\ EndsLast(Tail(toServer[s]))
      BY <1>0, <2>1, TailFacts, EndsLastTail DEF Connection
    <3>2. toServer'[s] \in Prefixes(Tail(toServer[s]))
      BY DEF LogsIn
    <3>3. EndsLast(toServer'[s])
      BY <3>1, <3>2, EndsLastPrefix
    <3> QED BY <1>0, <1>1, <2>1, <3>3 DEF LogInFacts, Ended
  <2>2. CASE t # s
    <3>1. toServer'[t] \in Prefixes(toServer[t])
      BY <2>2 DEF LogsIn
    <3>2. EndsLast(toServer'[t])
      BY <1>0, <3>1, EndsLastPrefix DEF Connection
    <3>3. toServer[t] = <<>> => toServer'[t] = <<>>
      <4>1. PICK q : q = toServer'[t]
        OBVIOUS
      <4>2. q \in Seq(ToServerPackets) /\ Len(q) <= Len(toServer[t])
        BY <1>0, <3>1, <4>1, PrefixFacts
      <4> QED BY <4>1, <4>2
    <3> QED BY <1>1, <3>2, <3>3 DEF LogInFacts, Ended
  <2> QED BY <2>1, <2>2
<1>3. CASE KickedOut(u, t) /\ link[t] = "up"
  <2>1. PICK news : news = <<[type |-> "kicked"], Disconnected>>
    OBVIOUS
  <2>2. link'[t] = "down" /\ toClient'[t] = toClient[t] \o news /\ ~Ended(toClient[t]) /\ Open(t)
    BY <1>0, <1>3, <2>1 DEF LogsIn, Connection
  <2>3. /\ news \in Seq(ToClientPackets) /\ Len(news) = 2 /\ news[1].type = "kicked"
        /\ news[2].type = "disconnected"
    BY <2>1 DEF ToClientPackets, Disconnected
  <2>4. EndsLast(news)
    BY <2>3 DEF EndsLast
  <2>5. Ended(news)
    <3>1. news[1] \in ToSet(news)
      BY <2>3, ToSetFacts
    <3> QED BY <2>3, <3>1 DEF Ended, Ends
  <2>6. EndsLast(toClient'[t]) /\ Ended(toClient'[t])
    BY <1>0, <2>2, <2>3, <2>4, <2>5, EndsLastConcat, EndedFacts
  <2>7. loggedOn'[t] # 0
    BY <1>1, <1>3 DEF LogInFacts
  <2> QED BY <1>0, <1>2, <2>2, <2>6, <2>7 DEF Connection
<1>4. CASE ~(KickedOut(u, t) /\ link[t] = "up")
  <2>1. link'[t] = link[t]
    BY <1>0, <1>4 DEF LogsIn
  <2>2. \/ toClient'[t] = toClient[t]
        \/ link[t] = "up" /\ EndsLast(toClient'[t]) /\ ~Ended(toClient'[t])
    <3>1. CASE t = s /\ link[s] = "up"
      <4>1. PICK e : e = Succeeded(u, SessionKey(server.logins + 1))
        OBVIOUS
      <4>2. SessionKey(server.logins + 1) \in SessionKeys
        BY <1>0, KeyKinds
      <4>3. e \in ToClientPackets /\ e.type \notin Ends
        BY <4>1, <4>2 DEF Succeeded, ToClientPackets, Ends
      <4>4. toClient'[t] = Append(toClient[t], e) /\ ~Ended(toClient[t])
        BY <1>0, <1>4, <3>1, <4>1 DEF LogsIn, Connection
      <4> QED BY <1>0, <3>1, <4>3, <4>4, EndsLastAppend, EndedFacts
    <3>2. CASE ~(t = s /\ link[s] = "up")
      BY <1>4, <3>2 DEF LogsIn
    <3> QED BY <3>1, <3>2
  <2>3. ASSUME link[t] = "down", loggedOn'[t] = 0, toServer'[t] # <<>>
        PROVE  Ended(toServer'[t])
    <3>1. t # s /\ loggedOn[t] = 0 /\ ~KickedOut(u, t)
      BY <1>1, <2>3 DEF LogInFacts
    <3>2. toServer'[t] = toServer[t]
      BY <3>1 DEF LogsIn
    <3> QED BY <1>0, <2>3, <3>1, <3>2 DEF Connection
  <2>4. link[t] = "unused" => t # s /\ loggedOn'[t] = loggedOn[t] /\ toClient'[t] = toClient[t]
    BY <1>1, <2>2 DEF LogInFacts
  <2> QED BY <1>0, <1>2, <2>1, <2>2, <2>3, <2>4 DEF Connection
<1> QED BY <1>3, <1>4

LEMMA LogsInSessions ==
  ASSUME IMSessionAssumption, IInv, NEW s \in Sockets, NEW u \in Users, LogsIn(s, u)
  PROVE  Sessions'
<1>0. Sessions /\ Types /\ LogInFacts(s, u) /\ s # NoSocket /\ server \in ServerStates
  BY LogsInFacts DEF IInv, IMSessionAssumption, Types
<1>1. ASSUME NEW t \in Sockets, server'.watched[t] # NoUser
      PROVE  /\ server'.sock[server'.watched[t]] = t
             /\ server'.state[server'.watched[t]] # "offline"
  <2>1. CASE t = s
    <3>1. server'.watched[t] = u
      BY <2>1 DEF LogsIn
    <3> QED BY <1>0, <2>1, <3>1 DEF LogInFacts
  <2>2. CASE t # s
    <3>1. server'.watched[t] = server.watched[t] /\ ~KickedOut(u, t)
      BY <1>1, <2>2 DEF LogsIn
    <3>2. /\ server.watched[t] \in Users
          /\ server.sock[server.watched[t]] = t /\ server.state[server.watched[t]] # "offline"
      BY <1>0, <1>1, <3>1 DEF Sessions, ServerStates
    <3>3. server.watched[t] # u
      BY <3>1, <3>2 DEF KickedOut
    <3> QED BY <1>0, <3>1, <3>2, <3>3 DEF LogInFacts
  <2> QED BY <2>1, <2>2
<1>2. \A t \in Sockets : loggedOn'[t] >= loggedOn[t]
  BY <1>0 DEF LogInFacts
<1>3. ASSUME NEW v \in Users, server'.sock[v] # NoSocket PROVE loggedOn'[server'.sock[v]] >= 1
  <2>1. CASE v = u
    BY <1>0, <2>1 DEF LogInFacts
  <2>2. CASE v # u
    <3>1. server'.sock[v] = server.sock[v] /\ server.sock[v] \in Sockets
      BY <1>0, <1>3, <2>2 DEF LogInFacts, ServerStates
    <3>2. loggedOn[server.sock[v]] >= 1 /\ loggedOn[server.sock[v]] \in Nat
          /\ loggedOn'[server.sock[v]] \in Nat
      BY <1>0, <1>3, <3>1 DEF Sessions, LogInFacts
    <3> QED BY <1>2, <3>1, <3>2
  <2> QED BY <2>1, <2>2
<1>4. ASSUME NEW v \in Users, server'.sock[v] = NoSocket
      PROVE  server'.state[v] = "offline" /\ server'.key[v] = FirstKey
  <2>1. v # u
    BY <1>0, <1>4 DEF LogInFacts
  <2> QED BY <1>0, <1>4, <2>1 DEF LogInFacts, Sessions
<1>5. ASSUME NEW v \in Users, NEW w \in Users, v # w, server'.sock[v] = server'.sock[w],
             server'.sock[v] # NoSocket
      PROVE  loggedOn'[server'.sock[v]] >= 2
  <2>1. CASE v # u /\ w # u
    <3>1. server'.sock[v] = server.sock[v] /\ server'.sock[w] = server.sock[w]
          /\ server.sock[v] \in Sockets
      BY <1>0, <1>5, <2>1 DEF LogInFacts, ServerStates
    <3>2. PICK t \in Sockets : t = server.sock[v]
      BY <3>1
    <3>3. server.sock[v] = t /\ server.sock[w] = t /\ t # NoSocket
      BY <1>5, <3>1, <3>2
    <3>4. loggedOn[t] >= 2
      BY <1>0, <1>5, <3>3 DEF Sessions
    <3>5. loggedOn[t] \in Nat /\ loggedOn'[t] \in Nat /\ loggedOn'[t] >= loggedOn[t]
      BY <1>0, <1>2 DEF LogInFacts
    <3> QED BY <3>1, <3>2, <3>4, <3>5
  <2>2. CASE v = u \/ w = u
    <3>1. PICK x \in Users \ {u} : server'.sock[x] = s /\ server'.sock[v] = s
      BY <1>0, <1>5, <2>2 DEF LogInFacts
    <3>2. server.sock[x] = s
      BY <1>0, <3>1 DEF LogInFacts
    <3>3. loggedOn[s] >= 1 /\ loggedOn'[s] = loggedOn[s] + 1 /\ loggedOn[s] \in Nat
      BY <1>0, <3>2 DEF Sessions, LogInFacts
    <3> QED BY <3>1, <3>3
  <2> QED BY <2>1, <2>2
<1> QED BY <1>1, <1>3, <1>4, <1>5 DEF Sessions
\* What the login sends: nothing that is a reply, but the one over s.
LEMMA LogsInReplies ==
  ASSUME IMSessionAssumption, IInv, NEW s \in Sockets, NEW u \in Users, LogsIn(s, u),
         NEW t \in Sockets
  PROVE  \/ NoMoreReplies(toClient'[t], toClient[t])
         \/ /\ t = s /\ link[s] = "up" /\ ~KickedOut(u, s)
            /\ toClient'[s] = Append(toClient[s], Succeeded(u, SessionKey(server.logins + 1)))
<1>0. toClient[t] \in Seq(ToClientPackets)
  BY DEF IInv, Types
<1>1. CASE KickedOut(u, t) /\ link[t] = "up"
  <2>1. PICK news : news = <<[type |-> "kicked"], Disconnected>>
    OBVIOUS
  <2>2. toClient'[t] = toClient[t] \o news
    BY <1>1, <2>1 DEF LogsIn
  <2>3. /\ news \in Seq(ToClientPackets) /\ Len(news) = 2 /\ news[1].type = "kicked"
        /\ news[2].type = "disconnected"
    BY <2>1 DEF ToClientPackets, Disconnected
  <2>4. ~Success(news)
    <3>1. \A i \in 1 .. Len(news) : news[i].type # "succeeded"
      BY <2>3
    <3> QED BY <2>3, <3>1, ToSetFacts DEF Success
  <2> QED BY <1>0, <2>2, <2>3, <2>4, RepliesBefore
<1>2. CASE ~(KickedOut(u, t) /\ link[t] = "up") /\ t = s /\ link[s] = "up"
  BY <1>2 DEF LogsIn
<1>3. CASE ~(KickedOut(u, t) /\ link[t] = "up") /\ ~(t = s /\ link[s] = "up")
  <2>1. toClient'[t] = toClient[t]
    BY <1>3 DEF LogsIn
  <2> QED BY <1>0, <2>1, RepliesLess
<1> QED BY <1>1, <1>2, <1>3

\* The reply over s, and the new key.
LEMMA NewReply ==
  ASSUME IInv, NEW s \in Sockets, NEW u \in Users, NEW e,
         e = Succeeded(u, SessionKey(server.logins + 1))
  PROVE  /\ e \in ToClientPackets /\ e.type = "succeeded" /\ e.user = u
         /\ e.key = SessionKey(server.logins + 1) /\ e.key \in SessionKeys
         /\ ToSet(Append(toClient[s], e)) = ToSet(toClient[s]) \cup {e}
         /\ \A t \in Sockets : ~Holds(t, e.key)
<1>1. server.logins \in Nat /\ toClient[s] \in Seq(ToClientPackets)
  BY DEF IInv, Types, ServerStates
<1>2. SessionKey(server.logins + 1) \in SessionKeys
  BY <1>1, KeyKinds
<1>3. /\ e \in ToClientPackets /\ e.type = "succeeded" /\ e.user = u
      /\ e.key = SessionKey(server.logins + 1)
  BY <1>2 DEF Succeeded, ToClientPackets
<1>4. ToSet(Append(toClient[s], e)) = ToSet(toClient[s]) \cup {e}
  BY <1>1, <1>3, ToSetAppend
<1>5. ASSUME NEW t \in Sockets, Holds(t, e.key) PROVE FALSE
  <2>1. PICK n \in Nat \ {0} : n = server.logins + 1
    BY <1>1
  <2>2. Holds(t, SessionKey(n))
    BY <1>3, <1>5, <2>1
  <2>3. n <= server.logins
    BY <2>2 DEF IInv, KeysApart
  <2> QED BY <1>1, <2>1, <2>3
<1> QED BY <1>2, <1>3, <1>4, <1>5

LEMMA LogsInHolds ==
  ASSUME IMSessionAssumption, IInv, NEW s \in Sockets, NEW u \in Users, LogsIn(s, u),
         NEW t \in Sockets, NEW k, Holds(t, k)'
  PROVE  Holds(t, k) \/ (t = s /\ k = SessionKey(server.logins + 1))
<1>0. (Open(t)' <=> Open(t)) /\ client' = client
  BY DEF LogsIn, Open
<1>1. NoMoreKeys(t)
  BY LogsInFacts DEF LogInFacts, NoMoreKeys
<1>2. CASE NoMoreReplies(toClient'[t], toClient[t])
  BY <1>0, <1>1, <1>2, HoldsKept
<1>3. CASE ~NoMoreReplies(toClient'[t], toClient[t])
  <2>1. PICK e : e = Succeeded(u, SessionKey(server.logins + 1))
    OBVIOUS
  <2>2. t = s /\ toClient'[t] = Append(toClient[t], e)
    BY <1>3, <2>1, LogsInReplies
  <2>3. /\ e.key = SessionKey(server.logins + 1)
        /\ ToSet(toClient'[t]) = ToSet(toClient[t]) \cup {e}
    <3>1. /\ e.key = SessionKey(server.logins + 1)
          /\ ToSet(Append(toClient[s], e)) = ToSet(toClient[s]) \cup {e}
      BY <2>1, NewReply
    <3> QED BY <2>2, <3>1
  <2> QED BY <1>0, <1>1, <2>2, <2>3 DEF Holds, NoMoreKeys
<1> QED BY <1>2, <1>3

LEMMA LogsInKeys ==
  ASSUME IMSessionAssumption, IInv, NEW s \in Sockets, NEW u \in Users, LogsIn(s, u)
  PROVE  KeysApart'
<1>0. /\ KeysApart /\ server.logins \in Nat /\ server'.logins = server.logins + 1
      /\ client' = client
  BY DEF IInv, Types, ServerStates, LogsIn
<1>1. LogInFacts(s, u)
  BY LogsInFacts
<1>2. \A m, n : SessionKey(m) = SessionKey(n) => m = n
  BY KeyKinds
<1>3. ASSUME NEW v \in Users, NEW n \in Nat \ {0}, server'.key[v] = SessionKey(n)
      PROVE  n <= server'.logins
  <2>1. CASE v = u
    <3>1. n = server.logins + 1
      BY <1>1, <1>2, <1>3, <2>1 DEF LogInFacts
    <3> QED BY <1>0, <3>1
  <2>2. CASE v # u
    <3>1. server.key[v] = SessionKey(n)
      BY <1>1, <1>3, <2>2 DEF LogInFacts
    <3>2. n <= server.logins
      BY <1>0, <3>1 DEF KeysApart
    <3> QED BY <1>0, <3>2
  <2> QED BY <2>1, <2>2
<1>4. ASSUME NEW p \in Places, NEW n \in Nat \ {0}, client'[p].key = SessionKey(n)
      PROVE  n <= server'.logins
  <2>1. n <= server.logins
    BY <1>0, <1>4 DEF KeysApart
  <2> QED BY <1>0, <2>1
<1>5. ASSUME NEW t \in Sockets, NEW n \in Nat \ {0}, Holds(t, SessionKey(n))'
      PROVE  n <= server'.logins
  <2>1. Holds(t, SessionKey(n)) \/ SessionKey(n) = SessionKey(server.logins + 1)
    BY <1>5, LogsInHolds
  <2>2. n <= server.logins \/ n = server.logins + 1
    BY <1>0, <1>2, <2>1 DEF KeysApart
  <2> QED BY <1>0, <2>2
<1>6. ASSUME NEW t \in Sockets, NEW r \in Sockets, NEW k \in SessionKeys,
             Holds(t, k)', Holds(r, k)'
      PROVE  t = r
  <2>1. Holds(t, k) \/ (t = s /\ k = SessionKey(server.logins + 1))
    BY <1>6, LogsInHolds
  <2>2. Holds(r, k) \/ (r = s /\ k = SessionKey(server.logins + 1))
    BY <1>6, LogsInHolds
  <2>3. PICK e : e = Succeeded(u, SessionKey(server.logins + 1))
    OBVIOUS
  <2>4. \A x \in Sockets : ~Holds(x, SessionKey(server.logins + 1))
    BY <2>3, NewReply
  <2>5. CASE k = SessionKey(server.logins + 1)
    BY <2>1, <2>2, <2>4, <2>5
  <2>6. CASE k # SessionKey(server.logins + 1)
    BY <1>0, <2>1, <2>2, <2>6 DEF KeysApart
  <2> QED BY <2>5, <2>6
<1> QED BY <1>3, <1>4, <1>5, <1>6 DEF KeysApart

LEMMA LogsInAnswered ==
  ASSUME IMSessionAssumption, IInv, NEW s \in Sockets, NEW u \in Users, LogsIn(s, u),
         NEW t \in Sockets
  PROVE  Replies(t)'
<1>0. /\ Replies(t) /\ toClient[t] \in Seq(ToClientPackets) /\ loggedOn[t] \in Nat
      /\ client' = client
  BY DEF IInv, Types, LogsIn
<1>1. LogInFacts(s, u)
  BY LogsInFacts
<1>2. NotYet(t)' <=> NotYet(t)
  BY <1>0 DEF NotYet, Open
<1>3. CASE t # s
  <2>1. NoMoreReplies(toClient'[t], toClient[t])
    BY <1>3, LogsInReplies
  <2>2. loggedOn'[t] = loggedOn[t]
    BY <1>1, <1>3 DEF LogInFacts
  <2> QED BY <1>0, <1>2, <2>1, <2>2, RepliesKept
<1>4. CASE t = s
  <2>1. loggedOn'[s] # 0 /\ (loggedOn'[s] = 1 => loggedOn[s] = 0)
    BY <1>0, <1>1, <1>4 DEF LogInFacts
  <2>2. ASSUME loggedOn'[s] = 1
        PROVE  /\ NotYet(s)'
               /\ \A i, j \in 1 .. Len(toClient'[s]) :
                    toClient'[s][i].type = "succeeded" /\ toClient'[s][j].type = "succeeded"
                      => i = j
    <3>1. NotYet(s) /\ \A e \in ToSet(toClient[s]) : e.type # "succeeded"
      BY <1>0, <1>4, <2>1, <2>2 DEF Replies
    <3>2. PICK q, r : q = toClient'[s] /\ r = toClient[s]
      OBVIOUS
    <3>3. r \in Seq(ToClientPackets) /\ \A i \in 1 .. Len(r) : r[i].type # "succeeded"
      BY <1>0, <1>4, <3>1, <3>2, ToSetFacts
    <3>4. CASE NoMoreReplies(q, r)
      <4>1. \A e \in ToSet(q) : e.type # "succeeded"
        BY <3>1, <3>2, <3>4 DEF NoMoreReplies
      <4>2. \A i \in 1 .. Len(q) : q[i].type # "succeeded"
        BY <3>4, <4>1, ToSetFacts DEF NoMoreReplies
      <4> QED BY <1>2, <1>4, <3>1, <3>2, <4>2
    <3>5. CASE ~NoMoreReplies(q, r)
      <4>1. PICK e \in ToClientPackets : q = Append(r, e)
        <5>1. PICK e : e = Succeeded(u, SessionKey(server.logins + 1))
          OBVIOUS
        <5>2. q = Append(r, e)
          BY <3>2, <3>5, <5>1, LogsInReplies
        <5>3. e \in ToClientPackets
          BY <5>1, NewReply
        <5> QED BY <5>2, <5>3
      <4>2. Len(r) \in Nat /\ Len(q) = Len(r) + 1 /\ \A i \in 1 .. Len(r) : q[i] = r[i]
        BY <3>3, <4>1, AppendFacts
      <4>3. \A i \in 1 .. Len(q) : q[i].type = "succeeded" => i = Len(q)
        BY <3>3, <4>2
      <4> QED BY <1>2, <1>4, <3>1, <3>2, <4>3
    <3> QED BY <3>4, <3>5
  <2> QED BY <1>4, <2>1, <2>2 DEF Replies
<1> QED BY <1>3, <1>4
LEMMA LogsInAgreed ==
  ASSUME IMSessionAssumption, IInv, NEW s \in Sockets, NEW u \in Users, LogsIn(s, u),
         NEW t \in Sockets
  PROVE  Agreed(t)'
<1>0. /\ Agreed(t) /\ toClient[t] \in Seq(ToClientPackets) /\ loggedOn[t] \in Nat
      /\ client' = client /\ Connection(t) /\ Replies(t)
  BY DEF IInv, Types, LogsIn, Connections
<1>1. LogInFacts(s, u)
  BY LogsInFacts
<1>2. ASSUME NEW k, NoFarewell(k) PROVE NoFarewell(k)'
  BY <1>1, <1>2 DEF LogInFacts, NoFarewell
<1>3. CASE t # s
  <2>1. loggedOn'[t] = loggedOn[t]
    BY <1>1, <1>3 DEF LogInFacts
  <2>2. link'[t] = "up" => link[t] = "up" /\ ~KickedOut(u, t)
    BY <1>1 DEF LogInFacts
  <2>3. NoMoreReplies(toClient'[t], toClient[t])
    BY <1>3, LogsInReplies
  <2>4. ASSUME NEW v, NEW k, ~KickedOut(u, t), SignedOn(v, k, t) PROVE SignedOn(v, k, t)'
    <3>1. v \in Users \ {u}
      BY <2>4 DEF SignedOn, KickedOut
    <3>2. server'.state[v] = server.state[v] /\ server'.sock[v] = server.sock[v]
          /\ server'.key[v] = server.key[v]
      BY <1>1, <3>1 DEF LogInFacts
    <3> QED BY <1>2, <2>4, <3>2 DEF SignedOn
  <2>5. Open(t) \/ link[t] # "up"
    BY <1>0 DEF Connection
  <2> QED BY <1>0, <2>1, <2>2, <2>3, <2>4, <2>5, AgreedKept
<1>4. CASE t = s
  <2> SUFFICES ASSUME loggedOn'[s] = 1, link'[s] = "up"
               PROVE  /\ \A e \in ToSet(toClient'[s]) :
                           e.type = "succeeded" => SignedOn(e.user, e.key, s)'
                      /\ ~client[s[1]].verified
    BY <1>0, <1>4 DEF Agreed
  <2>1. loggedOn[s] = 0 /\ link[s] = "up" /\ ~KickedOut(u, s)
    BY <1>0, <1>1, <1>4 DEF LogInFacts
  <2>2. NotYet(s) /\ \A e \in ToSet(toClient[s]) : e.type # "succeeded"
    BY <1>0, <1>4, <2>1 DEF Replies
  <2>3. ~client[s[1]].verified
    BY <1>0, <1>4, <2>1, <2>2 DEF NotYet, Connection
  <2>4. PICK x : x = Succeeded(u, SessionKey(server.logins + 1))
    OBVIOUS
  <2>5. toClient'[s] = Append(toClient[s], x)
    BY <2>1, <2>4 DEF LogsIn
  <2>6. /\ x.user = u /\ x.key = SessionKey(server.logins + 1)
        /\ ToSet(Append(toClient[s], x)) = ToSet(toClient[s]) \cup {x}
        /\ \A r \in Sockets : ~Holds(r, x.key)
    BY <2>4, NewReply
  <2>7. NoFarewell(x.key)
    BY <2>6 DEF NoFarewell, Holds
  <2>8. PICK k : k = x.key
    OBVIOUS
  <2>9. NoFarewell(k)'
    BY <1>2, <2>7, <2>8
  <2>10. server'.state[u] # "offline" /\ server'.sock[u] = s /\ server'.key[u] = k
    BY <1>1, <2>6, <2>8 DEF LogInFacts
  <2>11. SignedOn(u, k, s)'
    BY <2>9, <2>10 DEF SignedOn
  <2>12. ASSUME NEW e \in ToSet(toClient'[s]), e.type = "succeeded" PROVE e.user = u /\ e.key = k
    BY <2>2, <2>5, <2>6, <2>8, <2>12
  <2>13. ASSUME NEW e \in ToSet(toClient'[s]), e.type = "succeeded"
         PROVE  SignedOn(e.user, e.key, s)'
    BY <2>11, <2>12, <2>13
  <2> QED BY <2>3, <2>13
<1> QED BY <1>3, <1>4

LEMMA LogsInFound ==
  ASSUME IMSessionAssumption, IInv, NEW s \in Sockets, NEW u \in Users, LogsIn(s, u),
         NEW v \in Users
  PROVE  Found(v)'
<1> SUFFICES ASSUME server'.state[v] # "offline", loggedOn'[server'.sock[v]] = 1, v \notin returned'
             PROVE  /\ server'.watched[server'.sock[v]] = v
                    /\ \/ link'[server'.sock[v]] = "up"
                       \/ Disconnected \in ToSet(toServer'[server'.sock[v]])
  BY DEF Found
<1>0. /\ Sessions /\ server \in ServerStates /\ Connection(s) /\ Found(v)
      /\ toServer[s] \in Seq(ToServerPackets) /\ toServer[s] # <<>>
      /\ Head(toServer[s]).type = "login" /\ link[s] \in {"unused", "up", "down"}
      /\ returned' = returned \ {u} /\ s # NoSocket
  BY DEF IInv, Types, Connections, LogsIn, IMSessionAssumption
<1>1. LogInFacts(s, u)
  BY LogsInFacts
<1>2. CASE v = u
  <2>1. server'.sock[v] = s /\ loggedOn[s] = 0 /\ ~KickedOut(u, s)
    BY <1>1, <1>2 DEF LogInFacts
  <2>2. server'.watched[s] = u /\ link'[s] = link[s] /\ toServer'[s] = Tail(toServer[s])
    BY <2>1 DEF LogsIn
  <2>3. ASSUME link[s] # "up" PROVE Disconnected \in ToSet(toServer'[s])
    <3>1. link[s] = "down"
      BY <1>0, <1>1, <2>3 DEF LogInFacts
    <3>2. Ended(toServer[s])
      BY <1>0, <2>1, <3>1 DEF Connection
    <3>3. Ended(toServer'[s])
      BY <1>0, <2>2, <3>2, EndedFacts DEF Ends
    <3>4. PICK e \in ToSet(toServer'[s]) : e.type \in Ends
      BY <3>3 DEF Ended
    <3>5. e \in ToServerPackets
      BY <1>0, <2>2, <3>4, TailFacts, ToSetOf
    <3>6. e = Disconnected
      BY <3>4, <3>5, ToServerKinds DEF Ends
    <3> QED BY <3>4, <3>6
  <2> QED BY <1>2, <2>1, <2>2, <2>3
<1>3. CASE v # u
  <2>1. /\ server.state[v] # "offline" /\ server'.sock[v] = server.sock[v] /\ v \notin returned
    BY <1>0, <1>1, <1>3 DEF LogInFacts
  <2>2. PICK t \in Sockets : t = server.sock[v]
    BY <1>0, <2>1 DEF Sessions, ServerStates
  <2>3. loggedOn[t] >= 1 /\ loggedOn[t] \in Nat /\ loggedOn'[t] = 1
    BY <1>0, <1>1, <2>1, <2>2 DEF Sessions, LogInFacts, IMSessionAssumption
  <2>4. t # s
    BY <1>1, <2>3 DEF LogInFacts
  <2>5. loggedOn[t] = 1
    BY <1>1, <2>3, <2>4 DEF LogInFacts
  <2>6. ~KickedOut(u, t)
    <3> SUFFICES ASSUME KickedOut(u, t) PROVE FALSE
      OBVIOUS
    <3>1. server.sock[u] = t /\ server.sock[v] = t /\ t # NoSocket
      BY <2>2 DEF KickedOut, IMSessionAssumption
    <3>2. loggedOn[t] >= 2
      BY <1>0, <1>3, <3>1 DEF Sessions
    <3> QED BY <2>5, <3>2
  <2>7. server'.watched[t] = server.watched[t] /\ link'[t] = link[t] /\ toServer'[t] = toServer[t]
    BY <2>4, <2>6 DEF LogsIn
  <2>8. server.watched[t] = v /\ (link[t] = "up" \/ Disconnected \in ToSet(toServer[t]))
    BY <1>0, <2>1, <2>2, <2>5 DEF Found
  <2> QED BY <2>1, <2>2, <2>7, <2>8
<1> QED BY <1>2, <1>3

LEMMA LogsInPresence ==
  ASSUME IMSessionAssumption, IInv, NEW s \in Sockets, NEW u \in Users, LogsIn(s, u)
  PROVE  PresenceTold'
<1> SUFFICES ASSUME NEW t \in Sockets, NEW c \in Users, server'.watched[t] # NoUser,
                    link'[t] = "up", c \in Contacts[server'.watched[t]]
             PROVE  server'.told[t][c] \in {"invisible", "offline"}
                      <=> server'.state[c] \in {"invisible", "offline"}
  BY DEF PresenceTold
<1>0. /\ Sessions /\ server \in ServerStates /\ server' \in ServerStates
      /\ link[t] = "up" /\ ~KickedOut(u, t) /\ LogInFacts(s, u)
  <2>1. LogInFacts(s, u)
    BY LogsInFacts
  <2>2. link[t] = "up" /\ ~KickedOut(u, t)
    BY <2>1 DEF LogInFacts
  <2>3. server' \in ServerStates
    BY DEF LogsIn
  <2> QED BY <2>1, <2>2, <2>3 DEF IInv, Types
<1>1. PICK w \in Users : w = server'.watched[t]
  BY <1>0 DEF ServerStates
<1>2. CASE t = s
  <2>1. server'.watched[s] = u
    BY DEF LogsIn
  <2>2. w = u /\ c # u /\ c \in Contacts[u]
    BY <1>1, <1>2, <2>1 DEF IMSessionAssumption
  <2>3. server'.told[s][c] = IF server.state[c] \in {"offline", "invisible"} THEN "offline"
                             ELSE server.state[c]
    BY <1>2, <2>2 DEF LogsIn
  <2>4. server'.state[c] = server.state[c]
    BY <1>0, <2>2 DEF LogInFacts
  <2> QED BY <1>2, <2>3, <2>4
<1>3. CASE t # s
  <2>1. server'.watched[t] = server.watched[t]
    BY <1>0, <1>3 DEF LogsIn
  <2>2. w = server.watched[t] /\ w # NoUser /\ server.sock[w] = t /\ server.state[w] # "offline"
    BY <1>0, <1>1, <2>1 DEF Sessions
  <2>3. CASE c # u
    <3>1. server'.told[t][c] = server.told[t][c]
      BY <1>3, <2>3 DEF LogsIn
    <3>2. server'.state[c] = server.state[c]
      BY <1>0, <2>3 DEF LogInFacts
    <3>3. server.told[t][c] \in {"invisible", "offline"}
            <=> server.state[c] \in {"invisible", "offline"}
      BY <1>0, <1>1, <2>2 DEF IInv, PresenceTold
    <3> QED BY <3>1, <3>2, <3>3
  <2>4. CASE c = u
    <3>1. w \in Contacts[u]
      BY <1>1, <2>4 DEF IMSessionAssumption
    <3>2. server'.told[t][u] = Head(toServer[s]).state
      BY <1>3, <2>2, <3>1 DEF LogsIn
    <3>3. server'.state[u] = Head(toServer[s]).state
      BY <1>0 DEF LogInFacts
    <3> QED BY <2>4, <3>2, <3>3
  <2> QED BY <2>3, <2>4
<1> QED BY <1>2, <1>3

LEMMA LogsInKeeps ==
  ASSUME IMSessionAssumption, IInv, NEW s \in Sockets, NEW u \in Users, LogsIn(s, u),
         attempts' \in 0 .. MaxAttempts + MaxReturns
  PROVE  IInv'
<1>0. Types /\ Clients /\ client' = client /\ LogInFacts(s, u)
  <2>1. LogInFacts(s, u)
    BY LogsInFacts
  <2> QED BY <2>1 DEF IInv, LogsIn
<1>1. Types'
  <2>1. loggedOn' \in [Sockets -> Nat] /\ returned' \subseteq Users
    BY <1>0 DEF LogInFacts, LogsIn, Types
  <2> QED BY <1>0, <2>1 DEF Types, LogsIn
<1>2. Clients'
  <2> SUFFICES ASSUME NEW p \in Places PROVE Client(p)' /\ Shown(p)'
    BY DEF Clients
  <2>0. Client(p) /\ Shown(p)
    BY <1>0 DEF Clients
  <2>1. Client(p)'
    BY <1>0, <2>0 DEF Client
  <2>2. ASSUME client[p].verified, loggedOn'[client[p].sock] = 1
        PROVE  loggedOn[client[p].sock] = 1
    <3>1. PICK t \in Sockets : t = client[p].sock /\ t[1] = p
      BY <2>0, <2>2 DEF Client, OfPlace
    <3>2. CASE t = s
      <4>1. loggedOn[s] = 0 /\ Replies(s)
        BY <1>0, <2>2, <3>1, <3>2 DEF LogInFacts, IInv
      <4> QED BY <2>2, <3>1, <3>2, <4>1 DEF Replies, NotYet, Open
    <3>3. CASE t # s
      BY <1>0, <2>2, <3>1, <3>3 DEF LogInFacts
    <3> QED BY <3>2, <3>3
  <2>3. Shown(p)'
    BY <1>0, <2>0, <2>2 DEF Shown
  <2> QED BY <2>1, <2>3
<1>3. Connections' /\ Sessions' /\ KeysApart' /\ PresenceTold'
  BY LogsInConnections, LogsInSessions, LogsInKeys, LogsInPresence
<1>4. (\A t \in Sockets : Replies(t)') /\ (\A t \in Sockets : Agreed(t)')
  BY LogsInAnswered, LogsInAgreed
<1>5. \A v \in Users : Found(v)'
  BY LogsInFound
<1> QED BY <1>1, <1>2, <1>3, <1>4, <1>5 DEF IInv
-----------------------------------------------------------------------------
(* The invariant holds                                                     *)

LEMMA InitIInv ==
  ASSUME IMSessionAssumption, Init
  PROVE  IInv
<1>1. /\ link = [s \in Sockets |-> "unused"] /\ attempts = 0 /\ returned = {}
      /\ toServer = [s \in Sockets |-> <<>>] /\ toClient = [s \in Sockets |-> <<>>]
      /\ client = [p \in Places |-> Program] /\ loggedOn = [s \in Sockets |-> 0]
  BY DEF Init
<1>2. /\ server.state = [u \in Users |-> "offline"] /\ server.sock = [u \in Users |-> NoSocket]
      /\ server.key = [u \in Users |-> FirstKey] /\ server.logins = 0
      /\ server.watched = [s \in Sockets |-> NoUser] /\ server \in ServerStates
  <2>1. server = ServerInit
    BY DEF Init
  <2> QED BY <2>1 DEF ServerInit, ServerStates, States
<1>3. \A p \in Places : client[p] = Program
  BY <1>1
<1>4. client \in [Places -> Programs] /\ Clients
  <2>1. \A p \in Places : client[p] \in Programs /\ Client(p) /\ Shown(p)
    BY <1>3, ProgramFacts
  <2> QED BY <1>1, <2>1 DEF Clients
<1>5. Types
  BY <1>1, <1>2, <1>4 DEF Types, IMSessionAssumption
<1>6. \A s \in Sockets : ToSet(toServer[s]) = {} /\ ToSet(toClient[s]) = {}
  <2>1. ToSet(<<>>) = {}
    BY DEF ToSet
  <2> QED BY <1>1, <2>1
<1>7. ASSUME NEW s \in Sockets
      PROVE  ~Open(s) /\ s[1] \in Places /\ NotYet(s) /\ \A k : ~Holds(s, k)
  <2>1. s[1] \in Places /\ client[s[1]].sock = NoSocket /\ s # NoSocket
    BY <1>3, PlaceOf DEF Program, IMSessionAssumption
  <2>2. ~Open(s)
    BY <2>1 DEF Open
  <2> QED BY <1>6, <1>7, <2>1, <2>2 DEF NotYet, Holds
<1>8. Connections
  <2>1. EndsLast(<<>>)
    BY DEF EndsLast
  <2> QED BY <1>1, <1>6, <1>7, <2>1 DEF Connections, Connection
<1>9. Sessions
  BY <1>1, <1>2 DEF Sessions
<1>10. KeysApart
  <2>1. \A p \in Places : client[p].key = NoKey
    BY <1>3 DEF Program
  <2>2. \A n \in Nat \ {0} : SessionKey(n) # NoKey /\ SessionKey(n) # FirstKey
    BY KeyKinds
  <2> QED BY <1>2, <1>7, <2>1, <2>2 DEF KeysApart
<1>11. \A s \in Sockets : Replies(s) /\ Agreed(s)
  BY <1>1, <1>6, <1>7 DEF Replies, Agreed
<1>12. \A u \in Users : Found(u)
  BY <1>2 DEF Found
<1>13. PresenceTold
  BY <1>2 DEF PresenceTold
<1> QED BY <1>4, <1>5, <1>8, <1>9, <1>10, <1>11, <1>12, <1>13 DEF IInv

\* Every step is of a kind.
Kind ==
  \/ \E p \in Places : Talks(p) \/ Leaves(p) \/ \E s \in Sockets : Connects(p, s)
  \/ \E s \in Sockets :
       \/ Ignores(s) \/ ConnectionLost(s) \/ Answers(s) \/ Drops(s)
       \/ \E u \in Users : LogsIn(s, u) \/ \E st \in States : Changes(s, u, st)
  \/ ServerRestart

LEMMA Kinds ==
  ASSUME IMSessionAssumption, IInv, Next
  PROVE  Kind
<1>0. Types /\ Connections /\ Clients /\ Sessions /\ \A s \in Sockets : Replies(s)
  BY DEF IInv
<1>1. ASSUME NEW s \in Sockets, Handle(s) PROVE Kind
  <2>1. CASE HandleRequest(s) \/ HandleWrongPassword(s)
    <3>1. Answers(s)
      BY <1>0, <2>1, AnswersLogin
    <3> QED BY <3>1 DEF Kind
  <2>2. CASE HandleLogin(s)
    <3>1. \E u \in Users : LogsIn(s, u)
      BY <1>0, <2>2, LoginLogsIn
    <3> QED BY <3>1 DEF Kind
  <2>3. CASE HandleState(s)
    <3>1. Drops(s) \/ \E u \in Users, st \in States : Changes(s, u, st)
      BY <1>0, <2>3, StateChanges
    <3> QED BY <3>1 DEF Kind
  <2>4. CASE HandleDisconnected(s)
    <3>1. Drops(s) \/ \E u \in Users, st \in States : Changes(s, u, st)
      BY <1>0, <2>4, LossChanges
    <3> QED BY <3>1 DEF Kind
  <2> QED BY <1>1, <2>1, <2>2, <2>3, <2>4 DEF Handle
<1>2. ASSUME NEW s \in Sockets, Receive(s) PROVE Kind
  <2>0. s[1] \in Places
    BY PlaceOf
  <2>1. CASE LetIn(s[1], s)
    <3>1. Talks(s[1])
      BY <1>0, <2>1, LetInTalks
    <3> QED BY <2>0, <3>1 DEF Kind
  <2>2. CASE LoginSucceeded(s[1], s)
    <3>1. Talks(s[1])
      BY <1>0, <2>2, LoginSucceededTalks
    <3> QED BY <2>0, <3>1 DEF Kind
  <2>3. CASE LoginFailed(s[1], s)
    <3>1. Talks(s[1])
      BY <1>0, <2>3, LoginFailedTalks
    <3> QED BY <2>0, <3>1 DEF Kind
  <2>4. CASE KickedOff(s[1], s) \/ ServerLost(s[1], s)
    <3>1. Leaves(s[1]) \/ Ignores(s)
      BY <1>0, <2>4, LossLeaves
    <3> QED BY <2>0, <3>1 DEF Kind
  <2> QED BY <1>2, <2>1, <2>2, <2>3, <2>4 DEF Receive
<1>3. ASSUME NEW p \in Places, ClickLogin(p) \/ AutoLogin(p) \/ SignInAgain(p) PROVE Kind
  <2>1. Talks(p) \/ \E s \in Sockets : Connects(p, s)
    BY <1>0, <1>3, SignInConnects
  <2> QED BY <2>1 DEF Kind
<1>4. ASSUME NEW p \in Places, LoginTimeout(p) \/ CloseDialog(p) PROVE Kind
  <2>1. Talks(p)
    BY <1>0, <1>4, TimeoutTalks
  <2> QED BY <2>1 DEF Kind
<1>5. ASSUME NEW p \in Places, Lock(p) PROVE Kind
  <2>1. Talks(p)
    BY <1>0, <1>5, LockTalks
  <2> QED BY <2>1 DEF Kind
<1>6. ASSUME NEW p \in Places, Unlock(p) PROVE Kind
  <2>1. Talks(p)
    BY <1>0, <1>6, UnlockTalks
  <2> QED BY <2>1 DEF Kind
<1>7. ASSUME NEW p \in Places, Quit(p) PROVE Kind
  <2>1. Leaves(p)
    BY <1>0, <1>7, QuitLeaves
  <2> QED BY <2>1 DEF Kind
<1>8. ASSUME NEW s \in Sockets, ConnectionLost(s) PROVE Kind
  BY <1>8 DEF Kind
<1>9. ASSUME ServerRestart PROVE Kind
  BY <1>9 DEF Kind
<1> QED BY <1>1, <1>2, <1>3, <1>4, <1>5, <1>6, <1>7, <1>8, <1>9 DEF Next

LEMMA AttemptsBounded ==
  ASSUME IMSessionAssumption, Types, Next
  PROVE  attempts' \in 0 .. MaxAttempts + MaxReturns
<1>1. /\ attempts \in 0 .. MaxAttempts + MaxReturns
      /\ MaxAttempts \in Nat /\ MaxReturns \in Nat
  BY DEF Types, IMSessionAssumption
<1>2. \/ attempts' = attempts
      \/ attempts' = attempts + 1 /\ attempts < MaxAttempts
      \/ attempts' = attempts + 1 /\ attempts < MaxAttempts + MaxReturns
  BY DEF Next, Handle, HandleRequest, HandleWrongPassword, HandleLogin, HandleState,
         HandleDisconnected, Receive, LetIn, LoginSucceeded, LoginFailed, KickedOff, ServerLost,
         ConnectionLost, ClickLogin, AutoLogin, LoginTimeout, SignInAgain, CloseDialog, Lock,
         Unlock, Quit, ServerRestart
<1> QED BY <1>1, <1>2

LEMMA NextIInv ==
  ASSUME IMSessionAssumption, IInv, Next
  PROVE  IInv'
<1>0. Kind /\ attempts' \in 0 .. MaxAttempts + MaxReturns
  BY Kinds, AttemptsBounded DEF IInv
<1>1. ASSUME NEW p \in Places, Talks(p) PROVE IInv'
  BY <1>0, <1>1, TalksKeeps
<1>2. ASSUME NEW p \in Places, Leaves(p) PROVE IInv'
  BY <1>0, <1>2, LeavesKeeps
<1>3. ASSUME NEW p \in Places, NEW s \in Sockets, Connects(p, s) PROVE IInv'
  BY <1>0, <1>3, ConnectsKeeps
<1>4. ASSUME NEW s \in Sockets, Ignores(s) PROVE IInv'
  BY <1>0, <1>4, IgnoresKeeps
<1>5. ASSUME NEW s \in Sockets, ConnectionLost(s) PROVE IInv'
  BY <1>0, <1>5, LostKeeps
<1>6. ASSUME NEW s \in Sockets, Answers(s) \/ Drops(s) PROVE IInv'
  BY <1>0, <1>6, AnswersKeeps
<1>7. ASSUME NEW s \in Sockets, NEW u \in Users, LogsIn(s, u) PROVE IInv'
  BY <1>0, <1>7, LogsInKeeps
<1>8. ASSUME NEW s \in Sockets, NEW u \in Users, NEW st \in States, Changes(s, u, st) PROVE IInv'
  BY <1>0, <1>8, ChangesKeeps
<1>9. ASSUME ServerRestart PROVE IInv'
  BY <1>0, <1>9, RestartKeeps
<1> QED BY <1>0, <1>1, <1>2, <1>3, <1>4, <1>5, <1>6, <1>7, <1>8, <1>9 DEF Kind

LEMMA StutterIInv ==
  ASSUME IInv, UNCHANGED vars
  PROVE  IInv'
<1>1. Types' /\ Connections' /\ Clients' /\ Sessions' /\ PresenceTold'
  BY DEF IInv, vars, Types, Connections, Connection, Open, Clients, Client, Shown, Sessions,
         PresenceTold
<1>2. \A s \in Sockets : \A k : Holds(s, k)' <=> Holds(s, k)
  BY DEF vars, Holds, Open
<1>3. KeysApart'
  BY <1>2 DEF IInv, vars, KeysApart
<1>4. (\A s \in Sockets : Replies(s)') /\ (\A u \in Users : Found(u)')
  BY DEF IInv, vars, Replies, NotYet, Open, Found
<1>5. \A u, k : \A s \in Sockets : SignedOn(u, k, s)' <=> SignedOn(u, k, s)
  BY DEF vars, SignedOn, NoFarewell
<1>6. \A s \in Sockets : Agreed(s)'
  BY <1>5 DEF IInv, vars, Agreed
<1> QED BY <1>1, <1>3, <1>4, <1>6 DEF IInv
-----------------------------------------------------------------------------
(* What follows from the invariant                                         *)

LEMMA IInvTypeOK ==
  ASSUME IMSessionAssumption, IInv
  PROVE  TypeOK
<1>0. Types /\ Clients /\ KeysApart /\ server \in ServerStates
  BY DEF IInv, Types
<1>1. ASSUME NEW k \in SessionKeys, \A n \in Nat \ {0} : k = SessionKey(n) => n <= server.logins
      PROVE  k \in Keys
  <2>1. PICK n \in Nat \ {0} : k = SessionKey(n)
    BY DEF SessionKeys
  <2>2. n \in 1 .. server.logins
    BY <1>0, <1>1, <2>1 DEF ServerStates
  <2> QED BY <2>1, <2>2 DEF Keys
<1>2. \A u \in Users : server.key[u] \in Keys
  <2> SUFFICES ASSUME NEW u \in Users PROVE server.key[u] \in Keys
    OBVIOUS
  <2>1. server.key[u] \in {FirstKey} \cup SessionKeys
    BY <1>0 DEF ServerStates
  <2>2. \A n \in Nat \ {0} : server.key[u] = SessionKey(n) => n <= server.logins
    BY <1>0 DEF KeysApart
  <2>3. FirstKey \in Keys
    BY DEF Keys
  <2> QED BY <1>1, <2>1, <2>2, <2>3
<1>3. ASSUME NEW p \in Places
      PROVE  /\ client[p].page \in {"normal", "verifying", "locked"}
             /\ client[p].sock \in OfPlace(p) \cup {NoSocket}
             /\ client[p].state \in States /\ client[p].before \in States
             /\ client[p].user \in Users \cup {NoUser}
             /\ client[p].key \in Keys
  <2>1. client[p] \in Programs /\ Client(p)
    BY <1>0 DEF Types, Clients
  <2>2. client[p].key \in ClientKeys
    BY <2>1 DEF Programs
  <2>3. \A n \in Nat \ {0} : client[p].key = SessionKey(n) => n <= server.logins
    BY <1>0 DEF KeysApart
  <2>4. NoKey \in Keys /\ \A u \in Users : PasswordKey(u) \in Keys
    BY DEF Keys
  <2>5. client[p].key \in Keys
    BY <1>1, <2>2, <2>3, <2>4 DEF ClientKeys
  <2> QED BY <2>1, <2>5 DEF Programs, Client
<1>4. server.key \in [Users -> Keys]
  BY <1>0, <1>2 DEF ServerStates
<1> QED BY <1>0, <1>3, <1>4 DEF TypeOK, Types, ServerStates

LEMMA IInvOnlineIsWatched ==
  ASSUME IMSessionAssumption, IInv
  PROVE  OnlineIsWatched
<1> SUFFICES ASSUME NEW u \in Users, server.state[u] # "offline",
                    loggedOn[server.sock[u]] = 1, u \notin returned
             PROVE  /\ server.watched[server.sock[u]] = u
                    /\ \/ link[server.sock[u]] = "up"
                       \/ \E i \in 1 .. Len(toServer[server.sock[u]]) :
                            toServer[server.sock[u]][i] = Disconnected
  BY DEF OnlineIsWatched
<1>1. PICK s \in Sockets : s = server.sock[u]
  BY DEF IInv, Sessions, Types, ServerStates
<1>2. server.watched[s] = u /\ (link[s] = "up" \/ Disconnected \in ToSet(toServer[s]))
  BY <1>1 DEF IInv, Found
<1>3. toServer[s] \in Seq(ToServerPackets)
  BY DEF IInv, Types
<1>4. link[s] = "up" \/ \E i \in 1 .. Len(toServer[s]) : toServer[s][i] = Disconnected
  BY <1>2, <1>3, ToSetFacts
<1> QED BY <1>1, <1>2, <1>4

LEMMA IInvLossIsNoticed ==
  ASSUME IMSessionAssumption, IInv
  PROVE  LossIsNoticed
<1> SUFFICES ASSUME NEW p \in Places, NEW s \in OfPlace(p), client[p].sock = s, link[s] # "up"
             PROVE  \E i \in 1 .. Len(toClient[s]) :
                      toClient[s][i].type \in {"kicked", "disconnected"}
  BY DEF LossIsNoticed
<1>1. s \in Sockets /\ s[1] = p
  BY DEF OfPlace
<1>2. Ended(toClient[s])
  BY <1>1 DEF IInv, Connections, Connection, Open
<1>3. toClient[s] \in Seq(ToClientPackets)
  BY <1>1 DEF IInv, Types
<1>4. PICK e \in ToSet(toClient[s]) : e.type \in Ends
  BY <1>2 DEF Ended
<1>5. PICK i \in 1 .. Len(toClient[s]) : toClient[s][i] = e
  BY <1>3, <1>4, ToSetFacts
<1> QED BY <1>4, <1>5 DEF Ends

\* A client that is signed in, and has handled what it was sent, has the session that the
\* server takes its user to have.
LEMMA SignedInAgrees ==
  ASSUME IMSessionAssumption, IInv, NEW p \in Places, SignedIn(p), toClient[client[p].sock] = <<>>
  PROVE  client[p].sock \in OfPlace(p) /\ server.sock[client[p].user] = client[p].sock
<1>1. client[p].verified /\ client[p].key[1] = "session" /\ loggedOn[client[p].sock] = 1
  BY DEF SignedIn
<1>2. PICK s : s = client[p].sock
  OBVIOUS
<1>3. s \in OfPlace(p) /\ s \in Sockets /\ s[1] = p
  BY <1>1, <1>2 DEF IInv, Clients, Client, OfPlace
<1>4. client[p].key \in SessionKeys
  <2>1. client[p].key \in ClientKeys
    BY DEF IInv, Types, Programs
  <2> QED BY <1>1, <2>1, KeyKinds
<1>5. link[s] = "up"
  <2>1. ~Ended(toClient[s])
    <3>1. ToSet(<<>>) = {}
      BY DEF ToSet
    <3> QED BY <1>2, <3>1 DEF Ended
  <2> QED BY <1>2, <1>3, <2>1 DEF IInv, Connections, Connection, Open
<1>6. SignedOn(client[p].user, client[p].key, s)
  <2>1. Agreed(s)
    BY <1>3 DEF IInv
  <2> QED BY <1>1, <1>2, <1>3, <1>4, <1>5, <2>1 DEF Agreed
<1> QED BY <1>2, <1>3, <1>6 DEF SignedOn

LEMMA IInvOneVerified ==
  ASSUME IMSessionAssumption, IInv
  PROVE  OneVerified
<1> SUFFICES ASSUME NEW p \in Places, NEW q \in Places, p # q, SignedIn(p), SignedIn(q),
                    client[p].user = client[q].user,
                    toClient[client[p].sock] = <<>>, toClient[client[q].sock] = <<>>
             PROVE  FALSE
  BY DEF OneVerified
<1>1. client[p].sock \in OfPlace(p) /\ server.sock[client[p].user] = client[p].sock
  BY SignedInAgrees
<1>2. client[q].sock \in OfPlace(q) /\ server.sock[client[q].user] = client[q].sock
  BY SignedInAgrees
<1> QED BY <1>1, <1>2 DEF OfPlace

\* The inductive invariant holds of every behaviour: for any users, computers, contacts and
\* bounds, whatever is lost, repeated or overtaken between the programs.
THEOREM Invariance == Spec => []IInv
<1>1. IMSessionAssumption
  BY IMSessionAssumption
<1>2. Init => IInv
  BY <1>1, InitIInv
<1>3. IInv /\ [Next]_vars => IInv'
  BY <1>1, NextIInv, StutterIInv
<1> QED BY <1>2, <1>3, PTL DEF Spec

\* The state is always one that the declarations allow, and every session key in it was
\* generated by the server (MainWindow, LoginWidget, UserInfo, ServerPacketsParser).
THEOREM TypesCorrect == Spec => []TypeOK
<1>1. IInv => TypeOK
  BY IMSessionAssumption, IInvTypeOK
<1> QED BY <1>1, Invariance, PTL

\* peerDisconnected() can always find a user who is online after one login over a socket:
\* by that socket, which works or whose loss is on its way to the handler.
THEOREM UsersAreFound == Spec => []OnlineIsWatched
<1>1. IInv => OnlineIsWatched
  BY IMSessionAssumption, IInvOnlineIsWatched
<1> QED BY <1>1, Invariance, PTL

\* logUserIn() leaves a user one session: m_userSocketsHash knows a user by no socket but
\* the one that packets for the user are sent to.
THEOREM SessionsAreSingle == Spec => []OneSession
<1>1. IInv => OneSession
  BY DEF IInv, Sessions, OneSession
<1> QED BY <1>1, Invariance, PTL

\* The kick ends the first session at the client, too: when two clients take themselves for
\* signed in as one user, one of them has yet to handle what it was sent.
THEOREM SignedInOnce == Spec => []OneVerified
<1>1. IInv => OneVerified
  BY IMSessionAssumption, IInvOneVerified
<1> QED BY <1>1, Invariance, PTL

\* What sendContactsOnlineInfo() and processUserOnlineStatusChanged() tell a user of the
\* contacts is always what the server knows of them.
THEOREM ContactsAreTold == Spec => []PresenceTold
<1>1. IInv => PresenceTold
  BY DEF IInv
<1> QED BY <1>1, Invariance, PTL

\* A client whose connection is over has the news of it waiting, as long as it has not
\* closed the socket itself (slotProcessKickedOff() and peerDisconnected() of MainWindow).
THEOREM LossReachesClient == Spec => []LossIsNoticed
<1>1. IInv => LossIsNoticed
  BY IMSessionAssumption, IInvLossIsNoticed
<1> QED BY <1>1, Invariance, PTL
=============================================================================
