-------------------------- MODULE IMMessagesProofs --------------------------
(***************************************************************************)
(* The chat messages for any users, groups and sockets: the inductive      *)
(* invariant that TypeOK, OfflineMessagesWait and OnceInOrder follow from. *)
(***************************************************************************)
EXTENDS IMMessages, SequenceProofs

-----------------------------------------------------------------------------
(* The invariant                                                           *)

Packets ==
       [type : {"login"}, state : {"online", "invisible"}]
  \cup [type : {"message"}, to : Users \cup Groups, n : 1 .. MaxMessages]
  \cup [type : {"state"}, state : {"online", "offline"}]
  \cup [type : {"disconnected"}]

ServerStates == [state   : [Users -> {"online", "invisible", "offline"}],
                 sock    : [Users -> Sockets \cup {NoSocket}],
                 login   : [Users -> 0 .. MaxTime],
                 watched : SUBSET Sockets]

Rows == [Users -> [login : 0 .. MaxTime, logout : 0 .. MaxTime]]

\* The types, those of what is on its way among them.
Types ==
  /\ clock \in 1 .. MaxTime
  /\ link \in [Sockets -> {"unused", "up", "down"}]
  /\ toServer \in [Sockets -> Seq(Packets)]
  /\ session \in [Sockets -> {"none", "online", "invisible", "offline"}]
  /\ server \in ServerStates
  /\ row \in Rows
  /\ saved \in Seq(Messages)
  /\ sent \in [Users -> Seq(Messages)]
  /\ due \in [Users -> SUBSET Messages]
  /\ earlier \in 0 .. Len(saved)
  /\ written \in 0 .. MaxMessages

\* The socket that a user's last login came over.
Current(s) == server.sock[Owner[s]] = s

\* A socket is used for one login, which comes first; its end comes last.
Connection(s) ==
  /\ link[s] # "up" => session[s] = "none"
  /\ link[s] = "unused" => toServer[s] = <<>> /\ ~Current(s)
  /\ \A i \in 1 .. Len(toServer[s]) : toServer[s][i].type = "login" =>
       /\ i = 1 /\ ~Current(s) /\ session[s] = "none"
       /\ \A j \in 2 .. Len(toServer[s]) : toServer[s][j].type = "disconnected"
  /\ \A i \in 1 .. Len(toServer[s]) : toServer[s][i].type = "disconnected" =>
       i = Len(toServer[s]) /\ link[s] = "down"

Connections == \A s \in Sockets : Connection(s)

\* The login that the server remembers is the one of the last row, and a user who is not
\* offline is so by a login over a socket of his, which has no logout yet.
Logins ==
  /\ \A u \in Users : server.sock[u] # NoSocket =>
       Owner[server.sock[u]] = u /\ server.login[u] = row[u].login
  /\ \A u \in Users : server.state[u] # "offline" =>
       server.sock[u] # NoSocket /\ row[u].logout = row[u].login
  /\ \A u \in Users : row[u].login <= clock /\ row[u].logout <= clock
  /\ \A s \in server.watched : Current(s) /\ server.state[Owner[s]] # "offline"

\* The database has the messages in the order of the seconds they came in, and those of
\* one user in the order they were written in.
InOrder ==
  /\ \A i \in 1 .. Len(saved) : saved[i].time <= clock /\ saved[i].n <= written
  /\ \A i, j \in 1 .. Len(saved) : i < j =>
       /\ saved[i].time <= saved[j].time
       /\ saved[i].from = saved[j].from => saved[i].n < saved[j].n

\* So are those on their way over the user's current socket, after all that are saved.
Coming(s) ==
  /\ \A i \in 1 .. Len(toServer[s]) : toServer[s][i].type = "message" =>
       /\ toServer[s][i].n <= written
       /\ \A k \in 1 .. Len(saved) :
            saved[k].from = Owner[s] => saved[k].n < toServer[s][i].n
  /\ \A i, j \in 1 .. Len(toServer[s]) :
       /\ i < j
       /\ toServer[s][i].type = "message" /\ toServer[s][j].type = "message"
       => toServer[s][i].n < toServer[s][j].n

ToCome == \A s \in Sockets : Current(s) => Coming(s)

\* What the server takes the owner of s for, or is told after i packets more.
SaysOffline(s, i) ==
  IF i = 0 THEN server.state[Owner[s]] = "offline"
           ELSE toServer[s][i] = StateChange("offline")

\* A client that has said that its user is offline writes nothing before it says otherwise.
Seen(s) ==
  \A i \in 0 .. Len(toServer[s]) : SaysOffline(s, i) =>
    /\ \/ session[s] \in {"none", "offline"}
       \/ \E k \in i + 1 .. Len(toServer[s]) : toServer[s][k] = StateChange("online")
    /\ \A j \in i + 1 .. Len(toServer[s]) : toServer[s][j].type = "message" =>
         \E k \in i + 1 .. j - 1 : toServer[s][k] = StateChange("online")

SeenWhenWriting == \A s \in Sockets : Current(s) => Seen(s)

\* The logout of a user who is offline is not before anything that was sent to the user or,
\* since the server was started, came from the user.
LoggedOutAfter ==
  \A u \in Users : server.state[u] = "offline" =>
    /\ \A i \in 1 .. Len(sent[u]) : sent[u][i].time <= row[u].logout
    /\ \A i \in earlier + 1 .. Len(saved) :
         saved[i].from = u => saved[i].time <= row[u].logout

\* What was sent, or is to be sent, is in the database.
Kept ==
  \A u \in Users :
    /\ \A i \in 1 .. Len(sent[u]) : sent[u][i] \in ToSet(saved)
    /\ \A m \in due[u] : m \in ToSet(saved) /\ u \in Receivers(m)

IInv == /\ Types /\ Connections /\ Logins /\ InOrder /\ ToCome /\ SeenWhenWriting
        /\ LoggedOutAfter /\ Kept /\ OfflineMessagesWait /\ OnceInOrder

-----------------------------------------------------------------------------
(* What a login sends                                                      *)

LEMMA SelectedFromSaved ==
  ASSUME Types, InOrder, NEW set
  PROVE  LET r == Selected(saved, set) IN
         /\ r \in Seq(Messages)
         /\ \A i \in 1 .. Len(r) : r[i] \in set
         /\ \A i \in 1 .. Len(saved) : saved[i] \in set => \E j \in 1 .. Len(r) : r[j] = saved[i]
         /\ \A i, j \in 1 .. Len(r) : i < j /\ r[i].from = r[j].from => r[i].n < r[j].n
<1>1. PICK r : r = Selected(saved, set)
  OBVIOUS
<1>2. saved \in Seq(Messages)
  BY DEF Types
<1>3. r \in Seq(Messages) /\ \E at : SelectsBy(saved, set, r, at)
  BY <1>1, <1>2, SelectedProperties
<1>4. PICK at : SelectsBy(saved, set, r, at)
  BY <1>3
<1>5. \A i \in 1 .. Len(r) : r[i] \in set
  BY <1>4 DEF SelectsBy
<1>6. \A i \in 1 .. Len(saved) : saved[i] \in set => \E j \in 1 .. Len(r) : r[j] = saved[i]
  BY <1>4 DEF SelectsBy
<1>7. ASSUME NEW i \in 1 .. Len(r), NEW j \in 1 .. Len(r), i < j, r[i].from = r[j].from
      PROVE  r[i].n < r[j].n
  <2>1. at[i] \in 1 .. Len(saved) /\ at[j] \in 1 .. Len(saved) /\ at[i] < at[j]
        /\ r[i] = saved[at[i]] /\ r[j] = saved[at[j]]
    BY <1>4, <1>7 DEF SelectsBy
  <2> QED BY <1>7, <2>1 DEF InOrder
<1> QED BY <1>1, <1>3, <1>5, <1>6, <1>7

LEMMA CachedFacts ==
  ASSUME IMMessagesAssumption, Types, InOrder, NEW u \in Users, NEW last
  PROVE  LET c == Cached(u, last) IN
         /\ c \in Seq(Messages)
         /\ \A i \in 1 .. Len(c) : /\ c[i] \in ToSet(saved)
                                   /\ u \in Receivers(c[i]) /\ c[i].time > last.logout
         /\ \A m \in ToSet(saved) : u \in Receivers(m) /\ m.time > last.logout => m \in ToSet(c)
         /\ \A i, j \in 1 .. Len(c) :
              i < j /\ c[i].from = c[j].from /\ c[i].to = c[j].to => c[i].n < c[j].n
<1> DEFINE fromContacts == { m \in SavedAfter(u, last.logout) : m.to = u }
           fromGroups == { m \in SavedAfter(u, last.logout) : m.to \in Groups }
<1>1. PICK a : a = Selected(saved, fromContacts)
  OBVIOUS
<1>2. PICK b : b = Selected(saved, fromGroups)
  OBVIOUS
<1>3. /\ a \in Seq(Messages)
      /\ \A i \in 1 .. Len(a) : a[i] \in fromContacts
      /\ \A i \in 1 .. Len(saved) : saved[i] \in fromContacts => \E j \in 1 .. Len(a) : a[j] = saved[i]
      /\ \A i, j \in 1 .. Len(a) : i < j /\ a[i].from = a[j].from => a[i].n < a[j].n
  <2> HIDE DEF fromContacts
  <2> QED BY <1>1, SelectedFromSaved
<1>4. /\ b \in Seq(Messages)
      /\ \A i \in 1 .. Len(b) : b[i] \in fromGroups
      /\ \A i \in 1 .. Len(saved) : saved[i] \in fromGroups => \E j \in 1 .. Len(b) : b[j] = saved[i]
      /\ \A i, j \in 1 .. Len(b) : i < j /\ b[i].from = b[j].from => b[i].n < b[j].n
  <2> HIDE DEF fromGroups
  <2> QED BY <1>2, SelectedFromSaved
<1>5. PICK c : c = a \o b
  OBVIOUS
<1>6. Cached(u, last) = c
  BY <1>1, <1>2, <1>5 DEF Cached
<1>7. /\ c \in Seq(Messages) /\ Len(a) \in Nat /\ Len(b) \in Nat /\ Len(c) = Len(a) + Len(b)
      /\ \A i \in 1 .. Len(a) : c[i] = a[i]
      /\ \A i \in 1 .. Len(b) : c[Len(a) + i] = b[i]
      /\ \A i \in 1 .. Len(c) : \/ i \in 1 .. Len(a) /\ c[i] = a[i]
                                \/ i - Len(a) \in 1 .. Len(b) /\ c[i] = b[i - Len(a)]
  BY <1>3, <1>4, <1>5, ConcatFacts
<1>8. \A m \in fromContacts \cup fromGroups :
        m \in ToSet(saved) /\ u \in Receivers(m) /\ m.time > last.logout
  BY DEF SavedAfter
<1>9. \A m \in ToSet(saved) : u \in Receivers(m) /\ m.time > last.logout =>
        m \in fromContacts \cup fromGroups
  BY DEF SavedAfter, Receivers
<1>10. \A m \in fromContacts : m.to \notin Groups
  BY DEF IMMessagesAssumption
<1>11. \A m \in fromGroups : m.to \in Groups
  OBVIOUS
<1> HIDE DEF fromContacts, fromGroups
<1>12. \A i \in 1 .. Len(c) : c[i] \in fromContacts \cup fromGroups
  BY <1>3, <1>4, <1>7
<1>13. ASSUME NEW m \in ToSet(saved), m \in fromContacts \cup fromGroups
       PROVE  m \in ToSet(c)
  <2>1. saved \in Seq(Messages)
    BY DEF Types
  <2>2. PICK i \in 1 .. Len(saved) : saved[i] = m
    BY <1>13, <2>1, ToSetFacts
  <2>3. \E j \in 1 .. Len(c) : c[j] = m
    <3>1. CASE m \in fromContacts
      <4>1. PICK j \in 1 .. Len(a) : a[j] = m
        BY <1>3, <2>2, <3>1
      <4>2. j \in 1 .. Len(c) /\ c[j] = m
        BY <1>7, <4>1
      <4> QED BY <4>2
    <3>2. CASE m \in fromGroups
      <4>1. PICK j \in 1 .. Len(b) : b[j] = m
        BY <1>4, <2>2, <3>2
      <4>2. Len(a) + j \in 1 .. Len(c) /\ c[Len(a) + j] = m
        BY <1>7, <4>1
      <4> QED BY <4>2
    <3> QED BY <1>13, <3>1, <3>2
  <2> QED BY <1>7, <2>3, ToSetFacts
<1>14. ASSUME NEW i \in 1 .. Len(c), NEW j \in 1 .. Len(c), i < j,
              c[i].from = c[j].from, c[i].to = c[j].to
       PROVE  c[i].n < c[j].n
  <2>1. CASE i \in 1 .. Len(a) /\ j \in 1 .. Len(a)
    BY <1>3, <1>7, <1>14, <2>1
  <2>2. CASE i - Len(a) \in 1 .. Len(b) /\ j - Len(a) \in 1 .. Len(b)
    <3>1. c[i] = b[i - Len(a)] /\ c[j] = b[j - Len(a)]
      BY <1>7, <2>2
    <3>2. i - Len(a) < j - Len(a)
      BY <1>7, <1>14
    <3>3. PICK k \in 1 .. Len(b), l \in 1 .. Len(b) : k = i - Len(a) /\ l = j - Len(a)
      BY <2>2
    <3>4. k < l /\ b[k].from = b[l].from /\ b[k].to = b[l].to
      BY <1>14, <3>1, <3>2, <3>3
    <3>5. b[k].n < b[l].n
      BY <1>4, <3>4
    <3> QED BY <3>1, <3>3, <3>5
  <2>3. CASE i \in 1 .. Len(a) /\ j - Len(a) \in 1 .. Len(b)
    <3>1. PICK k \in 1 .. Len(b) : k = j - Len(a)
      BY <2>3
    <3>2. c[i] = a[i] /\ c[j] = b[k]
      <4>1. ~(j \in 1 .. Len(a))
        BY <1>7, <2>3
      <4> QED BY <1>7, <1>14, <2>3, <3>1, <4>1
    <3>3. c[i] \in fromContacts /\ c[j] \in fromGroups
      BY <1>3, <1>4, <2>3, <3>1, <3>2
    <3> QED BY <3>3, <1>10, <1>11, <1>14
  <2>4. CASE i - Len(a) \in 1 .. Len(b) /\ j \in 1 .. Len(a)
    BY <1>7, <1>14, <2>4
  <2> QED BY <1>7, <2>1, <2>2, <2>3, <2>4
<1> QED BY <1>6, <1>7, <1>8, <1>9, <1>12, <1>13, <1>14

-----------------------------------------------------------------------------
(* What the actions do                                                     *)

LEMMA PacketKinds ==
  ASSUME NEW p \in Packets
  PROVE  /\ p.type \in {"login", "message", "state", "disconnected"}
         /\ p.type = "login" => p.state \in {"online", "invisible"}
         /\ p.type = "message" => p.to \in Users \cup Groups /\ p.n \in 1 .. MaxMessages
         /\ p.type = "state" => p.state \in {"online", "offline"} /\ p = StateChange(p.state)
         /\ p.type # "state" => p # StateChange("online") /\ p # StateChange("offline")
BY DEF Packets, StateChange

\* The state and the row of a user who goes offline.
LEMMA GoesOffline ==
  ASSUME Types, Logins, NEW u \in Users, server.sock[u] # NoSocket,
         NEW c, c = StatusChanged(server, row, u, "offline")
  PROVE  /\ c.sv \in ServerStates /\ c.rows \in Rows
         /\ c.sv.state = [server.state EXCEPT ![u] = "offline"]
         /\ c.sv.sock = server.sock
         /\ c.sv.login = server.login
         /\ c.sv.watched = server.watched \ {server.sock[u]}
         /\ c.rows = [row EXCEPT ![u].logout = clock]
<1>1. server.login[u] = row[u].login
  BY DEF Types, Logins
<1>2. /\ c.sv = [server EXCEPT !.state[u] = "offline", !.watched = @ \ {server.sock[u]}]
      /\ c.rows = [row EXCEPT ![u].logout = clock]
  BY <1>1 DEF StatusChanged, LogUserOut
<1>3. clock \in 0 .. MaxTime
  BY DEF Types
<1>4. [server EXCEPT !.state[u] = "offline", !.watched = @ \ {server.sock[u]}] \in ServerStates
  BY DEF Types, ServerStates
<1>5. [row EXCEPT ![u].logout = clock] \in Rows
  BY <1>3 DEF Types, Rows
<1>6. /\ c.sv.state = [server.state EXCEPT ![u] = "offline"]
      /\ c.sv.sock = server.sock
      /\ c.sv.login = server.login
      /\ c.sv.watched = server.watched \ {server.sock[u]}
  BY <1>2 DEF Types, ServerStates
<1>7. c.rows = [row EXCEPT ![u].logout = clock]
  BY <1>2
<1> QED BY <1>2, <1>4, <1>5, <1>6, <1>7

\* What is sent to u came after the logout that the end of the last session leaves.
SendsCached(u) ==
  \E last \in [login : 0 .. MaxTime, logout : 0 .. MaxTime] :
    /\ last.logout = IF server.state[u] = "offline" THEN row[u].logout ELSE clock
    /\ sent'[u] = sent[u] \o Cached(u, last)
    /\ due'[u] = due[u] \ ToSet(Cached(u, last))

\* A login kicks the user's other socket, if the user is not offline, and sends what came
\* after the logout that this leaves.
LEMMA LoginEffect ==
  ASSUME IMMessagesAssumption, Types, Connections, Logins, InOrder,
         NEW s \in Sockets, HandleLogin(s)
  PROVE  LET u == Owner[s] IN
    /\ u \in Users /\ ~Current(s) /\ toServer[s] # <<>> /\ toServer[s][1].type = "login"
    /\ server' \in ServerStates /\ row' \in Rows
    /\ \E st \in {"online", "invisible"} :
         server'.state[u] = st /\ session'[s] = IF link[s] = "up" THEN st ELSE "none"
    /\ server'.sock[u] = s /\ server'.login[u] = clock
    /\ row'[u].login = clock /\ row'[u].logout = clock
    /\ \A v \in Users : v # u =>
         /\ server'.state[v] = server.state[v] /\ server'.sock[v] = server.sock[v]
         /\ server'.login[v] = server.login[v] /\ row'[v] = row[v]
         /\ sent'[v] = sent[v] /\ due'[v] = due[v]
    /\ \A t \in server'.watched : t = s \/ (t \in server.watched /\ t # server.sock[u])
    /\ sent' \in [Users -> Seq(Messages)] /\ due' \in [Users -> SUBSET Messages]
    /\ SendsCached(u)
    /\ toServer' \in [Sockets -> Seq(Packets)]
    /\ toServer'[s] = Tail(toServer[s])
    /\ session' \in [Sockets -> {"none", "online", "invisible", "offline"}]
    /\ \A t \in Sockets : t # s =>
         /\ toServer'[t] \in Prefixes(toServer[t])
         /\ session'[t] \in {session[t], "none"}
         /\ t # server.sock[u] => toServer'[t] = toServer[t] /\ session'[t] = session[t]
    /\ link' \in [Sockets -> {"unused", "up", "down"}]
    /\ \A t \in Sockets :
         \/ link'[t] = link[t]
         \/ t # s /\ link'[t] = "down" /\ link[t] # "unused" /\ session'[t] = "none"
    /\ UNCHANGED <<clock, saved, earlier, written>>
<1> DEFINE u == Owner[s]
           old == server.sock[u]
<1>1. u \in Users
  BY DEF IMMessagesAssumption
<1>2. toServer[s] # <<>> /\ toServer[s][1] = Head(toServer[s]) /\ toServer[s][1].type = "login"
      /\ toServer[s] \in Seq(Packets) /\ 1 \in 1 .. Len(toServer[s]) /\ toServer[s][1] \in Packets
  <2>1. toServer[s] # <<>> /\ Head(toServer[s]).type = "login" /\ toServer[s] \in Seq(Packets)
    BY DEF HandleLogin, Types
  <2> QED BY <2>1, TailFacts
<1>3. ~Current(s) /\ s # old
  BY <1>2 DEF Connections, Connection, Current
<1>4. PICK st : st = Head(toServer[s]).state
  OBVIOUS
<1>5. st \in {"online", "invisible"}
  BY <1>2, <1>4, PacketKinds
<1>6. Tail(toServer[s]) \in Seq(Packets)
  BY <1>2, TailFacts
<1>7. /\ toServer \in [Sockets -> Seq(Packets)] /\ link \in [Sockets -> {"unused", "up", "down"}]
      /\ session \in [Sockets -> {"none", "online", "invisible", "offline"}]
      /\ server \in ServerStates /\ row \in Rows /\ clock \in 0 .. MaxTime
  BY DEF Types
<1>8. \A t \in Sockets : toServer[t] \in Prefixes(toServer[t])
  <2>1. TAKE t \in Sockets
  <2>2. toServer[t] = SubSeq(toServer[t], 1, Len(toServer[t])) /\ Len(toServer[t]) \in 0 .. Len(toServer[t])
    BY <1>7
  <2> QED BY <2>2 DEF Prefixes
<1>9. UNCHANGED <<clock, saved, earlier, written>>
  BY DEF HandleLogin
<1>10. s \in Up <=> link[s] = "up"
  BY DEF Up
<1>11. \E sv \in ServerStates, rows \in Rows :
         /\ LoginEnters(s, u, [sv |-> sv, rows |-> rows], st)
         /\ sv.sock = server.sock /\ sv.login = server.login
         /\ \A v \in Users : v # u => sv.state[v] = server.state[v] /\ rows[v] = row[v]
         /\ \A t \in sv.watched : t \in server.watched /\ t # server.sock[u]
         /\ rows[u].logout = IF server.state[u] = "offline" THEN row[u].logout ELSE clock
  <2>1. CASE server.state[u] = "offline"
    <3>1. LoginEnters(s, u, [sv |-> server, rows |-> row], st)
      BY <1>4, <2>1 DEF HandleLogin, LoginEnters
    <3>2. \A t \in server.watched : t # server.sock[u]
      BY <2>1, <1>1, <1>7 DEF Logins, Current, ServerStates
    <3> QED BY <1>7, <2>1, <3>1, <3>2
  <2>2. CASE server.state[u] # "offline"
    <3> DEFINE kicked == StatusChanged(server, row, u, "offline")
    <3>1. LoginEnters(s, u, kicked, st)
      BY <1>4, <2>2 DEF HandleLogin, LoginEnters
    <3>2. old # NoSocket
      BY <1>1, <2>2 DEF Logins
    <3>3. /\ kicked.sv \in ServerStates /\ kicked.rows \in Rows
          /\ kicked.sv.state = [server.state EXCEPT ![u] = "offline"]
          /\ kicked.sv.sock = server.sock
          /\ kicked.sv.login = server.login
          /\ kicked.sv.watched = server.watched \ {server.sock[u]}
          /\ kicked.rows = [row EXCEPT ![u].logout = clock]
      BY <1>1, <3>2, GoesOffline
    <3>4. kicked = [sv |-> kicked.sv, rows |-> kicked.rows]
      BY DEF StatusChanged
    <3> HIDE DEF kicked, u
    <3>5. LoginEnters(s, u, [sv |-> kicked.sv, rows |-> kicked.rows], st)
      BY <3>1, <3>4
    <3>6. /\ \A v \in Users : v # u => kicked.sv.state[v] = server.state[v] /\ kicked.rows[v] = row[v]
          /\ kicked.rows[u].logout = clock
      BY <1>1, <1>7, <3>3 DEF ServerStates, Rows
    <3> QED BY <2>2, <3>3, <3>5, <3>6
  <2> QED BY <2>1, <2>2
<1>12. PICK sv \in ServerStates, rows \in Rows :
         /\ LoginEnters(s, u, [sv |-> sv, rows |-> rows], st)
         /\ sv.sock = server.sock /\ sv.login = server.login
         /\ \A v \in Users : v # u => sv.state[v] = server.state[v] /\ rows[v] = row[v]
         /\ \A t \in sv.watched : t \in server.watched /\ t # server.sock[u]
         /\ rows[u].logout = IF server.state[u] = "offline" THEN row[u].logout ELSE clock
  BY <1>11
<1> HIDE DEF u, old
<1>13. /\ server' = [[[sv EXCEPT !.sock[u] = s] EXCEPT !.state[u] = st, !.login[u] = clock]
                       EXCEPT !.watched = @ \cup {s}]
       /\ row' = [rows EXCEPT ![u] = [login |-> clock, logout |-> clock]]
       /\ sent' = [sent EXCEPT ![u] = @ \o Cached(u, rows[u])]
       /\ due' = [due EXCEPT ![u] = @ \ ToSet(Cached(u, rows[u]))]
  BY <1>5, <1>12 DEF LoginEnters, StatusChanged, LogUserIn
<1>14. [[[sv EXCEPT !.sock[u] = s] EXCEPT !.state[u] = st, !.login[u] = clock]
          EXCEPT !.watched = @ \cup {s}] \in ServerStates
  BY <1>1, <1>5, <1>7, <1>12 DEF ServerStates
<1>15. /\ server'.state = [sv.state EXCEPT ![u] = st]
       /\ server'.sock = [sv.sock EXCEPT ![u] = s]
       /\ server'.login = [sv.login EXCEPT ![u] = clock]
       /\ server'.watched = sv.watched \cup {s}
  BY <1>12, <1>13 DEF ServerStates
<1>16. [rows EXCEPT ![u] = [login |-> clock, logout |-> clock]] \in Rows
  BY <1>1, <1>7, <1>12 DEF Rows
<1>17. /\ server'.state = [server.state EXCEPT ![u] = st]
       /\ row' = [row EXCEPT ![u] = [login |-> clock, logout |-> clock]]
  <2>1. /\ sv.state \in [Users -> {"online", "invisible", "offline"}]
        /\ server.state \in [Users -> {"online", "invisible", "offline"}]
    BY <1>7, <1>12 DEF ServerStates
  <2>2. rows \in [Users -> [login : 0 .. MaxTime, logout : 0 .. MaxTime]]
        /\ row \in [Users -> [login : 0 .. MaxTime, logout : 0 .. MaxTime]]
    BY <1>7, <1>12 DEF Rows
  <2>3. [sv.state EXCEPT ![u] = st] = [server.state EXCEPT ![u] = st]
    BY <2>1, <1>12
  <2>4. [rows EXCEPT ![u] = [login |-> clock, logout |-> clock]] =
        [row EXCEPT ![u] = [login |-> clock, logout |-> clock]]
    BY <2>2, <1>12
  <2> QED BY <2>3, <2>4, <1>13, <1>15
<1>18. /\ rows[u] \in [login : 0 .. MaxTime, logout : 0 .. MaxTime]
       /\ rows[u].logout = IF server.state[u] = "offline" THEN row[u].logout ELSE clock
  BY <1>1, <1>12 DEF Rows
<1>19. \A t \in server'.watched : t = s \/ (t \in server.watched /\ t # server.sock[u])
  BY <1>12, <1>15
<1>20. /\ toServer' \in [Sockets -> Seq(Packets)]
       /\ toServer'[s] = Tail(toServer[s])
       /\ session' \in [Sockets -> {"none", "online", "invisible", "offline"}]
       /\ session'[s] = IF link[s] = "up" THEN st ELSE "none"
       /\ \A t \in Sockets : t # s =>
            toServer'[t] \in Prefixes(toServer[t]) /\ session'[t] \in {session[t], "none"}
       /\ \A t \in Sockets : t # s /\ t # old =>
            toServer'[t] = toServer[t] /\ session'[t] = session[t]
       /\ link' \in [Sockets -> {"unused", "up", "down"}]
       /\ \A t \in Sockets :
            \/ link'[t] = link[t]
            \/ t # s /\ link'[t] = "down" /\ link[t] # "unused" /\ session'[t] = "none"
  <2>1. CASE server.state[u] = "offline"
    <3>1. /\ toServer' = Taken(s)
          /\ session' = [session EXCEPT ![s] = IF s \in Up THEN st ELSE "none"]
          /\ link' = link
      BY <1>4, <2>1 DEF HandleLogin, u
    <3> QED BY <3>1, <1>5, <1>6, <1>7, <1>8, <1>10 DEF Taken
  <2>2. CASE server.state[u] # "offline"
    <3>1. /\ \E q \in Prefixes(toServer[old]) : toServer' = [Taken(s) EXCEPT ![old] = q]
          /\ session' = [session EXCEPT ![old] = "none", ![s] = IF s \in Up THEN st ELSE "none"]
          /\ link' = [link EXCEPT ![old] = "down"]
      BY <1>4, <2>2 DEF HandleLogin, u, old
    <3>2. old \in Sockets /\ Current(old)
      BY <1>1, <1>7, <2>2 DEF ServerStates, Logins, Current, old
    <3>3. PICK q \in Prefixes(toServer[old]) : toServer' = [Taken(s) EXCEPT ![old] = q]
      BY <3>1
    <3>4. q \in Seq(Packets)
      BY <1>7, <3>2, PrefixFacts
    <3>5. /\ toServer' \in [Sockets -> Seq(Packets)]
          /\ toServer'[s] = Tail(toServer[s])
          /\ \A t \in Sockets : t # s => toServer'[t] \in Prefixes(toServer[t])
          /\ \A t \in Sockets : t # s /\ t # old => toServer'[t] = toServer[t]
      BY <1>3, <1>6, <1>7, <1>8, <3>2, <3>3, <3>4 DEF Taken
    <3>6. link[old] # "unused"
      BY <3>2 DEF Connections, Connection
    <3> QED BY <1>3, <1>5, <1>7, <1>10, <3>1, <3>2, <3>5, <3>6
  <2> QED BY <2>1, <2>2
<1>21. /\ sent \in [Users -> Seq(Messages)] /\ due \in [Users -> SUBSET Messages]
       /\ Cached(u, rows[u]) \in Seq(Messages)
  BY <1>1, CachedFacts DEF Types
<1>22. /\ sent' \in [Users -> Seq(Messages)] /\ due' \in [Users -> SUBSET Messages]
       /\ sent'[u] = sent[u] \o Cached(u, rows[u])
       /\ due'[u] = due[u] \ ToSet(Cached(u, rows[u]))
       /\ \A v \in Users : v # u => sent'[v] = sent[v] /\ due'[v] = due[v]
  <2>1. sent[u] \o Cached(u, rows[u]) \in Seq(Messages)
    BY <1>1, <1>21, ConcatFacts
  <2> QED BY <1>1, <1>13, <1>21, <2>1
<1>23. /\ server'.state[u] = st /\ server'.sock[u] = s /\ server'.login[u] = clock
       /\ row'[u].login = clock /\ row'[u].logout = clock
       /\ \A v \in Users : v # u =>
            /\ server'.state[v] = server.state[v] /\ server'.sock[v] = server.sock[v]
            /\ server'.login[v] = server.login[v] /\ row'[v] = row[v]
  BY <1>1, <1>7, <1>12, <1>15, <1>17 DEF ServerStates, Rows
<1>24. SendsCached(u)
  BY <1>18, <1>22 DEF SendsCached
<1>25. \A t \in Sockets : t # s =>
         /\ toServer'[t] \in Prefixes(toServer[t])
         /\ session'[t] \in {session[t], "none"}
         /\ t # server.sock[u] => toServer'[t] = toServer[t] /\ session'[t] = session[t]
  BY <1>20 DEF old
<1>26. /\ toServer' \in [Sockets -> Seq(Packets)]
       /\ toServer'[s] = Tail(toServer[s])
       /\ session' \in [Sockets -> {"none", "online", "invisible", "offline"}]
       /\ session'[s] = IF link[s] = "up" THEN st ELSE "none"
       /\ link' \in [Sockets -> {"unused", "up", "down"}]
       /\ \A t \in Sockets :
            \/ link'[t] = link[t]
            \/ t # s /\ link'[t] = "down" /\ link[t] # "unused" /\ session'[t] = "none"
  BY <1>20
<1>27. server' \in ServerStates /\ row' \in Rows
  BY <1>13, <1>14, <1>16
<1> QED BY <1>1, <1>2, <1>3, <1>5, <1>9, <1>19, <1>22, <1>23, <1>24, <1>25, <1>26, <1>27 DEF u

\* The server and the rows after u's state has become st.
Changes(u, st) ==
  /\ server' \in ServerStates /\ row' \in Rows
  /\ server'.state[u] = st /\ server'.sock = server.sock
  /\ server'.watched = IF st = "offline" THEN server.watched \ {server.sock[u]} ELSE server.watched
  /\ row'[u].logout = clock
  /\ IF st = "offline"
     THEN server'.login[u] = server.login[u] /\ row'[u].login = row[u].login
     ELSE server'.login[u] = clock /\ row'[u].login = clock
  /\ \A v \in Users : v # u => /\ server'.state[v] = server.state[v]
                               /\ server'.login[v] = server.login[v] /\ row'[v] = row[v]

LEMMA ChangesEffect ==
  ASSUME Types, Logins, NEW u \in Users, server.sock[u] # NoSocket,
         NEW st \in {"online", "offline"},
         server' = StatusChanged(server, row, u, st).sv,
         row' = StatusChanged(server, row, u, st).rows
  PROVE  Changes(u, st)
<1>0. clock \in 0 .. MaxTime /\ server \in ServerStates /\ row \in Rows
  BY DEF Types
<1>1. CASE st = "offline"
  <2>1. /\ server' \in ServerStates /\ row' \in Rows
        /\ server'.state = [server.state EXCEPT ![u] = "offline"]
        /\ server'.sock = server.sock
        /\ server'.login = server.login
        /\ server'.watched = server.watched \ {server.sock[u]}
        /\ row' = [row EXCEPT ![u].logout = clock]
    BY <1>1, GoesOffline
  <2>2. /\ server'.state[u] = st /\ row'[u].logout = clock /\ row'[u].login = row[u].login
        /\ \A v \in Users : v # u => server'.state[v] = server.state[v] /\ row'[v] = row[v]
    BY <1>0, <1>1, <2>1 DEF ServerStates, Rows
  <2> QED BY <1>1, <2>1, <2>2 DEF Changes
<1>2. CASE st = "online"
  <2>1. /\ server' = [server EXCEPT !.state[u] = st, !.login[u] = clock]
        /\ row' = [row EXCEPT ![u] = [login |-> clock, logout |-> clock]]
    BY <1>2 DEF StatusChanged, LogUserIn
  <2>3. [server EXCEPT !.state[u] = st, !.login[u] = clock] \in ServerStates
    BY <1>0, <1>2 DEF ServerStates
  <2>4. row' \in Rows
    BY <1>0, <2>1 DEF Rows
  <2>5. /\ server'.state = [server.state EXCEPT ![u] = st]
        /\ server'.sock = server.sock
        /\ server'.login = [server.login EXCEPT ![u] = clock]
        /\ server'.watched = server.watched
    BY <1>0, <2>1 DEF ServerStates
  <2>6. /\ server'.state[u] = st /\ row'[u].logout = clock /\ row'[u].login = clock
        /\ server'.login[u] = clock
        /\ \A v \in Users : v # u => /\ server'.state[v] = server.state[v] /\ row'[v] = row[v]
                                     /\ server'.login[v] = server.login[v]
    BY <1>0, <2>1, <2>5 DEF ServerStates, Rows
  <2> QED BY <1>2, <2>1, <2>3, <2>4, <2>5, <2>6 DEF Changes
<1> QED BY <1>1, <1>2

\* The packet that a handler takes.
LEMMA TakenEffect ==
  ASSUME Types, NEW s \in Sockets, toServer[s] # <<>>, toServer' = Taken(s)
  PROVE  /\ Head(toServer[s]) = toServer[s][1] /\ toServer[s][1] \in Packets
         /\ Len(toServer[s]) \in Nat \ {0}
         /\ toServer' \in [Sockets -> Seq(Packets)]
         /\ toServer'[s] = Tail(toServer[s])
         /\ \A t \in Sockets : t # s => toServer'[t] = toServer[t]
<1>1. toServer \in [Sockets -> Seq(Packets)] /\ toServer[s] \in Seq(Packets)
  BY DEF Types
<1>2. /\ Tail(toServer[s]) \in Seq(Packets) /\ Head(toServer[s]) = toServer[s][1]
      /\ toServer[s][1] \in Packets /\ Len(toServer[s]) \in Nat \ {0}
  BY <1>1, TailFacts
<1> QED BY <1>1, <1>2 DEF Taken

LEMMA StateEffect ==
  ASSUME IMMessagesAssumption, Types, Logins, NEW s \in Sockets, HandleState(s)
  PROVE  /\ toServer[s] # <<>> /\ toServer' = Taken(s)
         /\ \E st \in {"online", "offline"} :
              /\ toServer[s][1] = StateChange(st)
              /\ Current(s) =>
                   /\ Changes(Owner[s], st)
                   /\ \A u \in Users : due'[u] =
                        IF u = Owner[s] /\ server.state[u] = "offline" THEN {} ELSE due[u]
         /\ due' \in [Users -> SUBSET Messages]
         /\ ~Current(s) => UNCHANGED <<server, row, due>>
         /\ UNCHANGED <<clock, link, session, saved, sent, earlier, written>>
<1>1. toServer[s] # <<>> /\ toServer' = Taken(s) /\ Head(toServer[s]).type = "state"
  BY DEF HandleState
<1>2. toServer[s][1] \in Packets /\ toServer[s][1].type = "state" /\ Head(toServer[s]) = toServer[s][1]
  BY <1>1, TakenEffect
<1>3. PICK st : st = Head(toServer[s]).state
  OBVIOUS
<1>4. st \in {"online", "offline"} /\ toServer[s][1] = StateChange(st)
  BY <1>2, <1>3, PacketKinds
<1>5. ASSUME Current(s)
      PROVE  /\ Changes(Owner[s], st)
             /\ due' \in [Users -> SUBSET Messages]
             /\ \A u \in Users : due'[u] =
                  IF u = Owner[s] /\ server.state[u] = "offline" THEN {} ELSE due[u]
  <2>1. /\ server' = StatusChanged(server, row, Owner[s], st).sv
        /\ row' = StatusChanged(server, row, Owner[s], st).rows
        /\ due' = IF server.state[Owner[s]] = "offline"
                  THEN [due EXCEPT ![Owner[s]] = {}] ELSE due
    BY <1>3, <1>5 DEF HandleState, Decrypts, Current
  <2>2. Owner[s] \in Users /\ server.sock[Owner[s]] # NoSocket
    BY <1>5 DEF IMMessagesAssumption, Current
  <2>3. due \in [Users -> SUBSET Messages]
    BY DEF Types
  <2>4. /\ due' \in [Users -> SUBSET Messages]
        /\ \A u \in Users : due'[u] =
             IF u = Owner[s] /\ server.state[u] = "offline" THEN {} ELSE due[u]
    BY <2>1, <2>2, <2>3
  <2> QED BY <1>4, <2>1, <2>2, <2>4, ChangesEffect
<1>6. ~Current(s) => UNCHANGED <<server, row, due>>
  BY DEF HandleState, Decrypts, Current
<1>7. due' \in [Users -> SUBSET Messages]
  BY <1>5, <1>6 DEF Types
<1> QED BY <1>1, <1>4, <1>5, <1>6, <1>7 DEF HandleState

LEMMA DisconnectedEffect ==
  ASSUME IMMessagesAssumption, Types, Logins, NEW s \in Sockets, HandleDisconnected(s)
  PROVE  /\ toServer[s] # <<>> /\ toServer' = Taken(s)
         /\ toServer[s][1].type = "disconnected"
         /\ s \in server.watched => Current(s) /\ Changes(Owner[s], "offline")
         /\ s \notin server.watched => UNCHANGED <<server, row>>
         /\ UNCHANGED <<clock, link, session, saved, sent, due, earlier, written>>
<1>1. toServer[s] # <<>> /\ toServer' = Taken(s) /\ Head(toServer[s]).type = "disconnected"
  BY DEF HandleDisconnected
<1>2. toServer[s][1].type = "disconnected"
  BY <1>1, TakenEffect
<1>3. ASSUME s \in server.watched PROVE Current(s) /\ Changes(Owner[s], "offline")
  <2>1. /\ server' = StatusChanged(server, row, Owner[s], "offline").sv
        /\ row' = StatusChanged(server, row, Owner[s], "offline").rows
    BY <1>3 DEF HandleDisconnected
  <2>2. Current(s)
    BY <1>3 DEF Logins
  <2>3. Owner[s] \in Users /\ server.sock[Owner[s]] # NoSocket
    BY <2>2 DEF IMMessagesAssumption, Current
  <2> QED BY <2>1, <2>2, <2>3, ChangesEffect
<1> QED BY <1>1, <1>2, <1>3 DEF HandleDisconnected

LEMMA MessageEffect ==
  ASSUME IMMessagesAssumption, Types, NEW s \in Sockets, HandleMessage(s)
  PROVE  /\ toServer[s] # <<>> /\ toServer' = Taken(s)
         /\ toServer[s][1].type = "message"
         /\ Current(s) =>
              \E m \in Messages :
                /\ m.from = Owner[s] /\ m.to = toServer[s][1].to
                /\ m.n = toServer[s][1].n /\ m.time = clock
                /\ saved' = Append(saved, m)
                /\ sent' = [u \in Users |-> IF u \in Online(m) THEN Append(sent[u], m) ELSE sent[u]]
                /\ due' = [u \in Users |->
                     IF /\ u \in Receivers(m) \ {m.from}
                        /\ server.state[u] = "offline" /\ clock > row[u].logout
                     THEN due[u] \cup {m} ELSE due[u]]
         /\ ~Current(s) => UNCHANGED <<saved, sent, due>>
         /\ UNCHANGED <<clock, link, session, server, row, earlier, written>>
<1>1. toServer[s] # <<>> /\ toServer' = Taken(s) /\ Head(toServer[s]).type = "message"
  BY DEF HandleMessage
<1>2. toServer[s][1] \in Packets /\ toServer[s][1].type = "message" /\ Head(toServer[s]) = toServer[s][1]
  BY <1>1, TakenEffect
<1>3. PICK m : m = [from |-> Owner[s], to |-> toServer[s][1].to, n |-> toServer[s][1].n, time |-> clock]
  OBVIOUS
<1>4. m \in Messages
  <2>1. toServer[s][1].to \in Users \cup Groups /\ toServer[s][1].n \in 1 .. MaxMessages
    BY <1>2, PacketKinds
  <2>2. clock \in 1 .. MaxTime /\ Owner[s] \in Users
    BY DEF Types, IMMessagesAssumption
  <2> QED BY <1>3, <2>1, <2>2 DEF Messages
<1>5. /\ m.from = Owner[s] /\ m.to = toServer[s][1].to
      /\ m.n = toServer[s][1].n /\ m.time = clock
  BY <1>3
<1>6. Current(s) =>
        /\ saved' = Append(saved, m)
        /\ sent' = [u \in Users |-> IF u \in Online(m) THEN Append(sent[u], m) ELSE sent[u]]
        /\ due' = [u \in Users |->
             IF /\ u \in Receivers(m) \ {m.from}
                /\ server.state[u] = "offline" /\ clock > row[u].logout
             THEN due[u] \cup {m} ELSE due[u]]
  BY <1>2, <1>3 DEF HandleMessage, Decrypts, Current
<1>7. ~Current(s) => UNCHANGED <<saved, sent, due>>
  BY DEF HandleMessage, Decrypts, Current
<1> QED BY <1>1, <1>2, <1>4, <1>5, <1>6, <1>7 DEF HandleMessage

-----------------------------------------------------------------------------
(* What the clients and the network do                                     *)

SessionStates == {"none", "online", "invisible", "offline"}
LinkStates == {"unused", "up", "down"}

LEMMA SignInEffect ==
  ASSUME IMMessagesAssumption, Types, NEW s \in Sockets, SignIn(s)
  PROVE  /\ link[s] = "unused" /\ link' = [link EXCEPT ![s] = "up"]
         /\ toServer' \in [Sockets -> Seq(Packets)]
         /\ \E p \in Packets : p.type = "login" /\ toServer'[s] = <<p>>
         /\ \A t \in Sockets : t # s => toServer'[t] = toServer[t]
         /\ UNCHANGED <<clock, session, server, row, saved, sent, due, earlier, written>>
<1>1. PICK st \in LoginStates[Owner[s]] :
        toServer' = [toServer EXCEPT ![s] = <<[type |-> "login", state |-> st]>>]
  BY DEF SignIn
<1>2. st \in {"online", "invisible"}
  BY DEF IMMessagesAssumption
<1>3. PICK p : p = [type |-> "login", state |-> st]
  OBVIOUS
<1>4. p \in Packets /\ p.type = "login"
  BY <1>2, <1>3 DEF Packets
<1>5. toServer \in [Sockets -> Seq(Packets)]
  BY DEF Types
<1>6. <<p>> \in Seq(Packets)
  BY <1>4
<1>7. toServer' = [toServer EXCEPT ![s] = <<p>>]
  BY <1>1, <1>3
<1> QED BY <1>4, <1>5, <1>6, <1>7 DEF SignIn

\* A packet more.
LEMMA AppendedEffect ==
  ASSUME Types, NEW s \in Sockets, NEW p \in Packets,
         toServer' = [toServer EXCEPT ![s] = Append(@, p)]
  PROVE  /\ toServer' \in [Sockets -> Seq(Packets)]
         /\ toServer'[s] = Append(toServer[s], p)
         /\ \A t \in Sockets : t # s => toServer'[t] = toServer[t]
<1>1. toServer \in [Sockets -> Seq(Packets)]
  BY DEF Types
<1> QED BY <1>1

LEMMA SendMessageEffect ==
  ASSUME IMMessagesAssumption, Types, NEW s \in Sockets, SendMessage(s)
  PROVE  /\ link[s] = "up" /\ session[s] \notin {"none", "offline"}
         /\ written' = written + 1 /\ written + 1 \in 1 .. MaxMessages
         /\ toServer' \in [Sockets -> Seq(Packets)]
         /\ \E p \in Packets : /\ p.type = "message" /\ p.n = written + 1
                               /\ toServer'[s] = Append(toServer[s], p)
         /\ \A t \in Sockets : t # s => toServer'[t] = toServer[t]
         /\ UNCHANGED <<clock, link, session, server, row, saved, sent, due, earlier>>
<1>1. written' = written + 1 /\ written + 1 \in 1 .. MaxMessages
  BY DEF SendMessage, Types, IMMessagesAssumption
<1>2. PICK d \in Destinations(Owner[s]) :
        toServer' = [toServer EXCEPT ![s] = Append(@, [type |-> "message", to |-> d, n |-> written'])]
  BY DEF SendMessage
<1>3. PICK p : p = [type |-> "message", to |-> d, n |-> written + 1]
  OBVIOUS
<1>4. p \in Packets /\ p.type = "message" /\ p.n = written + 1
  BY <1>1, <1>3 DEF Packets, Destinations
<1>5. toServer' = [toServer EXCEPT ![s] = Append(@, p)]
  BY <1>1, <1>2, <1>3
<1>6. /\ toServer' \in [Sockets -> Seq(Packets)]
      /\ toServer'[s] = Append(toServer[s], p)
      /\ \A t \in Sockets : t # s => toServer'[t] = toServer[t]
  BY <1>4, <1>5, AppendedEffect
<1> QED BY <1>1, <1>4, <1>6 DEF SendMessage, Ready, Up

LEMMA ChangeStateEffect ==
  ASSUME Types, NEW s \in Sockets, ChangeState(s)
  PROVE  /\ link[s] = "up" /\ session[s] # "none"
         /\ toServer' \in [Sockets -> Seq(Packets)]
         /\ \E st \in {"online", "offline"} :
              /\ StateChange(st) \in Packets
              /\ toServer'[s] = Append(toServer[s], StateChange(st))
              /\ session' = [session EXCEPT ![s] = st]
         /\ \A t \in Sockets : t # s => toServer'[t] = toServer[t]
         /\ UNCHANGED <<clock, link, server, row, saved, sent, due, earlier, written>>
<1>1. PICK st \in {"online", "offline"} :
        /\ toServer' = [toServer EXCEPT ![s] = Append(@, StateChange(st))]
        /\ session' = [session EXCEPT ![s] = st]
  BY DEF ChangeState
<1>2. StateChange(st) \in Packets
  BY DEF StateChange, Packets
<1>3. /\ toServer' \in [Sockets -> Seq(Packets)]
      /\ toServer'[s] = Append(toServer[s], StateChange(st))
      /\ \A t \in Sockets : t # s => toServer'[t] = toServer[t]
  BY <1>1, <1>2, AppendedEffect
<1> QED BY <1>1, <1>2, <1>3 DEF ChangeState, Ready, Up

LEMMA QuitEffect ==
  ASSUME Types, NEW s \in Sockets, Quit(s)
  PROVE  /\ link[s] = "up" /\ session[s] # "none"
         /\ link' = [link EXCEPT ![s] = "down"] /\ session' = [session EXCEPT ![s] = "none"]
         /\ toServer' \in [Sockets -> Seq(Packets)]
         /\ \E r \in Seq(Packets) :
              /\ toServer'[s] = toServer[s] \o r
              /\ Len(r) \in Nat \ {0} /\ r[Len(r)].type = "disconnected"
              /\ \A i \in 1 .. Len(r) : i # Len(r) => r[i] = StateChange("offline")
         /\ \A t \in Sockets : t # s => toServer'[t] = toServer[t]
         /\ UNCHANGED <<clock, server, row, saved, sent, due, earlier, written>>
<1>1. StateChange("offline") \in Packets /\ [type |-> "disconnected"] \in Packets
      /\ [type |-> "disconnected"].type = "disconnected"
  BY DEF StateChange, Packets
<1>2. PICK off : off = StateChange("offline")
  OBVIOUS
<1>3. PICK end : end = [type |-> "disconnected"]
  OBVIOUS
<1>4. off \in Packets /\ end \in Packets /\ end.type = "disconnected"
  BY <1>1, <1>2, <1>3
<1>5. PICK last \in {<<"offline", "offline">>, <<"offline">>} :
        toServer' = [toServer EXCEPT ![s] =
          @ \o [i \in 1 .. Len(last) |-> StateChange(last[i])] \o <<end>>]
  BY <1>3 DEF Quit
<1>6. \/ [i \in 1 .. Len(last) |-> StateChange(last[i])] = <<off>>
      \/ [i \in 1 .. Len(last) |-> StateChange(last[i])] = <<off, off>>
  <2>1. CASE last = <<"offline">>
    <3>1. Len(last) = 1 /\ last[1] = "offline"
      BY <2>1
    <3> QED BY <3>1, <1>2
  <2>2. CASE last = <<"offline", "offline">>
    <3>1. Len(last) = 2 /\ last[1] = "offline" /\ last[2] = "offline"
      BY <2>2
    <3> QED BY <3>1, <1>2
  <2> QED BY <2>1, <2>2
<1>7. PICK said : said \in {<<off>>, <<off, off>>}
                  /\ toServer' = [toServer EXCEPT ![s] = @ \o said \o <<end>>]
  BY <1>5, <1>6
<1>8. toServer \in [Sockets -> Seq(Packets)]
  BY DEF Types
<1>9. PICK r : r = said \o <<end>>
  OBVIOUS
<1>10. /\ said \in Seq(Packets) /\ <<end>> \in Seq(Packets) /\ Len(<<end>>) = 1
       /\ \A i \in 1 .. Len(said) : said[i] = off
       /\ Len(said) \in {1, 2}
  <2>1. /\ <<off>> \in Seq(Packets) /\ <<off, off>> \in Seq(Packets) /\ <<end>> \in Seq(Packets)
        /\ Len(<<off>>) = 1 /\ Len(<<off, off>>) = 2 /\ Len(<<end>>) = 1
        /\ <<off>>[1] = off /\ <<off, off>>[1] = off /\ <<off, off>>[2] = off
    BY <1>4
  <2>2. CASE said = <<off>>
    BY <2>1, <2>2
  <2>3. CASE said = <<off, off>>
    BY <2>1, <2>3
  <2> QED BY <1>7, <2>2, <2>3
<1>11. /\ r \in Seq(Packets) /\ Len(r) \in Nat \ {0} /\ r[Len(r)] = end
       /\ \A i \in 1 .. Len(r) : i # Len(r) => r[i] = off
  BY <1>9, <1>10
<1>12. toServer[s] \o said \o <<end>> = toServer[s] \o r
  BY <1>8, <1>9, <1>10
<1>13. toServer[s] \o r \in Seq(Packets)
  BY <1>8, <1>11, ConcatFacts
<1>14. toServer' = [toServer EXCEPT ![s] = toServer[s] \o r]
  BY <1>7, <1>8, <1>12
<1>15. /\ toServer' \in [Sockets -> Seq(Packets)]
       /\ toServer'[s] = toServer[s] \o r
       /\ \A t \in Sockets : t # s => toServer'[t] = toServer[t]
  BY <1>8, <1>13, <1>14
<1> QED BY <1>2, <1>4, <1>11, <1>15 DEF Quit, Ready, Up

LEMMA ConnectionLostEffect ==
  ASSUME Types, NEW s \in Sockets, ConnectionLost(s)
  PROVE  /\ link[s] = "up"
         /\ link' = [link EXCEPT ![s] = "down"] /\ session' = [session EXCEPT ![s] = "none"]
         /\ toServer' \in [Sockets -> Seq(Packets)]
         /\ \E q \in Prefixes(toServer[s]), p \in Packets :
              p.type = "disconnected" /\ toServer'[s] = Append(q, p)
         /\ \A t \in Sockets : t # s => toServer'[t] = toServer[t]
         /\ UNCHANGED <<clock, server, row, saved, sent, due, earlier, written>>
<1>1. PICK p : p = [type |-> "disconnected"]
  OBVIOUS
<1>2. p \in Packets /\ p.type = "disconnected"
  BY <1>1 DEF Packets
<1>3. PICK q \in Prefixes(toServer[s]) : toServer' = [toServer EXCEPT ![s] = Append(q, p)]
  BY <1>1 DEF ConnectionLost
<1>4. toServer \in [Sockets -> Seq(Packets)]
  BY DEF Types
<1>5. q \in Seq(Packets)
  BY <1>4, PrefixFacts
<1>6. Append(q, p) \in Seq(Packets)
  BY <1>2, <1>5
<1> QED BY <1>2, <1>3, <1>4, <1>6 DEF ConnectionLost, Up

LEMMA RestartEffect ==
  ASSUME IMMessagesAssumption, Types, ServerRestart
  PROVE  /\ link' \in [Sockets -> LinkStates] /\ session' \in [Sockets -> SessionStates]
         /\ toServer' \in [Sockets -> Seq(Packets)]
         /\ \A s \in Sockets : /\ toServer'[s] = <<>> /\ session'[s] = "none"
                               /\ link'[s] = IF link[s] = "up" THEN "down" ELSE link[s]
         /\ server' \in ServerStates /\ server'.watched = {}
         /\ \A u \in Users : server'.state[u] = "offline" /\ server'.sock[u] = NoSocket
         /\ sent' \in [Users -> Seq(Messages)]
         /\ \A u \in Users : sent'[u] = <<>>
         /\ due' \in [Users -> SUBSET Messages]
         /\ \A u \in Users : due'[u] =
              IF server.state[u] = "offline" THEN due[u]
              ELSE { m \in ToSet(saved) : u \in Receivers(m) \ {m.from} /\ m.time > row[u].login }
         /\ earlier' = Len(saved)
         /\ UNCHANGED <<clock, row, saved, written>>
<1>1. server' = ServerInit
  BY DEF ServerRestart
<1>2. /\ server' \in ServerStates /\ server'.watched = {}
      /\ \A u \in Users : server'.state[u] = "offline" /\ server'.sock[u] = NoSocket
  <2>1. 0 \in 0 .. MaxTime
    BY DEF IMMessagesAssumption
  <2> QED BY <1>1, <2>1 DEF ServerInit, ServerStates
<1>3. /\ link' \in [Sockets -> LinkStates] /\ session' \in [Sockets -> SessionStates]
      /\ \A s \in Sockets : /\ session'[s] = "none"
                            /\ link'[s] = IF link[s] = "up" THEN "down" ELSE link[s]
  <2>1. /\ link' = [s \in Sockets |-> IF s \in Up THEN "down" ELSE link[s]]
        /\ session' = [s \in Sockets |-> "none"]
        /\ link \in [Sockets -> LinkStates]
    BY DEF ServerRestart, Types, LinkStates
  <2> QED BY <2>1 DEF Up, LinkStates, SessionStates
<1>4. /\ toServer' \in [Sockets -> Seq(Packets)]
      /\ \A s \in Sockets : toServer'[s] = <<>>
  BY DEF ServerRestart
<1>5. sent' \in [Users -> Seq(Messages)] /\ \A u \in Users : sent'[u] = <<>>
  BY DEF ServerRestart
<1>6. ToSet(saved) \subseteq Messages
  BY DEF Types, ToSet
<1>7. due' \in [Users -> SUBSET Messages]
  BY <1>6 DEF ServerRestart, Types
<1> QED BY <1>2, <1>3, <1>4, <1>5, <1>7 DEF ServerRestart

-----------------------------------------------------------------------------
(* The steps                                                               *)

LEMMA TypesStep ==
  ASSUME IMMessagesAssumption, IInv, [Next]_vars
  PROVE  Types'
<1> USE DEF SessionStates, LinkStates
<1>0. Types /\ Connections /\ Logins /\ InOrder
  BY DEF IInv
<1>1. ASSUME NEW s \in Sockets, HandleLogin(s) PROVE Types'
  <2>1. /\ server' \in ServerStates /\ row' \in Rows
        /\ sent' \in [Users -> Seq(Messages)] /\ due' \in [Users -> SUBSET Messages]
        /\ toServer' \in [Sockets -> Seq(Packets)]
        /\ session' \in [Sockets -> SessionStates]
        /\ link' \in [Sockets -> LinkStates]
        /\ UNCHANGED <<clock, saved, earlier, written>>
    BY <1>0, <1>1, LoginEffect
  <2> QED BY <1>0, <2>1 DEF Types
<1>2. ASSUME NEW s \in Sockets, HandleMessage(s) PROVE Types'
  <2>1. /\ toServer' = Taken(s) /\ toServer[s] # <<>>
        /\ UNCHANGED <<clock, link, session, server, row, earlier, written>>
    BY <1>0, <1>2, MessageEffect
  <2>2. toServer' \in [Sockets -> Seq(Packets)]
    BY <1>0, <2>1, TakenEffect
  <2>3. saved \in Seq(Messages) /\ sent \in [Users -> Seq(Messages)] /\ due \in [Users -> SUBSET Messages]
        /\ earlier \in 0 .. Len(saved)
    BY <1>0 DEF Types
  <2>4. CASE Current(s)
    <3>1. PICK m \in Messages :
            /\ saved' = Append(saved, m)
            /\ sent' = [u \in Users |-> IF u \in Online(m) THEN Append(sent[u], m) ELSE sent[u]]
            /\ due' = [u \in Users |->
                 IF /\ u \in Receivers(m) \ {m.from}
                    /\ server.state[u] = "offline" /\ clock > row[u].logout
                 THEN due[u] \cup {m} ELSE due[u]]
      BY <1>0, <1>2, <2>4, MessageEffect
    <3>2. saved' \in Seq(Messages) /\ Len(saved') = Len(saved) + 1 /\ Len(saved) \in Nat
      BY <2>3, <3>1
    <3>3. sent' \in [Users -> Seq(Messages)]
      BY <2>3, <3>1
    <3>4. due' \in [Users -> SUBSET Messages]
      BY <2>3, <3>1
    <3>5. earlier \in 0 .. Len(saved')
      BY <2>3, <3>2
    <3> QED BY <1>0, <2>1, <2>2, <3>2, <3>3, <3>4, <3>5 DEF Types
  <2>5. CASE ~Current(s)
    <3>1. UNCHANGED <<saved, sent, due>>
      BY <1>0, <1>2, <2>5, MessageEffect
    <3> QED BY <1>0, <2>1, <2>2, <3>1 DEF Types
  <2> QED BY <2>4, <2>5
<1>3. ASSUME NEW s \in Sockets, HandleState(s) PROVE Types'
  <2>1. /\ toServer' = Taken(s) /\ toServer[s] # <<>>
        /\ UNCHANGED <<clock, link, session, saved, sent, earlier, written>>
    BY <1>0, <1>3, StateEffect
  <2>2. toServer' \in [Sockets -> Seq(Packets)]
    BY <1>0, <2>1, TakenEffect
  <2>3. server' \in ServerStates /\ row' \in Rows /\ due' \in [Users -> SUBSET Messages]
    <3>1. due \in [Users -> SUBSET Messages] /\ server \in ServerStates /\ row \in Rows
      BY <1>0 DEF Types
    <3> QED BY <1>0, <1>3, <3>1, StateEffect DEF Changes
  <2> QED BY <1>0, <2>1, <2>2, <2>3 DEF Types
<1>4. ASSUME NEW s \in Sockets, HandleDisconnected(s) PROVE Types'
  <2>1. /\ toServer' = Taken(s) /\ toServer[s] # <<>>
        /\ UNCHANGED <<clock, link, session, saved, sent, due, earlier, written>>
    BY <1>0, <1>4, DisconnectedEffect
  <2>2. toServer' \in [Sockets -> Seq(Packets)]
    BY <1>0, <2>1, TakenEffect
  <2>3. server' \in ServerStates /\ row' \in Rows
    <3>1. server \in ServerStates /\ row \in Rows
      BY <1>0 DEF Types
    <3> QED BY <1>0, <1>4, <3>1, DisconnectedEffect DEF Changes
  <2> QED BY <1>0, <2>1, <2>2, <2>3 DEF Types
<1>5. ASSUME NEW s \in Sockets, SignIn(s) PROVE Types'
  BY <1>0, <1>5, SignInEffect DEF Types
<1>6. ASSUME NEW s \in Sockets, SendMessage(s) PROVE Types'
  BY <1>0, <1>6, SendMessageEffect DEF Types
<1>7. ASSUME NEW s \in Sockets, ChangeState(s) PROVE Types'
  BY <1>0, <1>7, ChangeStateEffect DEF Types
<1>8. ASSUME NEW s \in Sockets, Quit(s) PROVE Types'
  <2>1. /\ toServer' \in [Sockets -> Seq(Packets)]
        /\ link' = [link EXCEPT ![s] = "down"] /\ session' = [session EXCEPT ![s] = "none"]
        /\ UNCHANGED <<clock, server, row, saved, sent, due, earlier, written>>
    BY <1>0, <1>8, QuitEffect
  <2> QED BY <1>0, <2>1 DEF Types
<1>9. ASSUME NEW s \in Sockets, ConnectionLost(s) PROVE Types'
  <2>1. /\ toServer' \in [Sockets -> Seq(Packets)]
        /\ link' = [link EXCEPT ![s] = "down"] /\ session' = [session EXCEPT ![s] = "none"]
        /\ UNCHANGED <<clock, server, row, saved, sent, due, earlier, written>>
    BY <1>0, <1>9, ConnectionLostEffect
  <2> QED BY <1>0, <2>1 DEF Types
<1>10. ASSUME ServerRestart PROVE Types'
  <2>1. Len(saved) \in 0 .. Len(saved)
    BY <1>0 DEF Types
  <2> QED BY <1>0, <1>10, <2>1, RestartEffect DEF Types
<1>11. ASSUME Tick PROVE Types'
  BY <1>0, <1>11 DEF Types, Tick, IMMessagesAssumption
<1>12. CASE UNCHANGED vars
  BY <1>0, <1>12 DEF Types, vars
<1> QED BY <1>1, <1>2, <1>3, <1>4, <1>5, <1>6, <1>7, <1>8, <1>9, <1>10, <1>11, <1>12
        DEF Next, Handle

\* A socket whose packets are lost, if anything.
LEMMA ConnectionKept ==
  ASSUME Types, NEW t \in Sockets, Connection(t), Current(t)' => Current(t),
         toServer'[t] \in Prefixes(toServer[t]), session'[t] \in {session[t], "none"},
         \/ link'[t] = link[t]
         \/ link'[t] = "down" /\ link[t] # "unused" /\ session'[t] = "none"
  PROVE  Connection(t)'
<1>1. PICK q : q = toServer'[t]
  OBVIOUS
<1>2. toServer[t] \in Seq(Packets)
  BY DEF Types
<1>3. /\ q \in Seq(Packets) /\ Len(q) \in Nat /\ Len(toServer[t]) \in Nat /\ Len(q) <= Len(toServer[t])
      /\ \A i \in 1 .. Len(q) : i \in 1 .. Len(toServer[t]) /\ q[i] = toServer[t][i]
  BY <1>1, <1>2, PrefixFacts
<1>4. link'[t] # "up" => session'[t] = "none"
  BY DEF Connection
<1>5. link'[t] = "unused" => q = <<>> /\ ~Current(t)'
  <2>1. link'[t] = "unused" => toServer[t] = <<>> /\ ~Current(t)'
    BY DEF Connection
  <2>2. toServer[t] = <<>> => q = <<>>
    BY <1>3
  <2> QED BY <2>1, <2>2
<1>6. ASSUME NEW i \in 1 .. Len(q), q[i].type = "login"
      PROVE  /\ i = 1 /\ ~Current(t)' /\ session'[t] = "none"
             /\ \A j \in 2 .. Len(q) : q[j].type = "disconnected"
  <2>1. i \in 1 .. Len(toServer[t]) /\ toServer[t][i].type = "login"
    BY <1>3, <1>6
  <2>2. /\ i = 1 /\ ~Current(t) /\ session[t] = "none"
        /\ \A j \in 2 .. Len(toServer[t]) : toServer[t][j].type = "disconnected"
    BY <2>1 DEF Connection
  <2> QED BY <1>3, <2>2
<1>7. ASSUME NEW i \in 1 .. Len(q), q[i].type = "disconnected"
      PROVE  i = Len(q) /\ link'[t] = "down"
  <2>1. i = Len(toServer[t]) /\ link[t] = "down"
    BY <1>3, <1>7 DEF Connection
  <2> QED BY <1>3, <2>1
<1> QED BY <1>1, <1>4, <1>5, <1>6, <1>7 DEF Connection

\* A socket whose first packet is taken.
LEMMA ConnectionTaken ==
  ASSUME Types, NEW s \in Sockets, Connection(s), toServer[s] # <<>>,
         toServer'[s] = Tail(toServer[s]), link'[s] = link[s],
         link[s] # "up" => session'[s] = "none"
  PROVE  Connection(s)'
<1>1. PICK q : q = toServer'[s]
  OBVIOUS
<1>2. toServer[s] \in Seq(Packets)
  BY DEF Types
<1>3. /\ q \in Seq(Packets) /\ Len(toServer[s]) \in Nat \ {0} /\ Len(q) = Len(toServer[s]) - 1
      /\ \A i \in 1 .. Len(q) : i + 1 \in 1 .. Len(toServer[s]) /\ q[i] = toServer[s][i + 1]
  BY <1>1, <1>2, TailFacts
<1>4. \A i \in 1 .. Len(q) : q[i].type # "login"
  BY <1>3 DEF Connection
<1>5. \A i \in 1 .. Len(q) : q[i].type = "disconnected" => i = Len(q) /\ link[s] = "down"
  <2>1. ASSUME NEW i \in 1 .. Len(q), q[i].type = "disconnected"
        PROVE  i = Len(q) /\ link[s] = "down"
    <3>1. i + 1 \in 1 .. Len(toServer[s]) /\ toServer[s][i + 1].type = "disconnected"
      BY <1>3, <2>1
    <3>2. i + 1 = Len(toServer[s]) /\ link[s] = "down"
      BY <3>1 DEF Connection
    <3> QED BY <1>3, <3>2
  <2> QED BY <2>1
<1>6. link[s] # "unused"
  BY DEF Connection
<1> QED BY <1>1, <1>4, <1>5, <1>6 DEF Connection

\* A socket whose client says something more.
LEMMA ConnectionAppended ==
  ASSUME Types, NEW s \in Sockets, Connection(s), link[s] = "up", link'[s] = "up",
         session[s] # "none", NEW p \in Packets, p.type \notin {"login", "disconnected"},
         toServer'[s] = Append(toServer[s], p)
  PROVE  Connection(s)'
<1>1. PICK q : q = toServer'[s]
  OBVIOUS
<1>2. toServer[s] \in Seq(Packets)
  BY DEF Types
<1>3. /\ Len(toServer[s]) \in Nat /\ Len(q) = Len(toServer[s]) + 1 /\ q[Len(q)] = p
      /\ \A i \in 1 .. Len(toServer[s]) : q[i] = toServer[s][i]
  BY <1>1, <1>2, AppendFacts
<1>4. \A i \in 1 .. Len(toServer[s]) : toServer[s][i].type \notin {"login", "disconnected"}
  BY DEF Connection
<1>5. \A i \in 1 .. Len(q) : q[i].type \notin {"login", "disconnected"}
  <2>1. ASSUME NEW i \in 1 .. Len(q) PROVE q[i].type \notin {"login", "disconnected"}
    <3>1. i = Len(q) \/ i \in 1 .. Len(toServer[s])
      BY <1>3
    <3> QED BY <1>3, <1>4, <3>1
  <2> QED BY <2>1
<1> QED BY <1>1, <1>5 DEF Connection

LEMMA ConnectionsStep ==
  ASSUME IMMessagesAssumption, IInv, [Next]_vars
  PROVE  Connections'
<1>0. Types /\ Connections /\ Logins /\ InOrder
  BY DEF IInv
<1> SUFFICES ASSUME NEW t \in Sockets PROVE Connection(t)'
  BY DEF Connections
<1>01. Connection(t)
  BY <1>0 DEF Connections
<1>02. toServer[t] \in Seq(Packets) /\ toServer[t] \in Prefixes(toServer[t])
  <2>1. toServer[t] \in Seq(Packets)
    BY <1>0 DEF Types
  <2>2. toServer[t] = SubSeq(toServer[t], 1, Len(toServer[t])) /\ Len(toServer[t]) \in 0 .. Len(toServer[t])
    BY <2>1
  <2> QED BY <2>1, <2>2 DEF Prefixes
<1>03. ASSUME toServer'[t] = toServer[t], session'[t] = session[t], link'[t] = link[t],
              Current(t)' => Current(t)
       PROVE  Connection(t)'
  BY <1>0, <1>01, <1>02, <1>03, ConnectionKept
<1>04. ASSUME NEW s \in Sockets, toServer[s] # <<>>, toServer' = Taken(s),
              UNCHANGED <<link, session>>, Current(t)' => Current(t)
       PROVE  Connection(t)'
  <2>1. toServer'[s] = Tail(toServer[s]) /\ (t # s => toServer'[t] = toServer[t])
    BY <1>0, <1>04, TakenEffect
  <2>2. CASE t = s
    <3>1. link[t] # "up" => session'[t] = "none"
      BY <1>01, <1>04 DEF Connection
    <3> QED BY <1>0, <1>01, <1>04, <2>1, <2>2, <3>1, ConnectionTaken
  <2>3. CASE t # s
    BY <1>03, <1>04, <2>1, <2>3
  <2> QED BY <2>2, <2>3
<1>1. ASSUME NEW s \in Sockets, HandleLogin(s) PROVE Connection(t)'
  <2>1. CASE t = s
    <3>1. toServer[s] # <<>> /\ toServer'[s] = Tail(toServer[s])
      BY <1>0, <1>1, LoginEffect
    <3>2. link'[s] = link[s] /\ Owner[s] \in Users
      BY <1>0, <1>1, LoginEffect
    <3>3. link[s] # "up" => session'[s] = "none"
      <4>1. \E st \in {"online", "invisible"} :
              server'.state[Owner[s]] = st
              /\ session'[s] = IF link[s] = "up" THEN st ELSE "none"
        BY <1>0, <1>1, LoginEffect
      <4> QED BY <4>1
    <3> QED BY <1>0, <1>01, <2>1, <3>1, <3>2, <3>3, ConnectionTaken
  <2>2. CASE t # s
    <3>1. /\ toServer'[t] \in Prefixes(toServer[t]) /\ session'[t] \in {session[t], "none"}
          /\ \/ link'[t] = link[t]
             \/ link'[t] = "down" /\ link[t] # "unused" /\ session'[t] = "none"
          /\ server'.sock[Owner[s]] = s
          /\ \A v \in Users : v # Owner[s] => server'.sock[v] = server.sock[v]
      BY <1>0, <1>1, <2>2, LoginEffect
    <3>2. Current(t)' => Current(t)
      BY <2>2, <3>1 DEF Current, IMMessagesAssumption
    <3> QED BY <1>0, <1>01, <3>1, <3>2, ConnectionKept
  <2> QED BY <2>1, <2>2
<1>2. ASSUME NEW s \in Sockets, HandleMessage(s) PROVE Connection(t)'
  <2>1. toServer[s] # <<>> /\ toServer' = Taken(s) /\ UNCHANGED <<link, session, server>>
    BY <1>0, <1>2, MessageEffect
  <2>2. Current(t)' => Current(t)
    BY <2>1 DEF Current
  <2> QED BY <1>04, <2>1, <2>2
<1>3. ASSUME NEW s \in Sockets, HandleState(s) PROVE Connection(t)'
  <2>1. toServer[s] # <<>> /\ toServer' = Taken(s) /\ UNCHANGED <<link, session>>
        /\ server'.sock = server.sock
    BY <1>0, <1>3, StateEffect DEF Changes
  <2>2. Current(t)' => Current(t)
    BY <2>1 DEF Current
  <2> QED BY <1>04, <2>1, <2>2
<1>4. ASSUME NEW s \in Sockets, HandleDisconnected(s) PROVE Connection(t)'
  <2>1. toServer[s] # <<>> /\ toServer' = Taken(s) /\ UNCHANGED <<link, session>>
        /\ server'.sock = server.sock
    BY <1>0, <1>4, DisconnectedEffect DEF Changes
  <2>2. Current(t)' => Current(t)
    BY <2>1 DEF Current
  <2> QED BY <1>04, <2>1, <2>2
<1>5. ASSUME NEW s \in Sockets, SignIn(s) PROVE Connection(t)'
  <2>1. PICK p \in Packets :
          /\ link[s] = "unused" /\ link' = [link EXCEPT ![s] = "up"]
          /\ p.type = "login" /\ toServer'[s] = <<p>>
          /\ (t # s => toServer'[t] = toServer[t])
          /\ UNCHANGED <<session, server>>
    BY <1>0, <1>5, SignInEffect
  <2>2. link \in [Sockets -> LinkStates]
    BY <1>0 DEF Types, LinkStates
  <2>3. Current(t)' <=> Current(t)
    BY <2>1 DEF Current
  <2>4. CASE t = s
    <3>1. link'[s] = "up" /\ ~Current(s) /\ session[s] = "none"
      BY <1>01, <2>1, <2>2, <2>4 DEF Connection
    <3>2. Len(<<p>>) = 1 /\ <<p>>[1] = p
      OBVIOUS
    <3> QED BY <2>1, <2>3, <2>4, <3>1, <3>2 DEF Connection
  <2>5. CASE t # s
    <3>1. link'[t] = link[t]
      BY <2>1, <2>2, <2>5
    <3> QED BY <1>03, <2>1, <2>3, <2>5, <3>1
  <2> QED BY <2>4, <2>5
<1>6. ASSUME NEW s \in Sockets, SendMessage(s) PROVE Connection(t)'
  <2>1. PICK p \in Packets :
          /\ link[s] = "up" /\ session[s] # "none"
          /\ p.type = "message" /\ toServer'[s] = Append(toServer[s], p)
          /\ (t # s => toServer'[t] = toServer[t])
          /\ UNCHANGED <<link, session, server>>
    BY <1>0, <1>6, SendMessageEffect
  <2>2. CASE t = s
    BY <1>0, <1>01, <2>1, <2>2, ConnectionAppended
  <2>3. CASE t # s
    <3>1. Current(t)' => Current(t)
      BY <2>1 DEF Current
    <3> QED BY <1>03, <2>1, <2>3, <3>1
  <2> QED BY <2>2, <2>3
<1>7. ASSUME NEW s \in Sockets, ChangeState(s) PROVE Connection(t)'
  <2>1. PICK st \in {"online", "offline"} :
          /\ link[s] = "up" /\ session[s] # "none"
          /\ StateChange(st) \in Packets /\ toServer'[s] = Append(toServer[s], StateChange(st))
          /\ session' = [session EXCEPT ![s] = st]
          /\ (t # s => toServer'[t] = toServer[t])
          /\ UNCHANGED <<link, server>>
    BY <1>0, <1>7, ChangeStateEffect
  <2>2. CASE t = s
    <3>1. StateChange(st).type \notin {"login", "disconnected"}
      BY DEF StateChange
    <3> QED BY <1>0, <1>01, <2>1, <2>2, <3>1, ConnectionAppended
  <2>3. CASE t # s
    <3>1. Current(t)' => Current(t)
      BY <2>1 DEF Current
    <3>2. session'[t] = session[t]
      BY <1>0, <2>1, <2>3 DEF Types
    <3> QED BY <1>03, <2>1, <2>3, <3>1, <3>2
  <2> QED BY <2>2, <2>3
<1>8. ASSUME NEW s \in Sockets, Quit(s) PROVE Connection(t)'
  <2>1. PICK r \in Seq(Packets) :
          /\ link[s] = "up" /\ session[s] # "none"
          /\ link' = [link EXCEPT ![s] = "down"] /\ session' = [session EXCEPT ![s] = "none"]
          /\ toServer'[s] = toServer[s] \o r
          /\ Len(r) \in Nat \ {0} /\ r[Len(r)].type = "disconnected"
          /\ \A i \in 1 .. Len(r) : i # Len(r) => r[i] = StateChange("offline")
          /\ (t # s => toServer'[t] = toServer[t])
          /\ UNCHANGED server
    BY <1>0, <1>8, QuitEffect
  <2>2. /\ t # s => link'[t] = link[t] /\ session'[t] = session[t]
        /\ link'[s] = "down" /\ session'[s] = "none"
    BY <1>0, <2>1 DEF Types
  <2>3. CASE t = s
    <3>1. PICK q : q = toServer'[s]
      OBVIOUS
    <3>2. /\ Len(toServer[s]) \in Nat /\ Len(q) = Len(toServer[s]) + Len(r)
          /\ \A i \in 1 .. Len(q) :
               \/ i \in 1 .. Len(toServer[s]) /\ q[i] = toServer[s][i]
               \/ i - Len(toServer[s]) \in 1 .. Len(r) /\ q[i] = r[i - Len(toServer[s])]
      BY <1>02, <2>1, <2>3, <3>1, ConcatFacts
    <3>3. \A i \in 1 .. Len(toServer[s]) : toServer[s][i].type \notin {"login", "disconnected"}
      BY <1>01, <2>1, <2>3 DEF Connection
    <3>4. StateChange("offline").type = "state"
      BY DEF StateChange
    <3>5. ASSUME NEW i \in 1 .. Len(q)
          PROVE  q[i].type # "login" /\ (q[i].type = "disconnected" => i = Len(q))
      <4>1. CASE i \in 1 .. Len(toServer[s]) /\ q[i] = toServer[s][i]
        BY <3>3, <4>1
      <4>2. CASE i - Len(toServer[s]) \in 1 .. Len(r) /\ q[i] = r[i - Len(toServer[s])]
        <5>1. CASE i - Len(toServer[s]) = Len(r)
          BY <2>1, <3>2, <4>2, <5>1
        <5>2. CASE i - Len(toServer[s]) # Len(r)
          BY <2>1, <3>4, <4>2, <5>2
        <5> QED BY <5>1, <5>2
      <4> QED BY <3>2, <4>1, <4>2
    <3> QED BY <2>2, <2>3, <3>1, <3>5 DEF Connection
  <2>4. CASE t # s
    <3>1. Current(t)' => Current(t)
      BY <2>1 DEF Current
    <3> QED BY <1>03, <2>1, <2>2, <2>4, <3>1
  <2> QED BY <2>3, <2>4
<1>9. ASSUME NEW s \in Sockets, ConnectionLost(s) PROVE Connection(t)'
  <2>1. PICK q \in Prefixes(toServer[s]), p \in Packets :
          p.type = "disconnected" /\ toServer'[s] = Append(q, p)
    BY <1>0, <1>9, ConnectionLostEffect
  <2>11. /\ link[s] = "up"
         /\ link' = [link EXCEPT ![s] = "down"] /\ session' = [session EXCEPT ![s] = "none"]
         /\ (t # s => toServer'[t] = toServer[t])
         /\ UNCHANGED server
    BY <1>0, <1>9, ConnectionLostEffect
  <2>2. /\ t # s => link'[t] = link[t] /\ session'[t] = session[t]
        /\ link'[s] = "down" /\ session'[s] = "none"
    BY <1>0, <2>11 DEF Types
  <2>0. Current(t)' <=> Current(t)
    BY <2>11 DEF Current
  <2>3. CASE t = s
    <3>1. PICK r : r = toServer'[s]
      OBVIOUS
    <3>2. /\ q \in Seq(Packets) /\ Len(q) <= Len(toServer[s]) /\ Len(toServer[s]) \in Nat
          /\ \A i \in 1 .. Len(q) : i \in 1 .. Len(toServer[s]) /\ q[i] = toServer[s][i]
      BY <1>02, <2>3, PrefixFacts
    <3>3. /\ Len(q) \in Nat /\ Len(r) = Len(q) + 1 /\ r[Len(q) + 1] = p
          /\ \A i \in 1 .. Len(q) : r[i] = q[i]
      BY <2>1, <3>1, <3>2, AppendFacts
    <3>4. ASSUME NEW i \in 1 .. Len(r), r[i].type = "disconnected" PROVE i = Len(r)
      <4>1. CASE i \in 1 .. Len(q)
        BY <1>01, <2>11, <2>3, <3>2, <3>3, <3>4, <4>1 DEF Connection
      <4> QED BY <3>3, <4>1
    <3>5. ASSUME NEW i \in 1 .. Len(r), r[i].type = "login"
          PROVE  /\ i = 1 /\ ~Current(s)
                 /\ \A j \in 2 .. Len(r) : r[j].type = "disconnected"
      <4>1. i \in 1 .. Len(q)
        BY <2>1, <3>3, <3>5
      <4>2. i \in 1 .. Len(toServer[s]) /\ toServer[s][i].type = "login"
        BY <3>2, <3>3, <3>5, <4>1
      <4>3. /\ i = 1 /\ ~Current(s)
            /\ \A j \in 2 .. Len(toServer[s]) : toServer[s][j].type = "disconnected"
        BY <1>01, <2>3, <4>2 DEF Connection
      <4>4. ASSUME NEW j \in 2 .. Len(r) PROVE r[j].type = "disconnected"
        <5>1. CASE j = Len(q) + 1
          BY <2>1, <3>3, <5>1
        <5>2. CASE j \in 2 .. Len(q)
          <6>1. j \in 1 .. Len(q) /\ j \in 2 .. Len(toServer[s])
            BY <3>2, <3>3, <5>2
          <6> QED BY <3>2, <3>3, <4>3, <6>1
        <5> QED BY <3>3, <5>1, <5>2
      <4> QED BY <4>3, <4>4
    <3> QED BY <2>0, <2>2, <2>3, <3>1, <3>4, <3>5 DEF Connection
  <2>4. CASE t # s
    BY <1>03, <2>0, <2>11, <2>2, <2>4
  <2> QED BY <2>3, <2>4
<1>10. ASSUME ServerRestart PROVE Connection(t)'
  <2>1. /\ toServer'[t] = <<>> /\ session'[t] = "none" /\ server'.sock[Owner[t]] = NoSocket
        /\ Len(<<>>) = 0
    BY <1>0, <1>10, RestartEffect DEF IMMessagesAssumption
  <2>2. ~Current(t)'
    BY <2>1 DEF Current, IMMessagesAssumption
  <2> QED BY <2>1, <2>2 DEF Connection
<1>11. ASSUME Tick PROVE Connection(t)'
  BY <1>01, <1>11 DEF Tick, Connection, Current
<1>12. CASE UNCHANGED vars
  BY <1>01, <1>12 DEF vars, Connection, Current
<1> QED BY <1>1, <1>2, <1>3, <1>4, <1>5, <1>6, <1>7, <1>8, <1>9, <1>10, <1>11, <1>12
        DEF Next, Handle

LEMMA LoginsStep ==
  ASSUME IMMessagesAssumption, IInv, [Next]_vars
  PROVE  Logins'
<1>0. Types /\ Connections /\ Logins /\ InOrder
  BY DEF IInv
<1>01. /\ clock \in Nat /\ server \in ServerStates /\ row \in Rows
       /\ \A u \in Users : row[u].login \in Nat /\ row[u].logout \in Nat
  BY <1>0 DEF Types, Rows, IMMessagesAssumption
<1>02. ASSUME UNCHANGED <<server, row>>, clock' \in {clock, clock + 1} PROVE Logins'
  <2>1. \A u \in Users : row[u].login <= clock' /\ row[u].logout <= clock'
    BY <1>0, <1>01, <1>02 DEF Logins
  <2> QED BY <1>0, <1>02, <2>1 DEF Logins, Current
<1>03. ASSUME NEW s \in Sockets, NEW st \in {"online", "offline"}, Current(s),
              Changes(Owner[s], st), UNCHANGED clock
       PROVE  Logins'
  <2>1. /\ server'.state[Owner[s]] = st /\ server'.sock = server.sock
        /\ server'.watched = IF st = "offline" THEN server.watched \ {server.sock[Owner[s]]}
                                               ELSE server.watched
        /\ row'[Owner[s]].logout = clock
        /\ st = "offline" => /\ server'.login[Owner[s]] = server.login[Owner[s]]
                             /\ row'[Owner[s]].login = row[Owner[s]].login
        /\ st # "offline" => server'.login[Owner[s]] = clock /\ row'[Owner[s]].login = clock
        /\ \A v \in Users : v # Owner[s] => /\ server'.state[v] = server.state[v]
                                            /\ server'.login[v] = server.login[v] /\ row'[v] = row[v]
    BY <1>03 DEF Changes
  <2>2. Owner[s] \in Users /\ server.sock[Owner[s]] = s /\ s # NoSocket
    BY <1>03 DEF Current, IMMessagesAssumption
  <2>3. \A u \in Users : server'.sock[u] # NoSocket =>
          Owner[server'.sock[u]] = u /\ server'.login[u] = row'[u].login
    BY <1>0, <2>1, <2>2 DEF Logins
  <2>4. \A u \in Users : server'.state[u] # "offline" =>
          server'.sock[u] # NoSocket /\ row'[u].logout = row'[u].login
    BY <1>0, <2>1, <2>2 DEF Logins
  <2>5. \A u \in Users : row'[u].login <= clock /\ row'[u].logout <= clock
    BY <1>0, <1>01, <2>1, <2>2 DEF Logins
  <2>6. \A t \in server'.watched : server'.sock[Owner[t]] = t /\ server'.state[Owner[t]] # "offline"
    <3>1. TAKE t \in server'.watched
    <3>2. t \in server.watched /\ server.sock[Owner[t]] = t /\ server.state[Owner[t]] # "offline"
      BY <1>0, <2>1 DEF Logins, Current
    <3>3. t \in Sockets /\ Owner[t] \in Users
      BY <1>01, <3>2 DEF ServerStates, IMMessagesAssumption
    <3>4. CASE Owner[t] = Owner[s]
      BY <2>1, <2>2, <3>1, <3>2, <3>4
    <3>5. CASE Owner[t] # Owner[s]
      BY <2>1, <3>2, <3>3, <3>5
    <3> QED BY <3>4, <3>5
  <2> QED BY <1>03, <2>3, <2>4, <2>5, <2>6 DEF Logins, Current
<1>1. ASSUME NEW s \in Sockets, HandleLogin(s) PROVE Logins'
  <2>1. /\ Owner[s] \in Users
        /\ server'.sock[Owner[s]] = s /\ server'.login[Owner[s]] = clock
        /\ row'[Owner[s]].login = clock /\ row'[Owner[s]].logout = clock
        /\ \A v \in Users : v # Owner[s] =>
             /\ server'.state[v] = server.state[v] /\ server'.sock[v] = server.sock[v]
             /\ server'.login[v] = server.login[v] /\ row'[v] = row[v]
        /\ \A t \in server'.watched : t = s \/ (t \in server.watched /\ t # server.sock[Owner[s]])
        /\ clock' = clock
    BY <1>0, <1>1, LoginEffect
  <2>2. server'.state[Owner[s]] # "offline"
    BY <1>0, <1>1, LoginEffect
  <2>3. s # NoSocket
    BY DEF IMMessagesAssumption
  <2>4. \A u \in Users : server'.sock[u] # NoSocket =>
          Owner[server'.sock[u]] = u /\ server'.login[u] = row'[u].login
    BY <1>0, <2>1, <2>3 DEF Logins
  <2>5. \A u \in Users : server'.state[u] # "offline" =>
          server'.sock[u] # NoSocket /\ row'[u].logout = row'[u].login
    BY <1>0, <2>1, <2>3 DEF Logins
  <2>6. \A u \in Users : row'[u].login <= clock /\ row'[u].logout <= clock
    BY <1>0, <1>01, <2>1 DEF Logins
  <2>7. \A t \in server'.watched : server'.sock[Owner[t]] = t /\ server'.state[Owner[t]] # "offline"
    <3>1. TAKE t \in server'.watched
    <3>2. CASE t = s
      BY <2>1, <2>2, <3>2
    <3>3. CASE t # s
      <4>1. t \in server.watched /\ t # server.sock[Owner[s]]
        BY <2>1, <3>1, <3>3
      <4>2. server.sock[Owner[t]] = t /\ server.state[Owner[t]] # "offline" /\ Owner[t] \in Users
        BY <1>0, <1>01, <4>1 DEF Logins, Current, ServerStates, IMMessagesAssumption
      <4> QED BY <2>1, <4>1, <4>2
    <3> QED BY <3>2, <3>3
  <2> QED BY <2>1, <2>4, <2>5, <2>6, <2>7 DEF Logins, Current
<1>2. ASSUME NEW s \in Sockets, HandleMessage(s) PROVE Logins'
  BY <1>0, <1>02, <1>2, MessageEffect
<1>3. ASSUME NEW s \in Sockets, HandleState(s) PROVE Logins'
  <2>1. CASE Current(s)
    <3>1. PICK st \in {"online", "offline"} : Changes(Owner[s], st)
      BY <1>0, <1>3, <2>1, StateEffect
    <3>2. UNCHANGED clock
      BY <1>0, <1>3, StateEffect
    <3> QED BY <1>03, <2>1, <3>1, <3>2
  <2>2. CASE ~Current(s)
    BY <1>0, <1>02, <1>3, <2>2, StateEffect
  <2> QED BY <2>1, <2>2
<1>4. ASSUME NEW s \in Sockets, HandleDisconnected(s) PROVE Logins'
  <2>1. UNCHANGED clock
    BY <1>0, <1>4, DisconnectedEffect
  <2>2. CASE s \in server.watched
    BY <1>0, <1>03, <1>4, <2>1, <2>2, DisconnectedEffect
  <2>3. CASE s \notin server.watched
    BY <1>0, <1>02, <1>4, <2>1, <2>3, DisconnectedEffect
  <2> QED BY <2>2, <2>3
<1>5. ASSUME NEW s \in Sockets, SignIn(s) \/ SendMessage(s) \/ ChangeState(s) \/ Quit(s) \/ ConnectionLost(s)
      PROVE  Logins'
  BY <1>02, <1>5 DEF SignIn, SendMessage, ChangeState, Quit, ConnectionLost
<1>6. ASSUME ServerRestart PROVE Logins'
  <2>1. /\ server'.watched = {} /\ UNCHANGED <<clock, row>>
        /\ \A u \in Users : server'.state[u] = "offline" /\ server'.sock[u] = NoSocket
    BY <1>0, <1>6, RestartEffect
  <2> QED BY <1>0, <2>1 DEF Logins
<1>7. ASSUME Tick PROVE Logins'
  BY <1>02, <1>7 DEF Tick
<1>8. CASE UNCHANGED vars
  BY <1>02, <1>8 DEF vars
<1> QED BY <1>1, <1>2, <1>3, <1>4, <1>5, <1>6, <1>7, <1>8 DEF Next, Handle

\* The message that a handler saves is the next one of its user.
LEMMA NextMessage ==
  ASSUME IInv, NEW s \in Sockets, Current(s), toServer[s] # <<>>, toServer[s][1].type = "message"
  PROVE  /\ toServer[s][1].n <= written
         /\ \A k \in 1 .. Len(saved) : saved[k].from = Owner[s] => saved[k].n < toServer[s][1].n
<1>1. toServer[s] \in Seq(Packets)
  BY DEF IInv, Types
<1>2. 1 \in 1 .. Len(toServer[s])
  BY <1>1
<1> QED BY <1>2 DEF IInv, ToCome, Coming

LEMMA InOrderStep ==
  ASSUME IMMessagesAssumption, IInv, [Next]_vars
  PROVE  InOrder'
<1>0. Types /\ Connections /\ Logins /\ InOrder
  BY DEF IInv
<1>01. clock \in Nat /\ written \in Nat /\ saved \in Seq(Messages) /\ Len(saved) \in Nat
  BY <1>0 DEF Types, IMMessagesAssumption
<1>02. \A i \in 1 .. Len(saved) : saved[i] \in Messages /\ saved[i].time \in Nat /\ saved[i].n \in Nat
  <2>1. \A m \in Messages : m.time \in Nat /\ m.n \in Nat
    BY DEF Messages
  <2>2. \A i \in 1 .. Len(saved) : saved[i] \in Messages
    BY <1>01
  <2> QED BY <2>1, <2>2
<1>03. ASSUME UNCHANGED saved, clock' \in {clock, clock + 1}, written' \in {written, written + 1}
       PROVE  InOrder'
  <2>1. \A i \in 1 .. Len(saved) : saved[i].time <= clock' /\ saved[i].n <= written'
    BY <1>0, <1>01, <1>02, <1>03 DEF InOrder
  <2> QED BY <1>0, <1>03, <2>1 DEF InOrder
<1>1. ASSUME NEW s \in Sockets, HandleLogin(s) PROVE InOrder'
  BY <1>03, <1>1 DEF HandleLogin
<1>2. ASSUME NEW s \in Sockets, HandleMessage(s) PROVE InOrder'
  <2>1. UNCHANGED <<clock, written>> /\ toServer[s] # <<>> /\ toServer[s][1].type = "message"
    BY <1>0, <1>2, MessageEffect
  <2>2. CASE Current(s)
    <3>1. PICK m \in Messages : /\ m.from = Owner[s] /\ m.n = toServer[s][1].n /\ m.time = clock
                                /\ saved' = Append(saved, m)
      BY <1>0, <1>2, <2>2, MessageEffect
    <3>2. /\ m.n <= written
          /\ \A k \in 1 .. Len(saved) : saved[k].from = m.from => saved[k].n < m.n
      BY <2>1, <2>2, <3>1, NextMessage
    <3>3. /\ Len(saved') = Len(saved) + 1 /\ saved'[Len(saved) + 1] = m
          /\ \A i \in 1 .. Len(saved) : saved'[i] = saved[i]
      BY <1>01, <3>1, AppendFacts
    <3>4. \A i \in 1 .. Len(saved') : saved'[i].time <= clock /\ saved'[i].n <= written
      <4>1. TAKE i \in 1 .. Len(saved')
      <4>2. i \in 1 .. Len(saved) \/ i = Len(saved) + 1
        BY <1>01, <3>3
      <4> QED BY <1>0, <1>01, <3>1, <3>2, <3>3, <4>2 DEF InOrder
    <3>5. ASSUME NEW i \in 1 .. Len(saved'), NEW j \in 1 .. Len(saved'), i < j
          PROVE  /\ saved'[i].time <= saved'[j].time
                 /\ saved'[i].from = saved'[j].from => saved'[i].n < saved'[j].n
      <4>1. i \in 1 .. Len(saved) /\ saved'[i] = saved[i]
        BY <1>01, <3>3, <3>5
      <4>2. CASE j = Len(saved) + 1
        BY <1>0, <1>01, <3>1, <3>2, <3>3, <4>1, <4>2 DEF InOrder
      <4>3. CASE j \in 1 .. Len(saved)
        BY <1>0, <3>3, <3>5, <4>1, <4>3 DEF InOrder
      <4> QED BY <1>01, <3>3, <4>2, <4>3
    <3> QED BY <2>1, <3>4, <3>5 DEF InOrder
  <2>3. CASE ~Current(s)
    BY <1>0, <1>03, <1>2, <2>1, <2>3, MessageEffect
  <2> QED BY <2>2, <2>3
<1>3. ASSUME NEW s \in Sockets,
             \/ HandleState(s) \/ HandleDisconnected(s) \/ SignIn(s) \/ SendMessage(s)
             \/ ChangeState(s) \/ Quit(s) \/ ConnectionLost(s)
      PROVE  InOrder'
  BY <1>03, <1>3
     DEF HandleState, HandleDisconnected, SignIn, SendMessage, ChangeState, Quit, ConnectionLost
<1>4. ASSUME ServerRestart \/ Tick PROVE InOrder'
  BY <1>03, <1>4 DEF ServerRestart, Tick
<1>5. CASE UNCHANGED vars
  BY <1>03, <1>5 DEF vars
<1> QED BY <1>1, <1>2, <1>3, <1>4, <1>5 DEF Next, Handle

\* The messages on their way, and all before them, are at the place where they were.
MessagesInPlace(s) ==
  \A j \in 1 .. Len(toServer'[s]) : toServer'[s][j].type = "message" =>
    \A i \in 1 .. j : i \in 1 .. Len(toServer[s]) /\ toServer'[s][i] = toServer[s][i]

LEMMA PrefixInPlace ==
  ASSUME Types, NEW t \in Sockets, toServer'[t] \in Prefixes(toServer[t])
  PROVE  MessagesInPlace(t)
<1>1. toServer[t] \in Seq(Packets)
  BY DEF Types
<1>2. PICK q : q = toServer'[t]
  OBVIOUS
<1>3. Len(q) \in Nat /\ \A i \in 1 .. Len(q) : i \in 1 .. Len(toServer[t]) /\ q[i] = toServer[t][i]
  BY <1>1, <1>2, PrefixFacts
<1> QED BY <1>2, <1>3 DEF MessagesInPlace

LEMMA BeginningInPlace ==
  ASSUME NEW s, NEW q, q = toServer'[s], NEW n \in Nat, Len(q) \in Nat,
         \A i \in 1 .. n : i \in 1 .. Len(toServer[s]) /\ q[i] = toServer[s][i],
         \A j \in 1 .. Len(q) : q[j].type = "message" => j \in 1 .. n
  PROVE  MessagesInPlace(s)
BY DEF MessagesInPlace

\* What clients send but messages, and what is lost, leaves the messages where they are.
LEMMA ClientsInPlace ==
  ASSUME IMMessagesAssumption, Types, NEW s \in Sockets, NEW t \in Sockets,
         SignIn(s) \/ ChangeState(s) \/ Quit(s) \/ ConnectionLost(s)
  PROVE  MessagesInPlace(t) /\ UNCHANGED <<clock, server, row, saved, sent, due, earlier, written>>
<1>1. toServer[s] \in Seq(Packets)
  BY DEF Types
<1>2. ASSUME toServer'[t] = toServer[t] PROVE MessagesInPlace(t)
  <2>1. toServer[t] \in Seq(Packets)
    BY DEF Types
  <2> QED BY <1>2, <2>1 DEF MessagesInPlace
<1>3. CASE SignIn(s)
  <2>1. PICK p \in Packets : p.type = "login" /\ toServer'[s] = <<p>>
    BY <1>3, SignInEffect
  <2>2. Len(<<p>>) = 1 /\ <<p>>[1] = p
    OBVIOUS
  <2>3. MessagesInPlace(s)
    BY <2>1, <2>2 DEF MessagesInPlace
  <2> QED BY <1>2, <1>3, <2>3, SignInEffect
<1>4. CASE ChangeState(s)
  <2>1. PICK st \in {"online", "offline"} :
          StateChange(st) \in Packets /\ toServer'[s] = Append(toServer[s], StateChange(st))
    BY <1>4, ChangeStateEffect
  <2>2. PICK q : q = toServer'[s]
    OBVIOUS
  <2>3. /\ Len(toServer[s]) \in Nat /\ Len(q) = Len(toServer[s]) + 1
        /\ q[Len(toServer[s]) + 1] = StateChange(st)
        /\ \A i \in 1 .. Len(toServer[s]) : q[i] = toServer[s][i]
    BY <1>1, <2>1, <2>2, AppendFacts
  <2>4. StateChange(st).type = "state"
    BY DEF StateChange
  <2>5. MessagesInPlace(s)
    <3>1. \A j \in 1 .. Len(q) : q[j].type = "message" => j \in 1 .. Len(toServer[s])
      BY <2>3, <2>4
    <3>2. \A i \in 1 .. Len(toServer[s]) : i \in 1 .. Len(toServer[s]) /\ q[i] = toServer[s][i]
      BY <2>3
    <3>3. Len(q) \in Nat
      BY <2>3
    <3> QED BY <2>2, <2>3, <3>1, <3>2, <3>3, BeginningInPlace
  <2> QED BY <1>2, <1>4, <2>5, ChangeStateEffect
<1>5. CASE Quit(s)
  <2>1. PICK r \in Seq(Packets) :
          /\ toServer'[s] = toServer[s] \o r
          /\ Len(r) \in Nat \ {0} /\ r[Len(r)].type = "disconnected"
          /\ \A i \in 1 .. Len(r) : i # Len(r) => r[i] = StateChange("offline")
    BY <1>5, QuitEffect
  <2>2. PICK q : q = toServer'[s]
    OBVIOUS
  <2>3. /\ Len(q) \in Nat /\ Len(toServer[s]) \in Nat
        /\ \A i \in 1 .. Len(toServer[s]) : q[i] = toServer[s][i]
        /\ \A i \in 1 .. Len(q) :
             \/ i \in 1 .. Len(toServer[s]) /\ q[i] = toServer[s][i]
             \/ i - Len(toServer[s]) \in 1 .. Len(r) /\ q[i] = r[i - Len(toServer[s])]
    BY <1>1, <2>1, <2>2, ConcatFacts
  <2>4. \A i \in 1 .. Len(r) : r[i].type # "message"
    BY <2>1 DEF StateChange
  <2>5. MessagesInPlace(s)
    <3>1. \A j \in 1 .. Len(q) : q[j].type = "message" => j \in 1 .. Len(toServer[s])
      BY <2>3, <2>4
    <3>2. \A i \in 1 .. Len(toServer[s]) : i \in 1 .. Len(toServer[s]) /\ q[i] = toServer[s][i]
      BY <2>3
    <3> QED BY <2>2, <2>3, <3>1, <3>2, BeginningInPlace
  <2> QED BY <1>2, <1>5, <2>5, QuitEffect
<1>6. CASE ConnectionLost(s)
  <2>1. PICK q \in Prefixes(toServer[s]), p \in Packets :
          p.type = "disconnected" /\ toServer'[s] = Append(q, p)
    BY <1>6, ConnectionLostEffect
  <2>2. PICK r : r = toServer'[s]
    OBVIOUS
  <2>3. /\ q \in Seq(Packets) /\ Len(q) \in Nat
        /\ \A i \in 1 .. Len(q) : i \in 1 .. Len(toServer[s]) /\ q[i] = toServer[s][i]
    BY <1>1, <2>1, PrefixFacts
  <2>4. /\ Len(r) = Len(q) + 1 /\ r[Len(q) + 1] = p
        /\ \A i \in 1 .. Len(q) : r[i] = q[i]
    BY <2>1, <2>2, <2>3, AppendFacts
  <2>5. MessagesInPlace(s)
    <3>1. \A j \in 1 .. Len(r) : r[j].type = "message" => j \in 1 .. Len(q)
      BY <2>1, <2>3, <2>4
    <3>2. \A i \in 1 .. Len(q) : i \in 1 .. Len(toServer[s]) /\ r[i] = toServer[s][i]
      BY <2>3, <2>4
    <3>3. Len(r) \in Nat
      BY <2>3, <2>4
    <3> QED BY <2>2, <2>3, <3>1, <3>2, <3>3, BeginningInPlace
  <2> QED BY <1>2, <1>6, <2>5, ConnectionLostEffect
<1> QED BY <1>3, <1>4, <1>5, <1>6

LEMMA ComingKept ==
  ASSUME Types, NEW t \in Sockets, Coming(t), MessagesInPlace(t),
         UNCHANGED saved, written' \in {written, written + 1}
  PROVE  Coming(t)'
<1>1. \A i \in 1 .. Len(toServer[t]) : toServer[t][i].type = "message" => toServer[t][i].n \in Nat
  <2>1. ASSUME NEW i \in 1 .. Len(toServer[t]), toServer[t][i].type = "message"
        PROVE  toServer[t][i].n \in Nat
    <3>1. toServer[t][i] \in Packets
      BY DEF Types
    <3>2. toServer[t][i].n \in 1 .. MaxMessages
      BY <2>1, <3>1, PacketKinds
    <3> QED BY <3>2
  <2> QED BY <2>1
<1>2. written \in Nat
  BY DEF Types
<1>3. PICK q : q = toServer'[t]
  OBVIOUS
<1>4. \A i \in 1 .. Len(q) : q[i].type = "message" =>
        i \in 1 .. Len(toServer[t]) /\ q[i] = toServer[t][i]
  <2>1. \A i \in 1 .. Len(q) : i \in 1 .. i
    OBVIOUS
  <2> QED BY <1>3, <2>1 DEF MessagesInPlace
<1>5. ASSUME NEW i \in 1 .. Len(q), q[i].type = "message"
      PROVE  /\ q[i].n <= written'
             /\ \A k \in 1 .. Len(saved) : saved[k].from = Owner[t] => saved[k].n < q[i].n
  <2>1. i \in 1 .. Len(toServer[t]) /\ q[i] = toServer[t][i]
    BY <1>4, <1>5
  <2>2. /\ q[i].n <= written
        /\ \A k \in 1 .. Len(saved) : saved[k].from = Owner[t] => saved[k].n < q[i].n
    BY <1>5, <2>1 DEF Coming
  <2>3. q[i].n \in Nat
    BY <1>1, <1>5, <2>1
  <2> QED BY <1>2, <2>2, <2>3
<1>6. ASSUME NEW i \in 1 .. Len(q), NEW j \in 1 .. Len(q), i < j,
             q[i].type = "message", q[j].type = "message"
      PROVE  q[i].n < q[j].n
  BY <1>4, <1>6 DEF Coming
<1> QED BY <1>3, <1>5, <1>6 DEF Coming

\* The first packet is taken; if it is a message it may have been saved.
LEMMA ComingTaken ==
  ASSUME Types, NEW s \in Sockets, Coming(s), toServer[s] # <<>>, toServer'[s] = Tail(toServer[s]),
         UNCHANGED written,
         \/ UNCHANGED saved
         \/ /\ toServer[s][1].type = "message"
            /\ \E m \in Messages : m.n = toServer[s][1].n /\ saved' = Append(saved, m)
  PROVE  Coming(s)'
<1>1. PICK q : q = toServer'[s]
  OBVIOUS
<1>2. toServer[s] \in Seq(Packets) /\ saved \in Seq(Messages) /\ Len(saved) \in Nat
  BY DEF Types
<1>3. /\ Len(toServer[s]) \in Nat \ {0} /\ Len(q) = Len(toServer[s]) - 1
      /\ \A i \in 1 .. Len(q) : i + 1 \in 1 .. Len(toServer[s]) /\ q[i] = toServer[s][i + 1]
  BY <1>1, <1>2, TailFacts
<1>4. ASSUME NEW i \in 1 .. Len(q), q[i].type = "message"
      PROVE  /\ q[i].n <= written
             /\ \A k \in 1 .. Len(saved') : saved'[k].from = Owner[s] => saved'[k].n < q[i].n
  <2>1. i + 1 \in 1 .. Len(toServer[s]) /\ q[i] = toServer[s][i + 1]
    BY <1>3
  <2>2. /\ q[i].n <= written
        /\ \A k \in 1 .. Len(saved) : saved[k].from = Owner[s] => saved[k].n < q[i].n
    BY <1>4, <2>1 DEF Coming
  <2>3. CASE UNCHANGED saved
    BY <2>2, <2>3
  <2>4. CASE /\ toServer[s][1].type = "message"
             /\ \E m \in Messages : m.n = toServer[s][1].n /\ saved' = Append(saved, m)
    <3>1. PICK m \in Messages : m.n = toServer[s][1].n /\ saved' = Append(saved, m)
      BY <2>4
    <3>2. /\ Len(saved') = Len(saved) + 1 /\ saved'[Len(saved) + 1] = m
          /\ \A k \in 1 .. Len(saved) : saved'[k] = saved[k]
      BY <1>2, <3>1, AppendFacts
    <3>3. 1 \in 1 .. Len(toServer[s]) /\ 1 < i + 1
      BY <1>3
    <3>4. m.n < q[i].n
      BY <1>4, <2>1, <2>4, <3>1, <3>3 DEF Coming
    <3>5. \A k \in 1 .. Len(saved') : k \in 1 .. Len(saved) \/ k = Len(saved) + 1
      BY <1>2, <3>2
    <3> QED BY <2>2, <3>2, <3>4, <3>5
  <2> QED BY <2>3, <2>4
<1>5. ASSUME NEW i \in 1 .. Len(q), NEW j \in 1 .. Len(q), i < j,
             q[i].type = "message", q[j].type = "message"
      PROVE  q[i].n < q[j].n
  <2>1. /\ i + 1 \in 1 .. Len(toServer[s]) /\ q[i] = toServer[s][i + 1]
        /\ j + 1 \in 1 .. Len(toServer[s]) /\ q[j] = toServer[s][j + 1]
        /\ i + 1 < j + 1
    BY <1>3, <1>5
  <2> QED BY <1>5, <2>1 DEF Coming
<1> QED BY <1>1, <1>4, <1>5 DEF Coming

LEMMA ToComeStep ==
  ASSUME IMMessagesAssumption, IInv, [Next]_vars
  PROVE  ToCome'
<1>0. Types /\ Connections /\ Logins /\ InOrder /\ ToCome
  BY DEF IInv
<1> SUFFICES ASSUME NEW t \in Sockets, Current(t)' PROVE Coming(t)'
  BY DEF ToCome
<1>01. Current(t) => Coming(t)
  BY <1>0 DEF ToCome
<1>02. ASSUME UNCHANGED <<server, saved>>, MessagesInPlace(t), written' \in {written, written + 1}
       PROVE  Coming(t)'
  <2>1. Current(t)
    BY <1>02 DEF Current
  <2> QED BY <1>0, <1>01, <1>02, <2>1, ComingKept
<1>03. toServer'[t] = toServer[t] => MessagesInPlace(t)
  <2>1. toServer[t] \in Seq(Packets)
    BY <1>0 DEF Types
  <2> QED BY <2>1 DEF MessagesInPlace
<1>04. ASSUME NEW s \in Sockets, toServer[s] # <<>>, toServer' = Taken(s), server'.sock = server.sock,
              UNCHANGED <<saved, written>>
       PROVE  Coming(t)'
  <2>1. Current(t)
    BY <1>04 DEF Current
  <2>2. toServer'[s] = Tail(toServer[s]) /\ (t # s => toServer'[t] = toServer[t])
    BY <1>0, <1>04, TakenEffect
  <2>3. CASE t = s
    BY <1>0, <1>01, <1>04, <2>1, <2>2, <2>3, ComingTaken
  <2>4. CASE t # s
    BY <1>0, <1>01, <1>03, <1>04, <2>1, <2>2, <2>4, ComingKept
  <2> QED BY <2>3, <2>4
<1>1. ASSUME NEW s \in Sockets, HandleLogin(s) PROVE Coming(t)'
  <2>1. UNCHANGED <<saved, written>>
    BY <1>1 DEF HandleLogin
  <2>2. CASE t = s
    <3>1. toServer[s] # <<>> /\ toServer[s][1].type = "login" /\ toServer'[s] = Tail(toServer[s])
      BY <1>0, <1>1, LoginEffect
    <3>2. PICK q : q = toServer'[s]
      OBVIOUS
    <3>3. toServer[s] \in Seq(Packets)
      BY <1>0 DEF Types
    <3>4. /\ Len(toServer[s]) \in Nat \ {0}
          /\ \A i \in 1 .. Len(q) : i + 1 \in 1 .. Len(toServer[s]) /\ q[i] = toServer[s][i + 1]
      BY <3>1, <3>2, <3>3, TailFacts
    <3>5. \A j \in 2 .. Len(toServer[s]) : toServer[s][j].type = "disconnected"
      <4>1. 1 \in 1 .. Len(toServer[s]) /\ Connection(s)
        BY <1>0, <3>4 DEF Connections
      <4> QED BY <3>1, <4>1 DEF Connection
    <3>6. \A i \in 1 .. Len(q) : q[i].type # "message"
      <4>1. ASSUME NEW i \in 1 .. Len(q) PROVE q[i].type # "message"
        <5>1. i + 1 \in 2 .. Len(toServer[s]) /\ q[i] = toServer[s][i + 1]
          BY <3>4
        <5> QED BY <3>5, <5>1
      <4> QED BY <4>1
    <3> QED BY <2>2, <3>2, <3>6 DEF Coming
  <2>3. CASE t # s
    <3>1. toServer'[t] \in Prefixes(toServer[t])
      BY <1>0, <1>1, <2>3, LoginEffect
    <3>2. /\ Owner[s] \in Users /\ server'.sock[Owner[s]] = s
          /\ \A v \in Users : v # Owner[s] => server'.sock[v] = server.sock[v]
      BY <1>0, <1>1, LoginEffect
    <3>3. Current(t)
      BY <2>3, <3>2 DEF Current, IMMessagesAssumption
    <3> QED BY <1>0, <1>01, <2>1, <3>1, <3>3, PrefixInPlace, ComingKept
  <2> QED BY <2>2, <2>3
<1>2. ASSUME NEW s \in Sockets, HandleMessage(s) PROVE Coming(t)'
  <2>1. /\ toServer[s] # <<>> /\ toServer' = Taken(s) /\ UNCHANGED <<server, written>>
        /\ toServer[s][1].type = "message"
    BY <1>0, <1>2, MessageEffect
  <2>2. CASE Current(s)
    <3>1. PICK m \in Messages : /\ m.from = Owner[s] /\ m.n = toServer[s][1].n
                                /\ saved' = Append(saved, m)
      BY <1>0, <1>2, <2>2, MessageEffect
    <3>2. toServer'[s] = Tail(toServer[s]) /\ (t # s => toServer'[t] = toServer[t])
      BY <1>0, <2>1, TakenEffect
    <3>3. Current(t)
      BY <2>1 DEF Current
    <3>4. CASE t = s
      BY <1>0, <1>01, <2>1, <3>1, <3>2, <3>3, <3>4, ComingTaken
    <3>5. CASE t # s
      <4>1. Owner[t] # m.from
        BY <2>2, <3>1, <3>3, <3>5 DEF Current
      <4>2. saved \in Seq(Messages) /\ Len(saved) \in Nat
        BY <1>0 DEF Types
      <4>3. /\ Len(saved') = Len(saved) + 1 /\ saved'[Len(saved) + 1] = m
            /\ \A k \in 1 .. Len(saved) : saved'[k] = saved[k]
        BY <3>1, <4>2, AppendFacts
      <4>4. \A k \in 1 .. Len(saved') : saved'[k].from = Owner[t] =>
              k \in 1 .. Len(saved) /\ saved'[k] = saved[k]
        <5>1. \A k \in 1 .. Len(saved') : k \in 1 .. Len(saved) \/ k = Len(saved) + 1
          BY <4>2, <4>3
        <5> QED BY <4>1, <4>3, <5>1
      <4>5. Coming(t) /\ toServer'[t] = toServer[t] /\ written' = written
        BY <1>01, <2>1, <3>2, <3>3, <3>5
      <4> QED BY <4>4, <4>5 DEF Coming
    <3> QED BY <3>4, <3>5
  <2>3. CASE ~Current(s)
    <3>1. UNCHANGED saved
      BY <1>0, <1>2, <2>3, MessageEffect
    <3> QED BY <1>04, <2>1, <3>1
  <2> QED BY <2>2, <2>3
<1>3. ASSUME NEW s \in Sockets, HandleState(s) PROVE Coming(t)'
  <2>1. toServer[s] # <<>> /\ toServer' = Taken(s) /\ UNCHANGED <<saved, written>>
        /\ server'.sock = server.sock
    BY <1>0, <1>3, StateEffect DEF Changes
  <2> QED BY <1>04, <2>1
<1>4. ASSUME NEW s \in Sockets, HandleDisconnected(s) PROVE Coming(t)'
  <2>1. toServer[s] # <<>> /\ toServer' = Taken(s) /\ UNCHANGED <<saved, written>>
        /\ server'.sock = server.sock
    BY <1>0, <1>4, DisconnectedEffect DEF Changes
  <2> QED BY <1>04, <2>1
<1>5. ASSUME NEW s \in Sockets, SignIn(s) \/ ChangeState(s) \/ Quit(s) \/ ConnectionLost(s)
      PROVE  Coming(t)'
  BY <1>0, <1>02, <1>5, ClientsInPlace
<1>6. ASSUME NEW s \in Sockets, SendMessage(s) PROVE Coming(t)'
  <2>1. PICK p \in Packets : /\ p.type = "message" /\ p.n = written + 1
                             /\ toServer'[s] = Append(toServer[s], p)
    BY <1>0, <1>6, SendMessageEffect
  <2>2. written' = written + 1 /\ (t # s => toServer'[t] = toServer[t])
        /\ UNCHANGED <<server, saved>>
    BY <1>0, <1>6, SendMessageEffect
  <2>3. CASE t # s
    BY <1>02, <1>03, <2>2, <2>3
  <2>4. CASE t = s
    <3>1. Coming(s)
      BY <1>01, <2>2, <2>4 DEF Current
    <3>2. PICK q : q = toServer'[s]
      OBVIOUS
    <3>3. toServer[s] \in Seq(Packets) /\ written \in Nat /\ saved \in Seq(Messages)
      BY <1>0 DEF Types
    <3>4. /\ Len(toServer[s]) \in Nat /\ Len(q) = Len(toServer[s]) + 1
          /\ q[Len(toServer[s]) + 1] = p
          /\ \A i \in 1 .. Len(toServer[s]) : q[i] = toServer[s][i]
      BY <2>1, <3>2, <3>3, AppendFacts
    <3>5. \A i \in 1 .. Len(toServer[s]) : toServer[s][i].type = "message" =>
            toServer[s][i].n \in Nat /\ toServer[s][i].n <= written
      <4>1. \A i \in 1 .. Len(toServer[s]) : toServer[s][i] \in Packets
        BY <3>3
      <4>2. \A i \in 1 .. Len(toServer[s]) : toServer[s][i].type = "message" =>
              toServer[s][i].n \in 1 .. MaxMessages
        BY <4>1, PacketKinds
      <4> QED BY <3>1, <4>2 DEF Coming
    <3>6. \A k \in 1 .. Len(saved) : saved[k].n \in Nat /\ saved[k].n <= written
      <4>1. \A m \in Messages : m.n \in Nat
        BY DEF Messages
      <4> QED BY <1>0, <3>3, <4>1 DEF InOrder
    <3>7. ASSUME NEW i \in 1 .. Len(q), q[i].type = "message"
          PROVE  /\ q[i].n <= written + 1
                 /\ \A k \in 1 .. Len(saved) : saved[k].from = Owner[s] => saved[k].n < q[i].n
      <4>1. CASE i = Len(toServer[s]) + 1
        <5>1. q[i].n = written + 1
          BY <2>1, <3>4, <4>1
        <5> QED BY <3>3, <3>6, <5>1
      <4>2. CASE i \in 1 .. Len(toServer[s])
        <5>1. q[i] = toServer[s][i]
          BY <3>4, <4>2
        <5>2. /\ q[i].n \in Nat /\ q[i].n <= written
              /\ \A k \in 1 .. Len(saved) : saved[k].from = Owner[s] => saved[k].n < q[i].n
          BY <3>1, <3>5, <3>7, <4>2, <5>1 DEF Coming
        <5> QED BY <3>3, <5>2
      <4> QED BY <3>4, <4>1, <4>2
    <3>8. ASSUME NEW i \in 1 .. Len(q), NEW j \in 1 .. Len(q), i < j,
                 q[i].type = "message", q[j].type = "message"
          PROVE  q[i].n < q[j].n
      <4>1. i \in 1 .. Len(toServer[s]) /\ q[i] = toServer[s][i]
        BY <3>4, <3>8
      <4>2. CASE j = Len(toServer[s]) + 1
        BY <2>1, <3>3, <3>4, <3>5, <3>8, <4>1, <4>2
      <4>3. CASE j \in 1 .. Len(toServer[s])
        BY <3>1, <3>4, <3>8, <4>1, <4>3 DEF Coming
      <4> QED BY <3>4, <4>2, <4>3
    <3> QED BY <2>2, <2>4, <3>2, <3>7, <3>8 DEF Coming
  <2> QED BY <2>3, <2>4
<1>7. ASSUME ServerRestart PROVE Coming(t)'
  <2>1. toServer'[t] = <<>> /\ Len(<<>>) = 0
    BY <1>0, <1>7, RestartEffect
  <2> QED BY <2>1 DEF Coming
<1>8. ASSUME Tick PROVE Coming(t)'
  BY <1>02, <1>03, <1>8 DEF Tick
<1>9. CASE UNCHANGED vars
  BY <1>02, <1>03, <1>9 DEF vars
<1> QED BY <1>1, <1>2, <1>3, <1>4, <1>5, <1>6, <1>7, <1>8, <1>9 DEF Next, Handle

\* The client says nothing more, and what it said is where it was or lost.
LEMMA SeenKept ==
  ASSUME Types, NEW t \in Sockets, Seen(t), MessagesInPlace(t),
         server'.state[Owner[t]] = server.state[Owner[t]],
         session'[t] = "none" \/ (toServer'[t] = toServer[t] /\ session'[t] = session[t])
  PROVE  Seen(t)'
<1>1. PICK q : q = toServer'[t]
  OBVIOUS
<1>2. CASE toServer'[t] = toServer[t] /\ session'[t] = session[t]
  <2>1. \A i : SaysOffline(t, i)' <=> SaysOffline(t, i)
    BY <1>2 DEF SaysOffline
  <2> QED BY <1>2, <2>1 DEF Seen
<1>3. CASE session'[t] = "none"
  <2>1. ASSUME NEW i \in 0 .. Len(q), SaysOffline(t, i)', NEW j \in i + 1 .. Len(q),
               q[j].type = "message"
        PROVE  \E k \in i + 1 .. j - 1 : q[k] = StateChange("online")
    <3>1. j \in 1 .. Len(q) /\ j \in 1 .. j
      BY <2>1
    <3>2. \A k \in 1 .. j : k \in 1 .. Len(toServer[t]) /\ q[k] = toServer[t][k]
      BY <1>1, <2>1, <3>1 DEF MessagesInPlace
    <3>3. SaysOffline(t, i)
      <4>1. CASE i = 0
        BY <2>1, <4>1 DEF SaysOffline
      <4>2. CASE i # 0
        <5>1. i \in 1 .. j
          BY <2>1, <4>2
        <5> QED BY <1>1, <2>1, <3>2, <4>2, <5>1 DEF SaysOffline
      <4> QED BY <4>1, <4>2
    <3>4. i \in 0 .. Len(toServer[t]) /\ j \in i + 1 .. Len(toServer[t])
          /\ toServer[t][j].type = "message"
      <4>1. Len(toServer[t]) \in Nat
        BY DEF Types
      <4> QED BY <2>1, <3>1, <3>2, <4>1
    <3>5. PICK k \in i + 1 .. j - 1 : toServer[t][k] = StateChange("online")
      BY <3>3, <3>4 DEF Seen
    <3>6. k \in 1 .. j
      BY <2>1, <3>1
    <3> QED BY <3>2, <3>5, <3>6
  <2> QED BY <1>1, <1>3, <2>1 DEF Seen
<1> QED BY <1>2, <1>3

\* The first packet is taken, and what it says, or what was so before, holds after it.
LEMMA SeenTaken ==
  ASSUME Types, NEW s \in Sockets, Seen(s), toServer[s] # <<>>, toServer'[s] = Tail(toServer[s]),
         session'[s] = session[s],
         SaysOffline(s, 0)' => \/ SaysOffline(s, 1)
                               \/ SaysOffline(s, 0) /\ toServer[s][1] # StateChange("online")
  PROVE  Seen(s)'
<1>1. PICK q : q = toServer'[s]
  OBVIOUS
<1>2. toServer[s] \in Seq(Packets)
  BY DEF Types
<1>3. PICK p : p = toServer[s]
  OBVIOUS
<1>4. /\ Len(p) \in Nat \ {0} /\ Len(q) = Len(p) - 1
      /\ \A i \in 1 .. Len(q) : i + 1 \in 1 .. Len(p) /\ q[i] = p[i + 1]
  BY <1>1, <1>2, <1>3, TailFacts
<1>5. ASSUME NEW i \in 0 .. Len(q), SaysOffline(s, i)'
      PROVE  \E b \in {i, i + 1} : /\ b \in 0 .. Len(p) /\ SaysOffline(s, b)
                                   /\ b = i => p[i + 1] # StateChange("online")
  <2>1. CASE i = 0
    <3>1. 0 \in 0 .. Len(p) /\ 1 \in 0 .. Len(p)
      BY <1>4
    <3>2. CASE SaysOffline(s, 1)
      BY <2>1, <3>1, <3>2
    <3>3. CASE SaysOffline(s, 0) /\ toServer[s][1] # StateChange("online")
      BY <1>3, <2>1, <3>1, <3>3
    <3> QED BY <1>5, <2>1, <3>2, <3>3
  <2>2. CASE i # 0
    <3>1. i \in 1 .. Len(q) /\ i + 1 \in 0 .. Len(p) /\ i + 1 # 0 /\ i + 1 # i
      BY <1>4, <2>2
    <3>2. q[i] = StateChange("offline")
      BY <1>1, <1>5, <2>2 DEF SaysOffline
    <3>3. SaysOffline(s, i + 1)
      BY <1>3, <1>4, <3>1, <3>2 DEF SaysOffline
    <3> QED BY <3>1, <3>3
  <2> QED BY <2>1, <2>2
<1>6. ASSUME NEW i \in 0 .. Len(q), SaysOffline(s, i)'
      PROVE  /\ \/ session'[s] \in {"none", "offline"}
                \/ \E k \in i + 1 .. Len(q) : q[k] = StateChange("online")
             /\ \A j \in i + 1 .. Len(q) : q[j].type = "message" =>
                  \E k \in i + 1 .. j - 1 : q[k] = StateChange("online")
  <2>1. PICK b \in {i, i + 1} : /\ b \in 0 .. Len(p) /\ SaysOffline(s, b)
                                /\ b = i => p[i + 1] # StateChange("online")
    BY <1>5, <1>6
  <2>2. \A k \in b + 1 .. Len(p) : p[k] = StateChange("online") =>
          k - 1 \in i + 1 .. Len(q) /\ q[k - 1] = StateChange("online")
    <3>1. ASSUME NEW k \in b + 1 .. Len(p), p[k] = StateChange("online")
          PROVE  k - 1 \in i + 1 .. Len(q) /\ q[k - 1] = StateChange("online")
      <4>1. k # i + 1
        BY <2>1, <3>1
      <4>2. k - 1 \in i + 1 .. Len(q) /\ k - 1 \in 1 .. Len(q) /\ (k - 1) + 1 = k
        BY <1>4, <2>1, <4>1
      <4> QED BY <1>4, <3>1, <4>2
    <3> QED BY <3>1
  <2>3. /\ \/ session[s] \in {"none", "offline"}
           \/ \E k \in b + 1 .. Len(p) : p[k] = StateChange("online")
        /\ \A j \in b + 1 .. Len(p) : p[j].type = "message" =>
             \E k \in b + 1 .. j - 1 : p[k] = StateChange("online")
    BY <1>3, <2>1 DEF Seen
  <2>4. \/ session'[s] \in {"none", "offline"}
        \/ \E k \in i + 1 .. Len(q) : q[k] = StateChange("online")
    BY <2>2, <2>3
  <2>5. ASSUME NEW j \in i + 1 .. Len(q), q[j].type = "message"
        PROVE  \E k \in i + 1 .. j - 1 : q[k] = StateChange("online")
    <3>1. j \in 1 .. Len(q) /\ j + 1 \in b + 1 .. Len(p)
      BY <1>4, <2>1
    <3>2. PICK k \in b + 1 .. (j + 1) - 1 : p[k] = StateChange("online")
      BY <1>4, <2>3, <2>5, <3>1
    <3>3. k \in b + 1 .. Len(p)
      BY <3>1
    <3>4. k - 1 \in i + 1 .. Len(q) /\ q[k - 1] = StateChange("online")
      BY <2>2, <3>2, <3>3
    <3>5. k - 1 \in i + 1 .. j - 1
      BY <3>1, <3>4
    <3> QED BY <3>4, <3>5
  <2> QED BY <2>4, <2>5
<1> QED BY <1>1, <1>6 DEF Seen

LEMMA SeenWhenWritingStep ==
  ASSUME IMMessagesAssumption, IInv, [Next]_vars
  PROVE  SeenWhenWriting'
<1>0. Types /\ Connections /\ Logins /\ InOrder /\ SeenWhenWriting
  BY DEF IInv
<1> SUFFICES ASSUME NEW t \in Sockets, Current(t)' PROVE Seen(t)'
  BY DEF SeenWhenWriting
<1>01. Current(t) => Seen(t)
  BY <1>0 DEF SeenWhenWriting
<1>02. toServer[t] \in Seq(Packets) /\ Len(toServer[t]) \in Nat /\ Owner[t] \in Users
  BY <1>0 DEF Types, IMMessagesAssumption
<1>03. ASSUME toServer'[t] = toServer[t], session'[t] = session[t], Current(t),
              server'.state[Owner[t]] = server.state[Owner[t]]
       PROVE  Seen(t)'
  <2>1. MessagesInPlace(t)
    BY <1>02, <1>03 DEF MessagesInPlace
  <2> QED BY <1>0, <1>01, <1>03, <2>1, SeenKept
<1>1. ASSUME NEW s \in Sockets, HandleLogin(s) PROVE Seen(t)'
  <2>1. CASE t = s
    <3>1. toServer[s] # <<>> /\ toServer[s][1].type = "login" /\ toServer'[s] = Tail(toServer[s])
      BY <1>0, <1>1, LoginEffect
    <3>2. server'.state[Owner[s]] # "offline"
      BY <1>0, <1>1, LoginEffect
    <3>3. PICK q : q = toServer'[s]
      OBVIOUS
    <3>4. /\ Len(toServer[s]) \in Nat \ {0}
          /\ \A i \in 1 .. Len(q) : i + 1 \in 1 .. Len(toServer[s]) /\ q[i] = toServer[s][i + 1]
      BY <1>02, <2>1, <3>1, <3>3, TailFacts
    <3>5. \A j \in 2 .. Len(toServer[s]) : toServer[s][j].type = "disconnected"
      <4>1. 1 \in 1 .. Len(toServer[s]) /\ Connection(s)
        BY <1>0, <3>4 DEF Connections
      <4> QED BY <3>1, <4>1 DEF Connection
    <3>6. ASSUME NEW i \in 1 .. Len(q) PROVE q[i] # StateChange("offline")
      <4>1. i + 1 \in 2 .. Len(toServer[s]) /\ q[i] = toServer[s][i + 1]
        BY <3>4
      <4>2. q[i].type = "disconnected"
        BY <3>5, <4>1
      <4> QED BY <4>2 DEF StateChange
    <3>7. \A i \in 0 .. Len(q) : ~SaysOffline(s, i)'
      BY <3>2, <3>3, <3>6 DEF SaysOffline
    <3> QED BY <2>1, <3>3, <3>7 DEF Seen
  <2>2. CASE t # s
    <3>1. /\ Owner[s] \in Users /\ server'.sock[Owner[s]] = s
          /\ \A v \in Users : v # Owner[s] =>
               server'.sock[v] = server.sock[v] /\ server'.state[v] = server.state[v]
      BY <1>0, <1>1, LoginEffect
    <3>2. Owner[t] # Owner[s] /\ Current(t)
      BY <1>02, <2>2, <3>1 DEF Current
    <3>3. t # server.sock[Owner[s]]
      BY <1>0, <3>1, <3>2 DEF Logins, IMMessagesAssumption
    <3>4. toServer'[t] = toServer[t] /\ session'[t] = session[t]
      BY <1>0, <1>1, <2>2, <3>3, LoginEffect
    <3> QED BY <1>02, <1>03, <3>1, <3>2, <3>4
  <2> QED BY <2>1, <2>2
<1>2. ASSUME NEW s \in Sockets, HandleMessage(s) PROVE Seen(t)'
  <2>1. /\ toServer[s] # <<>> /\ toServer' = Taken(s) /\ UNCHANGED <<server, session>>
        /\ toServer[s][1].type = "message"
    BY <1>0, <1>2, MessageEffect
  <2>2. toServer'[s] = Tail(toServer[s]) /\ (t # s => toServer'[t] = toServer[t])
    BY <1>0, <2>1, TakenEffect
  <2>3. Current(t) /\ Seen(t)
    BY <1>01, <2>1 DEF Current
  <2>4. CASE t = s
    <3>1. SaysOffline(s, 0)' => SaysOffline(s, 0) /\ toServer[s][1] # StateChange("online")
      BY <2>1 DEF SaysOffline, StateChange
    <3> QED BY <1>0, <2>1, <2>2, <2>3, <2>4, <3>1, SeenTaken
  <2>5. CASE t # s
    BY <1>03, <2>1, <2>2, <2>3, <2>5
  <2> QED BY <2>4, <2>5
<1>3. ASSUME NEW s \in Sockets, HandleState(s) PROVE Seen(t)'
  <2>1. /\ toServer[s] # <<>> /\ toServer' = Taken(s) /\ UNCHANGED session
        /\ server'.sock = server.sock
    BY <1>0, <1>3, StateEffect DEF Changes
  <2>2. toServer'[s] = Tail(toServer[s]) /\ (t # s => toServer'[t] = toServer[t])
    BY <1>0, <2>1, TakenEffect
  <2>3. Current(t) /\ Seen(t)
    BY <1>01, <2>1 DEF Current
  <2>4. CASE t = s
    <3>1. PICK st \in {"online", "offline"} : toServer[s][1] = StateChange(st)
                                              /\ server'.state[Owner[s]] = st
      BY <1>0, <1>3, <2>3, <2>4, StateEffect DEF Changes
    <3>2. SaysOffline(s, 0)' => SaysOffline(s, 1)
      BY <3>1 DEF SaysOffline
    <3> QED BY <1>0, <2>1, <2>2, <2>3, <2>4, <3>2, SeenTaken
  <2>5. CASE t # s
    <3>1. server'.state[Owner[t]] = server.state[Owner[t]]
      <4>1. CASE Current(s)
        <5>1. PICK st \in {"online", "offline"} : Changes(Owner[s], st)
          BY <1>0, <1>3, <4>1, StateEffect
        <5>2. Owner[t] # Owner[s]
          BY <2>3, <2>5, <4>1 DEF Current
        <5> QED BY <1>02, <5>1, <5>2 DEF Changes
      <4>2. CASE ~Current(s)
        BY <1>0, <1>3, <4>2, StateEffect
      <4> QED BY <4>1, <4>2
    <3> QED BY <1>03, <2>1, <2>2, <2>3, <2>5, <3>1
  <2> QED BY <2>4, <2>5
<1>4. ASSUME NEW s \in Sockets, HandleDisconnected(s) PROVE Seen(t)'
  <2>1. /\ toServer[s] # <<>> /\ toServer' = Taken(s) /\ UNCHANGED session
        /\ server'.sock = server.sock /\ toServer[s][1].type = "disconnected"
    BY <1>0, <1>4, DisconnectedEffect DEF Changes
  <2>2. toServer'[s] = Tail(toServer[s]) /\ (t # s => toServer'[t] = toServer[t])
    BY <1>0, <2>1, TakenEffect
  <2>3. Current(t) /\ Seen(t)
    BY <1>01, <2>1 DEF Current
  <2>4. CASE t = s
    <3>1. PICK q : q = toServer'[s]
      OBVIOUS
    <3>2. Len(q) = Len(toServer[s]) - 1 /\ 1 \in 1 .. Len(toServer[s])
      BY <1>02, <2>1, <2>2, <2>4, <3>1, TailFacts
    <3>3. Len(toServer[s]) = 1 /\ link[s] = "down" /\ session[s] = "none"
      BY <1>0, <2>1, <3>2 DEF Connections, Connection
    <3>4. Len(q) = 0 /\ session'[s] = "none"
      BY <2>1, <3>2, <3>3
    <3> QED BY <2>4, <3>1, <3>4 DEF Seen
  <2>5. CASE t # s
    <3>1. server'.state[Owner[t]] = server.state[Owner[t]]
      <4>1. CASE s \in server.watched
        <5>1. Current(s) /\ Changes(Owner[s], "offline")
          BY <1>0, <1>4, <4>1, DisconnectedEffect
        <5>2. Owner[t] # Owner[s]
          BY <2>3, <2>5, <5>1 DEF Current
        <5> QED BY <1>02, <5>1, <5>2 DEF Changes
      <4>2. CASE s \notin server.watched
        BY <1>0, <1>4, <4>2, DisconnectedEffect
      <4> QED BY <4>1, <4>2
    <3> QED BY <1>03, <2>1, <2>2, <2>3, <2>5, <3>1
  <2> QED BY <2>4, <2>5
<1>5. ASSUME NEW s \in Sockets, SignIn(s) \/ Quit(s) \/ ConnectionLost(s) PROVE Seen(t)'
  <2>1. MessagesInPlace(t) /\ UNCHANGED server
    BY <1>0, <1>5, ClientsInPlace
  <2>2. Current(t)
    BY <2>1 DEF Current
  <2>3. session'[t] = "none" \/ (toServer'[t] = toServer[t] /\ session'[t] = session[t])
    <3>1. session \in [Sockets -> {"none", "online", "invisible", "offline"}]
      BY <1>0 DEF Types
    <3>2. CASE SignIn(s)
      BY <1>0, <3>2, SignInEffect DEF Connections, Connection
    <3>3. CASE Quit(s)
      BY <1>0, <3>1, <3>3, QuitEffect
    <3>4. CASE ConnectionLost(s)
      BY <1>0, <3>1, <3>4, ConnectionLostEffect
    <3> QED BY <1>5, <3>2, <3>3, <3>4
  <2> QED BY <1>0, <1>01, <2>1, <2>2, <2>3, SeenKept
<1>6. ASSUME NEW s \in Sockets, SendMessage(s) PROVE Seen(t)'
  <2>1. PICK p \in Packets : p.type = "message" /\ toServer'[s] = Append(toServer[s], p)
    BY <1>0, <1>6, SendMessageEffect
  <2>2. /\ UNCHANGED <<server, session>> /\ (t # s => toServer'[t] = toServer[t])
        /\ session[s] \notin {"none", "offline"}
    BY <1>0, <1>6, SendMessageEffect
  <2>3. Current(t) /\ Seen(t)
    BY <1>01, <2>2 DEF Current
  <2>4. CASE t # s
    BY <1>03, <2>2, <2>3, <2>4
  <2>5. CASE t = s
    <3>1. PICK q : q = toServer'[s]
      OBVIOUS
    <3>2. PICK n : n = Len(toServer[s])
      OBVIOUS
    <3>3. /\ n \in Nat /\ Len(q) = n + 1 /\ q[n + 1] = p
          /\ \A i \in 1 .. n : q[i] = toServer[s][i]
      BY <1>02, <2>1, <2>5, <3>1, <3>2, AppendFacts
    <3>4. p # StateChange("offline")
      BY <2>1 DEF StateChange
    <3>5. ASSUME NEW i \in 0 .. Len(q), SaysOffline(s, i)'
          PROVE  i \in 0 .. n /\ SaysOffline(s, i)
      <4>1. CASE i = 0
        BY <2>2, <3>3, <3>5, <4>1 DEF SaysOffline
      <4>2. CASE i # 0
        <5>1. q[i] = StateChange("offline")
          BY <3>1, <3>5, <4>2 DEF SaysOffline
        <5>2. i \in 1 .. n
          BY <3>3, <3>4, <4>2, <5>1
        <5> QED BY <3>3, <4>2, <5>1, <5>2 DEF SaysOffline
      <4> QED BY <4>1, <4>2
    <3>6. ASSUME NEW i \in 0 .. Len(q), SaysOffline(s, i)'
          PROVE  /\ \E k \in i + 1 .. Len(q) : q[k] = StateChange("online")
                 /\ \A j \in i + 1 .. Len(q) : q[j].type = "message" =>
                      \E k \in i + 1 .. j - 1 : q[k] = StateChange("online")
      <4>1. i \in 0 .. n /\ SaysOffline(s, i)
        BY <3>5, <3>6
      <4>2. PICK k \in i + 1 .. n : toServer[s][k] = StateChange("online")
        BY <2>2, <2>3, <2>5, <3>2, <4>1 DEF Seen
      <4>3. k \in i + 1 .. Len(q) /\ q[k] = StateChange("online")
        BY <3>3, <4>1, <4>2
      <4>4. ASSUME NEW j \in i + 1 .. Len(q), q[j].type = "message"
            PROVE  \E l \in i + 1 .. j - 1 : q[l] = StateChange("online")
        <5>1. CASE j = n + 1
          <6>1. k \in i + 1 .. j - 1
            BY <3>3, <4>1, <5>1
          <6> QED BY <4>3, <6>1
        <5>2. CASE j \in i + 1 .. n
          <6>1. j \in 1 .. n /\ toServer[s][j].type = "message"
            BY <3>3, <4>1, <4>4, <5>2
          <6>2. PICK l \in i + 1 .. j - 1 : toServer[s][l] = StateChange("online")
            BY <2>3, <2>5, <3>2, <4>1, <5>2, <6>1 DEF Seen
          <6>3. l \in 1 .. n
            BY <3>3, <4>1, <5>2
          <6> QED BY <3>3, <6>2, <6>3
        <5> QED BY <3>3, <4>1, <5>1, <5>2
      <4> QED BY <4>3, <4>4
    <3> QED BY <2>5, <3>1, <3>6 DEF Seen
  <2> QED BY <2>4, <2>5
<1>7. ASSUME NEW s \in Sockets, ChangeState(s) PROVE Seen(t)'
  <2>1. PICK st \in {"online", "offline"} :
          /\ StateChange(st) \in Packets /\ toServer'[s] = Append(toServer[s], StateChange(st))
          /\ session' = [session EXCEPT ![s] = st]
    BY <1>0, <1>7, ChangeStateEffect
  <2>2. UNCHANGED server /\ (t # s => toServer'[t] = toServer[t])
    BY <1>0, <1>7, ChangeStateEffect
  <2>3. Current(t) /\ Seen(t)
    BY <1>01, <2>2 DEF Current
  <2>4. session'[s] = st /\ (t # s => session'[t] = session[t])
    BY <1>0, <2>1 DEF Types
  <2>5. CASE t # s
    BY <1>03, <2>2, <2>3, <2>4, <2>5
  <2>6. CASE t = s
    <3>1. PICK q : q = toServer'[s]
      OBVIOUS
    <3>2. PICK n : n = Len(toServer[s])
      OBVIOUS
    <3>3. /\ n \in Nat /\ Len(q) = n + 1 /\ q[n + 1] = StateChange(st)
          /\ \A i \in 1 .. n : q[i] = toServer[s][i]
      BY <1>02, <2>1, <2>6, <3>1, <3>2, AppendFacts
    <3>4. StateChange(st).type # "message"
      BY DEF StateChange
    <3>5. ASSUME NEW i \in 0 .. Len(q), SaysOffline(s, i)', i # n + 1
          PROVE  i \in 0 .. n /\ SaysOffline(s, i)
      <4>1. i \in 0 .. n
        BY <3>3, <3>5
      <4>2. i # 0 => i \in 1 .. n
        BY <4>1
      <4> QED BY <2>2, <3>1, <3>3, <3>5, <4>1, <4>2 DEF SaysOffline
    <3>6. ASSUME NEW i \in 0 .. Len(q), SaysOffline(s, i)'
          PROVE  /\ \/ session'[s] \in {"none", "offline"}
                    \/ \E k \in i + 1 .. Len(q) : q[k] = StateChange("online")
                 /\ \A j \in i + 1 .. Len(q) : q[j].type = "message" =>
                      \E k \in i + 1 .. j - 1 : q[k] = StateChange("online")
      <4>1. CASE i = n + 1
        <5>1. q[i] = StateChange("offline")
          BY <3>1, <3>3, <3>6, <4>1 DEF SaysOffline
        <5>2. st = "offline"
          BY <3>3, <4>1, <5>1 DEF StateChange
        <5> QED BY <2>4, <3>3, <4>1, <5>2
      <4>2. CASE i # n + 1
        <5>1. i \in 0 .. n /\ SaysOffline(s, i)
          BY <3>5, <3>6, <4>2
        <5>2. \/ session'[s] \in {"none", "offline"}
              \/ \E k \in i + 1 .. Len(q) : q[k] = StateChange("online")
          <6>1. CASE st = "offline"
            BY <2>4, <6>1
          <6>2. CASE st = "online"
            <7>1. n + 1 \in i + 1 .. Len(q)
              BY <3>3, <5>1
            <7> QED BY <3>3, <6>2, <7>1
          <6> QED BY <6>1, <6>2
        <5>3. ASSUME NEW j \in i + 1 .. Len(q), q[j].type = "message"
              PROVE  \E l \in i + 1 .. j - 1 : q[l] = StateChange("online")
          <6>1. j \in i + 1 .. n /\ toServer[s][j].type = "message"
            <7>1. j # n + 1
              BY <3>3, <3>4, <5>3
            <7>2. j \in i + 1 .. n /\ j \in 1 .. n
              BY <3>3, <5>1, <7>1
            <7> QED BY <3>3, <5>3, <7>2
          <6>2. PICK l \in i + 1 .. j - 1 : toServer[s][l] = StateChange("online")
            BY <2>3, <2>6, <3>2, <5>1, <6>1 DEF Seen
          <6>3. l \in 1 .. n
            BY <3>3, <5>1, <6>1
          <6> QED BY <3>3, <6>2, <6>3
        <5> QED BY <5>2, <5>3
      <4> QED BY <4>1, <4>2
    <3> QED BY <2>6, <3>1, <3>6 DEF Seen
  <2> QED BY <2>5, <2>6
<1>8. ASSUME ServerRestart PROVE Seen(t)'
  <2>1. server'.sock[Owner[t]] = NoSocket
    BY <1>0, <1>02, <1>8, RestartEffect
  <2> QED BY <2>1 DEF Current, IMMessagesAssumption
<1>9. ASSUME Tick \/ UNCHANGED vars PROVE Seen(t)'
  <2>1. UNCHANGED <<server, toServer, session>>
    BY <1>9 DEF Tick, vars
  <2> QED BY <1>03, <2>1 DEF Current
<1> QED BY <1>1, <1>2, <1>3, <1>4, <1>5, <1>6, <1>7, <1>8, <1>9 DEF Next, Handle

-----------------------------------------------------------------------------
(* What is kept and what is sent                                           *)

LEMMA TypeFacts ==
  ASSUME IMMessagesAssumption, Types
  PROVE  /\ clock \in Nat /\ written \in Nat
         /\ saved \in Seq(Messages) /\ Len(saved) \in Nat
         /\ \A i \in 1 .. Len(saved) : saved[i].time \in Nat /\ saved[i].n \in Nat
         /\ \A u \in Users : /\ sent[u] \in Seq(Messages) /\ Len(sent[u]) \in Nat
                             /\ row[u].login \in Nat /\ row[u].logout \in Nat
         /\ earlier \in Nat /\ earlier <= Len(saved)
<1>1. \A m \in Messages : m.time \in Nat /\ m.n \in Nat
  BY DEF Messages
<1>2. \A i \in 1 .. Len(saved) : saved[i] \in Messages
  BY DEF Types
<1>3. \A u \in Users : row[u].login \in Nat /\ row[u].logout \in Nat
  BY DEF Types, Rows
<1> QED BY <1>1, <1>2, <1>3 DEF Types, IMMessagesAssumption

\* Clients, the network and time leave the server and its database alone.
LEMMA ServerKept ==
  ASSUME \/ \E s \in Sockets :
              SignIn(s) \/ SendMessage(s) \/ ChangeState(s) \/ Quit(s) \/ ConnectionLost(s)
         \/ Tick
         \/ UNCHANGED vars
  PROVE  UNCHANGED <<server, row, saved, sent, due, earlier>>
BY DEF SignIn, SendMessage, ChangeState, Quit, ConnectionLost, Tick, vars

\* The user whose message the server decrypts is not offline.
LEMMA WriterIsOnline ==
  ASSUME IInv, NEW s \in Sockets, Current(s), toServer[s] # <<>>, toServer[s][1].type = "message"
  PROVE  server.state[Owner[s]] # "offline"
<1>1. toServer[s] \in Seq(Packets)
  BY DEF IInv, Types
<1>2. 0 \in 0 .. Len(toServer[s]) /\ 1 \in 0 + 1 .. Len(toServer[s])
  BY <1>1
<1>3. Seen(s)
  BY DEF IInv, SeenWhenWriting
<1>4. SaysOffline(s, 0) => \E k \in 0 + 1 .. 1 - 1 : toServer[s][k] = StateChange("online")
  BY <1>2, <1>3 DEF Seen
<1>5. 0 + 1 .. 1 - 1 = {}
  OBVIOUS
<1> QED BY <1>4, <1>5 DEF SaysOffline

\* What was sent was saved, and was so at a time before now.
LEMMA SentFacts ==
  ASSUME IMMessagesAssumption, IInv, NEW u \in Users, NEW i \in 1 .. Len(sent[u])
  PROVE  /\ \E k \in 1 .. Len(saved) : saved[k] = sent[u][i]
         /\ sent[u][i].time \in Nat /\ sent[u][i].time <= clock
<1>1. sent[u][i] \in ToSet(saved)
  BY DEF IInv, Kept
<1>2. PICK k \in 1 .. Len(saved) : saved[k] = sent[u][i]
  BY <1>1, TypeFacts, ToSetFacts DEF IInv
<1> QED BY <1>2, TypeFacts DEF IInv, InOrder

\* The handler of the message at the head of socket s's queue saves m.
Saves(s, m) ==
    /\ m.from = Owner[s] /\ m.time = clock
    /\ server.state[m.from] # "offline"
    /\ \A k \in 1 .. Len(saved) : saved[k].from = m.from => saved[k].n < m.n
    /\ Len(saved') = Len(saved) + 1 /\ saved'[Len(saved) + 1] = m
    /\ \A k \in 1 .. Len(saved) : saved'[k] = saved[k]
    /\ \A u \in Users :
         /\ sent'[u] = IF u \in Online(m) THEN Append(sent[u], m) ELSE sent[u]
         /\ due'[u] = IF /\ u \in Receivers(m) \ {m.from}
                         /\ server.state[u] = "offline" /\ clock > row[u].logout
                      THEN due[u] \cup {m} ELSE due[u]

\* What a handler saves, when it does.
LEMMA SavedMessage ==
  ASSUME IMMessagesAssumption, IInv, NEW s \in Sockets, HandleMessage(s), Current(s)
  PROVE  \E m \in Messages : Saves(s, m)
<1>0. Types
  BY DEF IInv
<1>1. PICK m \in Messages :
        /\ m.from = Owner[s] /\ m.n = toServer[s][1].n /\ m.time = clock
        /\ saved' = Append(saved, m)
        /\ sent' = [u \in Users |-> IF u \in Online(m) THEN Append(sent[u], m) ELSE sent[u]]
        /\ due' = [u \in Users |->
             IF /\ u \in Receivers(m) \ {m.from}
                /\ server.state[u] = "offline" /\ clock > row[u].logout
             THEN due[u] \cup {m} ELSE due[u]]
  BY <1>0, MessageEffect
<1>2. toServer[s] # <<>> /\ toServer[s][1].type = "message"
  BY <1>0, MessageEffect
<1>3. /\ server.state[m.from] # "offline"
      /\ \A k \in 1 .. Len(saved) : saved[k].from = m.from => saved[k].n < m.n
  BY <1>1, <1>2, NextMessage, WriterIsOnline
<1>4. /\ Len(saved') = Len(saved) + 1 /\ saved'[Len(saved) + 1] = m
      /\ \A k \in 1 .. Len(saved) : saved'[k] = saved[k]
  BY <1>0, <1>1, TypeFacts, AppendFacts
<1>5. Saves(s, m)
  BY <1>1, <1>3, <1>4 DEF Saves
<1> QED BY <1>5

\* A change of state, of the owner of the current socket s.
LEMMA StateChanged ==
  ASSUME IMMessagesAssumption, IInv, NEW s \in Sockets, HandleState(s) \/ HandleDisconnected(s)
  PROVE  /\ UNCHANGED <<clock, saved, sent, earlier>>
         /\ \/ UNCHANGED <<server, row, due>>
            \/ /\ \A u \in Users : u # Owner[s] =>
                    server'.state[u] = server.state[u] /\ row'[u] = row[u] /\ due'[u] = due[u]
               /\ row'[Owner[s]].logout = clock
               /\ due'[Owner[s]] = {}
<1>0. Types /\ Logins /\ OfflineMessagesWait
  BY DEF IInv
<1>01. Owner[s] \in Users
  BY DEF IMMessagesAssumption
<1>1. CASE HandleState(s)
  <2>1. UNCHANGED <<clock, saved, sent, earlier>>
    BY <1>0, <1>1, StateEffect
  <2>2. CASE Current(s)
    <3>1. PICK st \in {"online", "offline"} :
            /\ Changes(Owner[s], st)
            /\ \A u \in Users : due'[u] =
                 IF u = Owner[s] /\ server.state[u] = "offline" THEN {} ELSE due[u]
      BY <1>0, <1>1, <2>2, StateEffect
    <3>2. server.state[Owner[s]] # "offline" => due[Owner[s]] = {}
      BY <1>0, <1>01 DEF OfflineMessagesWait
    <3> QED BY <1>01, <2>1, <3>1, <3>2 DEF Changes
  <2>3. CASE ~Current(s)
    BY <1>0, <1>1, <2>1, <2>3, StateEffect
  <2> QED BY <2>2, <2>3
<1>2. CASE HandleDisconnected(s)
  <2>1. UNCHANGED <<clock, saved, sent, due, earlier>>
    BY <1>0, <1>2, DisconnectedEffect
  <2>2. CASE s \in server.watched
    <3>1. Changes(Owner[s], "offline")
      BY <1>0, <1>2, <2>2, DisconnectedEffect
    <3>2. due[Owner[s]] = {}
      BY <1>0, <1>01, <2>2 DEF OfflineMessagesWait, Logins
    <3> QED BY <1>01, <2>1, <3>1, <3>2 DEF Changes
  <2>3. CASE s \notin server.watched
    BY <1>0, <1>2, <2>1, <2>3, DisconnectedEffect
  <2> QED BY <2>2, <2>3
<1> QED BY <1>1, <1>2

\* What the login of the owner of s sends: nothing when a session is kicked.
LEMMA LoginSends ==
  ASSUME IMMessagesAssumption, IInv, NEW s \in Sockets, HandleLogin(s)
  PROVE  \E c \in Seq(Messages) :
           /\ sent'[Owner[s]] = sent[Owner[s]] \o c
           /\ due'[Owner[s]] = {}
           /\ \A i \in 1 .. Len(c) : /\ c[i] \in ToSet(saved)
                                     /\ server.state[Owner[s]] = "offline"
                                     /\ c[i].time > row[Owner[s]].logout
           /\ \A i, j \in 1 .. Len(c) :
                i < j /\ c[i].from = c[j].from /\ c[i].to = c[j].to => c[i].n < c[j].n
<1>0. Types /\ Connections /\ Logins /\ InOrder /\ Kept /\ OfflineMessagesWait
  BY DEF IInv
<1>1. PICK u : u = Owner[s]
  OBVIOUS
<1>2. u \in Users
  BY <1>1 DEF IMMessagesAssumption
<1>3. PICK last \in [login : 0 .. MaxTime, logout : 0 .. MaxTime] :
         /\ last.logout = IF server.state[u] = "offline" THEN row[u].logout ELSE clock
         /\ sent'[u] = sent[u] \o Cached(u, last)
         /\ due'[u] = due[u] \ ToSet(Cached(u, last))
  <2>1. SendsCached(Owner[s])
    BY <1>0, LoginEffect
  <2> QED BY <1>1, <2>1 DEF SendsCached
<1>4. PICK c : c = Cached(u, last)
  OBVIOUS
<1>5. /\ c \in Seq(Messages)
      /\ \A i \in 1 .. Len(c) : c[i] \in ToSet(saved) /\ c[i].time > last.logout
      /\ \A m \in ToSet(saved) : u \in Receivers(m) /\ m.time > last.logout => m \in ToSet(c)
      /\ \A i, j \in 1 .. Len(c) :
           i < j /\ c[i].from = c[j].from /\ c[i].to = c[j].to => c[i].n < c[j].n
  BY <1>0, <1>2, <1>4, CachedFacts
<1>6. ASSUME NEW i \in 1 .. Len(c)
      PROVE  server.state[u] = "offline" /\ c[i].time > row[u].logout
  <2>1. PICK k \in 1 .. Len(saved) : saved[k] = c[i]
    BY <1>0, <1>5, TypeFacts, ToSetFacts
  <2>2. c[i].time <= clock /\ c[i].time \in Nat /\ clock \in Nat
    BY <1>0, <2>1, TypeFacts DEF InOrder
  <2>3. c[i].time > last.logout
    BY <1>5
  <2> QED BY <1>3, <2>2, <2>3
<1>7. due'[u] = {}
  <2>1. ASSUME NEW m \in due[u] PROVE m \in ToSet(c)
    <3>1. /\ server.state[u] = "offline" /\ m.time > row[u].logout
          /\ m \in ToSet(saved) /\ u \in Receivers(m)
      BY <1>0, <1>2 DEF Kept, OfflineMessagesWait
    <3> QED BY <1>3, <1>5, <3>1
  <2> QED BY <1>3, <1>4, <2>1
<1> QED BY <1>1, <1>3, <1>4, <1>5, <1>6, <1>7

LEMMA KeptStep ==
  ASSUME IMMessagesAssumption, IInv, [Next]_vars
  PROVE  Kept'
<1>0. Types /\ Connections /\ Logins /\ InOrder /\ Kept
  BY DEF IInv
<1>01. ASSUME UNCHANGED <<saved, sent>>, \A u \in Users : due'[u] \subseteq due[u] PROVE Kept'
  BY <1>0, <1>01 DEF Kept, Receivers
<1>1. ASSUME NEW s \in Sockets, HandleLogin(s) PROVE Kept'
  <2>1. PICK c \in Seq(Messages) :
          /\ sent'[Owner[s]] = sent[Owner[s]] \o c
          /\ due'[Owner[s]] = {}
          /\ \A i \in 1 .. Len(c) : c[i] \in ToSet(saved)
    BY <1>1, LoginSends
  <2>2. /\ Owner[s] \in Users /\ UNCHANGED saved
        /\ \A v \in Users : v # Owner[s] => sent'[v] = sent[v] /\ due'[v] = due[v]
    BY <1>0, <1>1, LoginEffect
  <2>3. PICK q : q = sent'[Owner[s]]
    OBVIOUS
  <2>4. sent[Owner[s]] \in Seq(Messages)
    BY <1>0, <2>2, TypeFacts
  <2>5. \A i \in 1 .. Len(q) : q[i] \in ToSet(saved)
    <3>1. TAKE i \in 1 .. Len(q)
    <3>2. \/ i \in 1 .. Len(sent[Owner[s]]) /\ q[i] = sent[Owner[s]][i]
          \/ i - Len(sent[Owner[s]]) \in 1 .. Len(c) /\ q[i] = c[i - Len(sent[Owner[s]])]
      BY <2>1, <2>3, <2>4, ConcatFacts
    <3> QED BY <1>0, <2>1, <2>2, <3>2 DEF Kept
  <2>6. \A u \in Users :
          /\ \A i \in 1 .. Len(sent'[u]) : sent'[u][i] \in ToSet(saved)
          /\ \A m \in due'[u] : m \in ToSet(saved) /\ u \in Receivers(m)
    BY <1>0, <2>1, <2>2, <2>3, <2>5 DEF Kept
  <2> QED BY <2>2, <2>6 DEF Kept, Receivers
<1>2. ASSUME NEW s \in Sockets, HandleMessage(s), Current(s) PROVE Kept'
  <2>0. PICK m \in Messages : Saves(s, m)
    BY <1>2, SavedMessage
  <2>1. /\ Len(saved') = Len(saved) + 1 /\ saved'[Len(saved) + 1] = m
        /\ \A k \in 1 .. Len(saved) : saved'[k] = saved[k]
        /\ \A u \in Users :
             /\ sent'[u] = IF u \in Online(m) THEN Append(sent[u], m) ELSE sent[u]
             /\ due'[u] = IF /\ u \in Receivers(m) \ {m.from}
                             /\ server.state[u] = "offline" /\ clock > row[u].logout
                          THEN due[u] \cup {m} ELSE due[u]
    BY <2>0 DEF Saves
  <2>2. saved \in Seq(Messages) /\ Len(saved) \in Nat
    BY <1>0, TypeFacts
  <2>3. PICK all : all = ToSet(saved')
    OBVIOUS
  <2>4. m \in all /\ ToSet(saved) \subseteq all
    <3>1. \A k \in 1 .. Len(saved) + 1 : saved'[k] \in all
      BY <2>1, <2>3 DEF ToSet
    <3>2. \A x \in ToSet(saved) : \E k \in 1 .. Len(saved) : saved[k] = x
      BY <2>2, ToSetFacts
    <3>3. Len(saved) + 1 \in 1 .. Len(saved) + 1
          /\ \A k \in 1 .. Len(saved) : k \in 1 .. Len(saved) + 1
      BY <2>2
    <3> QED BY <2>1, <3>1, <3>2, <3>3
  <2>5. ASSUME NEW u \in Users
        PROVE  /\ \A i \in 1 .. Len(sent'[u]) : sent'[u][i] \in all
               /\ \A x \in due'[u] : x \in all /\ u \in Receivers(x)
    <3>1. PICK q : q = sent'[u]
      OBVIOUS
    <3>2. \A i \in 1 .. Len(sent[u]) : sent[u][i] \in all
      BY <1>0, <2>4 DEF Kept
    <3>3. \A i \in 1 .. Len(q) : q[i] \in all
      <4>1. CASE u \in Online(m)
        <5>1. /\ sent[u] \in Seq(Messages) /\ Len(sent[u]) \in Nat
              /\ q = Append(sent[u], m)
          BY <1>0, <2>1, <3>1, <4>1, TypeFacts
        <5>2. /\ Len(q) = Len(sent[u]) + 1 /\ q[Len(sent[u]) + 1] = m
              /\ \A i \in 1 .. Len(sent[u]) : q[i] = sent[u][i]
          BY <5>1, AppendFacts
        <5>3. \A i \in 1 .. Len(q) : i \in 1 .. Len(sent[u]) \/ i = Len(sent[u]) + 1
          BY <5>1, <5>2
        <5> QED BY <2>4, <3>2, <5>2, <5>3
      <4>2. CASE u \notin Online(m)
        BY <2>1, <3>1, <3>2, <4>2
      <4> QED BY <4>1, <4>2
    <3>4. \A x \in due'[u] : x \in due[u] \/ (x = m /\ u \in Receivers(m))
      <4>1. CASE u \in Receivers(m)
        <5>1. due'[u] \in {due[u] \cup {m}, due[u]}
          BY <2>1
        <5> QED BY <4>1, <5>1
      <4>2. CASE u \notin Receivers(m)
        BY <2>1, <4>2
      <4> QED BY <4>1, <4>2
    <3> QED BY <1>0, <2>4, <3>1, <3>3, <3>4 DEF Kept
  <2> QED BY <2>3, <2>5 DEF Kept, Receivers
<1>3. ASSUME NEW s \in Sockets, HandleMessage(s), ~Current(s) PROVE Kept'
  BY <1>0, <1>01, <1>3, MessageEffect
<1>4. ASSUME NEW s \in Sockets, HandleState(s) \/ HandleDisconnected(s) PROVE Kept'
  <2>1. UNCHANGED <<saved, sent>>
    BY <1>4, StateChanged
  <2>2. \A u \in Users : due'[u] \subseteq due[u]
    BY <1>4, StateChanged
  <2> QED BY <1>01, <2>1, <2>2
<1>5. ASSUME ServerRestart PROVE Kept'
  <2>1. UNCHANGED saved /\ Len(<<>>) = 0 /\ \A u \in Users : sent'[u] = <<>>
    BY <1>0, <1>5, RestartEffect
  <2>2. \A u \in Users : due'[u] =
          IF server.state[u] = "offline" THEN due[u]
          ELSE { m \in ToSet(saved) : u \in Receivers(m) \ {m.from} /\ m.time > row[u].login }
    BY <1>0, <1>5, RestartEffect
  <2>3. \A u \in Users : \A m \in due'[u] : m \in ToSet(saved) /\ u \in Receivers(m)
    BY <1>0, <2>2 DEF Kept
  <2> QED BY <2>1, <2>3 DEF Kept, Receivers
<1>6. ASSUME \/ \E s \in Sockets :
                  SignIn(s) \/ SendMessage(s) \/ ChangeState(s) \/ Quit(s) \/ ConnectionLost(s)
             \/ Tick
             \/ UNCHANGED vars
      PROVE  Kept'
  BY <1>01, <1>6, ServerKept
<1> QED BY <1>1, <1>2, <1>3, <1>4, <1>5, <1>6 DEF Next, Handle

LEMMA LoggedOutAfterStep ==
  ASSUME IMMessagesAssumption, IInv, [Next]_vars
  PROVE  LoggedOutAfter'
<1>0. Types /\ Connections /\ Logins /\ InOrder /\ Kept /\ LoggedOutAfter
  BY DEF IInv
<1>01. ASSUME UNCHANGED <<saved, sent, earlier>>,
              \A u \in Users : server'.state[u] = "offline" =>
                \/ row'[u].logout = clock
                \/ server.state[u] = "offline" /\ row'[u] = row[u]
       PROVE  LoggedOutAfter'
  <2>1. ASSUME NEW u \in Users, server'.state[u] = "offline"
        PROVE  /\ \A i \in 1 .. Len(sent[u]) : sent[u][i].time <= row'[u].logout
               /\ \A i \in earlier + 1 .. Len(saved) :
                    saved[i].from = u => saved[i].time <= row'[u].logout
    <3>1. CASE row'[u].logout = clock
      <4>1. \A i \in 1 .. Len(sent[u]) : sent[u][i].time <= clock
        BY SentFacts
      <4>2. \A i \in earlier + 1 .. Len(saved) : i \in 1 .. Len(saved)
        BY <1>0, TypeFacts
      <4> QED BY <1>0, <3>1, <4>1, <4>2 DEF InOrder
    <3>2. CASE server.state[u] = "offline" /\ row'[u] = row[u]
      BY <1>0, <3>2 DEF LoggedOutAfter
    <3> QED BY <1>01, <2>1, <3>1, <3>2
  <2> QED BY <1>01, <2>1 DEF LoggedOutAfter
<1>1. ASSUME NEW s \in Sockets, HandleLogin(s) PROVE LoggedOutAfter'
  <2>1. /\ UNCHANGED <<saved, earlier>> /\ Owner[s] \in Users
        /\ \A v \in Users : v # Owner[s] =>
             server'.state[v] = server.state[v] /\ row'[v] = row[v] /\ sent'[v] = sent[v]
    <3>1. \A v \in Users : v # Owner[s] =>
             server'.state[v] = server.state[v] /\ row'[v] = row[v] /\ sent'[v] = sent[v]
      BY <1>0, <1>1, LoginEffect
    <3>2. UNCHANGED <<saved, earlier>> /\ Owner[s] \in Users
      BY <1>0, <1>1, LoginEffect
    <3> QED BY <3>1, <3>2
  <2>2. server'.state[Owner[s]] # "offline"
    BY <1>0, <1>1, LoginEffect
  <2> QED BY <1>0, <2>1, <2>2 DEF LoggedOutAfter
<1>2. ASSUME NEW s \in Sockets, HandleMessage(s), Current(s) PROVE LoggedOutAfter'
  <2>0. PICK m \in Messages : Saves(s, m)
    BY <1>2, SavedMessage
  <2>1. /\ server.state[m.from] # "offline"
        /\ Len(saved') = Len(saved) + 1 /\ saved'[Len(saved) + 1] = m
        /\ \A k \in 1 .. Len(saved) : saved'[k] = saved[k]
        /\ \A u \in Users : sent'[u] = IF u \in Online(m) THEN Append(sent[u], m) ELSE sent[u]
    BY <2>0 DEF Saves
  <2>2. UNCHANGED <<server, row, earlier>>
    BY <1>0, <1>2, MessageEffect
  <2>3. ASSUME NEW u \in Users, server.state[u] = "offline"
        PROVE  /\ \A i \in 1 .. Len(sent'[u]) : sent'[u][i].time <= row[u].logout
               /\ \A i \in earlier + 1 .. Len(saved') :
                    saved'[i].from = u => saved'[i].time <= row[u].logout
    <3>1. sent'[u] = sent[u]
      BY <2>1, <2>3 DEF Online
    <3>2. \A i \in earlier + 1 .. Len(saved') : saved'[i].from = u =>
            i \in earlier + 1 .. Len(saved) /\ saved'[i] = saved[i]
      <4>1. ASSUME NEW i \in earlier + 1 .. Len(saved'), saved'[i].from = u
            PROVE  i \in earlier + 1 .. Len(saved) /\ saved'[i] = saved[i]
        <5>1. earlier \in Nat /\ Len(saved) \in Nat
          BY <1>0, TypeFacts
        <5>2. i # Len(saved) + 1
          BY <2>1, <2>3, <4>1
        <5>3. i \in earlier + 1 .. Len(saved) /\ i \in 1 .. Len(saved)
          BY <2>1, <5>1, <5>2
        <5> QED BY <2>1, <5>3
      <4> QED BY <4>1
    <3> QED BY <1>0, <2>3, <3>1, <3>2 DEF LoggedOutAfter
  <2> QED BY <2>2, <2>3 DEF LoggedOutAfter
<1>3. ASSUME NEW s \in Sockets, HandleMessage(s), ~Current(s) PROVE LoggedOutAfter'
  BY <1>0, <1>01, <1>3, MessageEffect
<1>4. ASSUME NEW s \in Sockets, HandleState(s) \/ HandleDisconnected(s) PROVE LoggedOutAfter'
  <2>1. UNCHANGED <<saved, sent, earlier>>
    BY <1>4, StateChanged
  <2>2. \A u \in Users : server'.state[u] = "offline" =>
          \/ row'[u].logout = clock
          \/ server.state[u] = "offline" /\ row'[u] = row[u]
    BY <1>4, StateChanged
  <2> QED BY <1>01, <2>1, <2>2
<1>5. ASSUME ServerRestart PROVE LoggedOutAfter'
  <2>1. /\ UNCHANGED saved /\ earlier' = Len(saved) /\ Len(<<>>) = 0
        /\ \A u \in Users : sent'[u] = <<>>
    BY <1>0, <1>5, RestartEffect
  <2>2. earlier' + 1 .. Len(saved') = {}
    BY <1>0, <2>1, TypeFacts
  <2> QED BY <2>1, <2>2 DEF LoggedOutAfter
<1>6. ASSUME \/ \E s \in Sockets :
                  SignIn(s) \/ SendMessage(s) \/ ChangeState(s) \/ Quit(s) \/ ConnectionLost(s)
             \/ Tick
             \/ UNCHANGED vars
      PROVE  LoggedOutAfter'
  BY <1>01, <1>6, ServerKept
<1> QED BY <1>1, <1>2, <1>3, <1>4, <1>5, <1>6 DEF Next, Handle

LEMMA OfflineMessagesWaitStep ==
  ASSUME IMMessagesAssumption, IInv, [Next]_vars
  PROVE  OfflineMessagesWait'
<1>0. Types /\ Connections /\ Logins /\ InOrder /\ OfflineMessagesWait
  BY DEF IInv
<1>01. ASSUME UNCHANGED <<server, row, due>> PROVE OfflineMessagesWait'
  BY <1>0, <1>01 DEF OfflineMessagesWait
<1>1. ASSUME NEW s \in Sockets, HandleLogin(s) PROVE OfflineMessagesWait'
  <2>1. due'[Owner[s]] = {}
    BY <1>1, LoginSends
  <2>2. \A v \in Users : v # Owner[s] =>
          server'.state[v] = server.state[v] /\ row'[v] = row[v] /\ due'[v] = due[v]
    BY <1>0, <1>1, LoginEffect
  <2> QED BY <1>0, <2>1, <2>2 DEF OfflineMessagesWait
<1>2. ASSUME NEW s \in Sockets, HandleMessage(s), Current(s) PROVE OfflineMessagesWait'
  <2>0. PICK m \in Messages : Saves(s, m)
    BY <1>2, SavedMessage
  <2>1. /\ m.time = clock
        /\ \A u \in Users :
             /\ sent'[u] = IF u \in Online(m) THEN Append(sent[u], m) ELSE sent[u]
             /\ due'[u] = IF /\ u \in Receivers(m) \ {m.from}
                             /\ server.state[u] = "offline" /\ clock > row[u].logout
                          THEN due[u] \cup {m} ELSE due[u]
    BY <2>0 DEF Saves
  <2>2. UNCHANGED <<server, row>>
    BY <1>0, <1>2, MessageEffect
  <2>3. ASSUME NEW u \in Users, NEW x \in due'[u]
        PROVE  server.state[u] = "offline" /\ x.time > row[u].logout
    <3>1. CASE x \in due[u]
      BY <1>0, <3>1 DEF OfflineMessagesWait
    <3>2. CASE x \notin due[u]
      <4>1. due'[u] = IF /\ u \in Receivers(m) \ {m.from}
                         /\ server.state[u] = "offline" /\ clock > row[u].logout
                      THEN due[u] \cup {m} ELSE due[u]
        BY <2>1
      <4>2. server.state[u] = "offline" /\ clock > row[u].logout /\ due'[u] = due[u] \cup {m}
        BY <2>3, <3>2, <4>1
      <4>3. x = m
        BY <2>3, <3>2, <4>2
      <4> QED BY <2>1, <4>2, <4>3
    <3> QED BY <3>1, <3>2
  <2> QED BY <2>2, <2>3 DEF OfflineMessagesWait
<1>3. ASSUME NEW s \in Sockets, HandleMessage(s), ~Current(s) PROVE OfflineMessagesWait'
  BY <1>0, <1>01, <1>3, MessageEffect
<1>4. ASSUME NEW s \in Sockets, HandleState(s) \/ HandleDisconnected(s) PROVE OfflineMessagesWait'
  BY <1>0, <1>4, StateChanged DEF OfflineMessagesWait
<1>5. ASSUME ServerRestart PROVE OfflineMessagesWait'
  <2>1. UNCHANGED row /\ \A u \in Users : server'.state[u] = "offline"
    BY <1>0, <1>5, RestartEffect
  <2>2. \A u \in Users : due'[u] =
          IF server.state[u] = "offline" THEN due[u]
          ELSE { m \in ToSet(saved) : u \in Receivers(m) \ {m.from} /\ m.time > row[u].login }
    BY <1>0, <1>5, RestartEffect
  <2>3. ASSUME NEW u \in Users, NEW m \in due'[u] PROVE m.time > row[u].logout
    <3>1. CASE server.state[u] = "offline"
      BY <1>0, <2>2, <2>3, <3>1 DEF OfflineMessagesWait
    <3>2. CASE server.state[u] # "offline"
      <4>1. m.time > row[u].login
        BY <2>2, <2>3, <3>2
      <4>2. row[u].logout = row[u].login
        BY <1>0, <3>2 DEF Logins
      <4> QED BY <4>1, <4>2
    <3> QED BY <3>1, <3>2
  <2> QED BY <2>1, <2>3 DEF OfflineMessagesWait
<1>6. ASSUME \/ \E s \in Sockets :
                  SignIn(s) \/ SendMessage(s) \/ ChangeState(s) \/ Quit(s) \/ ConnectionLost(s)
             \/ Tick
             \/ UNCHANGED vars
      PROVE  OfflineMessagesWait'
  BY <1>01, <1>6, ServerKept
<1> QED BY <1>1, <1>2, <1>3, <1>4, <1>5, <1>6 DEF Next, Handle

\* The two parts of OnceInOrder, for messages q that were sent to u.
SentInOrder(q) ==
  \A i, j \in 1 .. Len(q) :
    i < j /\ q[i].from = q[j].from /\ q[i].to = q[j].to => q[i].n < q[j].n
NotBackTo(u, q) ==
  \A i \in earlier + 1 .. Len(saved) : saved[i].from = u => \A k \in 1 .. Len(q) : q[k] # saved[i]

LEMMA OnceInOrderParts ==
  ASSUME sent \in [Users -> Seq(Messages)]
  PROVE  OnceInOrder <=> \A u \in Users : SentInOrder(sent[u]) /\ NotBackTo(u, sent[u])
<1>1. ASSUME NEW u \in Users, NEW x
      PROVE  x \in ToSet(sent[u]) <=> \E k \in 1 .. Len(sent[u]) : sent[u][k] = x
  BY ToSetFacts
<1>2. ASSUME NEW u \in Users
      PROVE  NotBackTo(u, sent[u]) <=>
               \A i \in earlier + 1 .. Len(saved) : saved[i].from = u => saved[i] \notin ToSet(sent[u])
  BY <1>1 DEF NotBackTo
<1> QED BY <1>2 DEF OnceInOrder, SentInOrder

LEMMA OnceInOrderStep ==
  ASSUME IMMessagesAssumption, IInv, [Next]_vars
  PROVE  OnceInOrder'
<1>0. Types /\ Connections /\ Logins /\ InOrder /\ Kept /\ LoggedOutAfter /\ OnceInOrder
  BY DEF IInv
<1>01. \A u \in Users : SentInOrder(sent[u]) /\ NotBackTo(u, sent[u])
  BY <1>0, OnceInOrderParts DEF Types
<1>02. ASSUME \A u \in Users : SentInOrder(sent'[u]) /\ NotBackTo(u, sent[u])'
       PROVE  OnceInOrder'
  <2>1. Types'
    BY TypesStep
  <2>2. (OnceInOrder <=> \A u \in Users : SentInOrder(sent[u]) /\ NotBackTo(u, sent[u]))'
    <3>1. (sent \in [Users -> Seq(Messages)])'
      BY <2>1 DEF Types
    <3> QED BY <3>1, OnceInOrderParts, PTL
  <2> QED BY <1>02, <2>2 DEF SentInOrder
<1>03. ASSUME UNCHANGED <<saved, sent, earlier>> PROVE OnceInOrder'
  BY <1>0, <1>03 DEF OnceInOrder
<1>1. ASSUME NEW s \in Sockets, HandleLogin(s) PROVE OnceInOrder'
  <2>0. PICK u : u = Owner[s]
    OBVIOUS
  <2>1. PICK c \in Seq(Messages) :
          /\ sent'[u] = sent[u] \o c
          /\ \A i \in 1 .. Len(c) : /\ c[i] \in ToSet(saved)
                                    /\ server.state[u] = "offline" /\ c[i].time > row[u].logout
          /\ \A i, j \in 1 .. Len(c) :
               i < j /\ c[i].from = c[j].from /\ c[i].to = c[j].to => c[i].n < c[j].n
    BY <1>1, <2>0, LoginSends
  <2>2. /\ UNCHANGED <<saved, earlier>> /\ u \in Users
        /\ \A v \in Users : v # u => sent'[v] = sent[v]
    BY <1>0, <1>1, <2>0, LoginEffect
  <2>3. PICK p : p = sent[u]
    OBVIOUS
  <2>4. PICK q : q = sent'[u]
    OBVIOUS
  <2>5. /\ p \in Seq(Messages) /\ Len(p) \in Nat /\ Len(c) \in Nat /\ Len(q) = Len(p) + Len(c)
        /\ \A i \in 1 .. Len(q) :
             \/ i \in 1 .. Len(p) /\ q[i] = p[i]
             \/ i - Len(p) \in 1 .. Len(c) /\ q[i] = c[i - Len(p)]
    <3>1. p \in Seq(Messages)
      BY <1>0, <2>2, <2>3, TypeFacts
    <3> QED BY <2>1, <2>3, <2>4, <3>1, ConcatFacts
  <2>6. ASSUME NEW i \in 1 .. Len(p), NEW j \in 1 .. Len(c), p[i].from = c[j].from
        PROVE  p[i].n < c[j].n
    <3>1. PICK a \in 1 .. Len(saved) : saved[a] = p[i]
      BY <2>2, <2>3, SentFacts
    <3>2. PICK b \in 1 .. Len(saved) : saved[b] = c[j]
      <4>1. c[j] \in ToSet(saved) /\ saved \in Seq(Messages)
        BY <1>0, <2>1, TypeFacts
      <4> QED BY <4>1, ToSetFacts
    <3>3. saved[a].time <= row[u].logout /\ saved[b].time > row[u].logout
      BY <1>0, <2>1, <2>2, <2>3, <3>1, <3>2 DEF LoggedOutAfter
    <3>4. saved[a].time \in Nat /\ saved[b].time \in Nat /\ row[u].logout \in Nat
      BY <1>0, <2>2, TypeFacts
    <3>5. a < b
      <4>1. saved[a].time < saved[b].time
        BY <3>3, <3>4
      <4>2. b < a => saved[b].time <= saved[a].time
        BY <1>0 DEF InOrder
      <4> QED BY <3>4, <4>1, <4>2
    <3> QED BY <1>0, <2>6, <3>1, <3>2, <3>5 DEF InOrder
  <2>7. SentInOrder(p)
    BY <1>01, <2>2, <2>3
  <2>8. ASSUME NEW i \in 1 .. Len(q), NEW j \in 1 .. Len(q), i < j,
               q[i].from = q[j].from, q[i].to = q[j].to
        PROVE  q[i].n < q[j].n
    <3>1. CASE i \in 1 .. Len(p) /\ q[i] = p[i]
      <4>1. CASE j \in 1 .. Len(p) /\ q[j] = p[j]
        BY <2>7, <2>8, <3>1, <4>1 DEF SentInOrder
      <4>2. CASE j - Len(p) \in 1 .. Len(c) /\ q[j] = c[j - Len(p)]
        BY <2>6, <2>8, <3>1, <4>2
      <4> QED BY <2>5, <4>1, <4>2
    <3>2. CASE i - Len(p) \in 1 .. Len(c) /\ q[i] = c[i - Len(p)]
      <4>1. j - Len(p) \in 1 .. Len(c) /\ q[j] = c[j - Len(p)] /\ i - Len(p) < j - Len(p)
        BY <2>5, <2>8, <3>2
      <4> QED BY <2>1, <2>8, <3>2, <4>1
    <3> QED BY <2>5, <3>1, <3>2
  <2>9. ASSUME NEW i \in earlier + 1 .. Len(saved), saved[i].from = u, NEW k \in 1 .. Len(q)
        PROVE  q[k] # saved[i]
    <3>1. CASE k \in 1 .. Len(p) /\ q[k] = p[k]
      BY <1>01, <2>2, <2>3, <2>9, <3>1 DEF NotBackTo
    <3>2. CASE k - Len(p) \in 1 .. Len(c) /\ q[k] = c[k - Len(p)]
      <4>1. server.state[u] = "offline" /\ q[k].time > row[u].logout
        BY <2>1, <3>2
      <4>2. saved[i].time <= row[u].logout
        BY <1>0, <2>2, <2>9, <4>1 DEF LoggedOutAfter
      <4>3. saved[i].time \in Nat /\ row[u].logout \in Nat
        <5>1. i \in 1 .. Len(saved)
          BY <1>0, TypeFacts
        <5> QED BY <1>0, <2>2, <5>1, TypeFacts
      <4> QED BY <4>1, <4>2, <4>3
    <3> QED BY <2>5, <3>1, <3>2
  <2>10. SentInOrder(q) /\ NotBackTo(u, q)
    BY <2>8, <2>9 DEF SentInOrder, NotBackTo
  <2>11. ASSUME NEW v \in Users PROVE SentInOrder(sent'[v]) /\ NotBackTo(v, sent[v])'
    <3>1. CASE v = u
      BY <2>2, <2>4, <2>10, <3>1 DEF NotBackTo
    <3>2. CASE v # u
      BY <1>01, <2>2, <3>2 DEF NotBackTo
    <3> QED BY <3>1, <3>2
  <2> QED BY <1>02, <2>11
<1>2. ASSUME NEW s \in Sockets, HandleMessage(s), Current(s) PROVE OnceInOrder'
  <2>0. PICK m \in Messages : Saves(s, m)
    BY <1>2, SavedMessage
  <2>1. /\ m.from = Owner[s] /\ m.time = clock
        /\ server.state[m.from] # "offline"
        /\ \A k \in 1 .. Len(saved) : saved[k].from = m.from => saved[k].n < m.n
        /\ Len(saved') = Len(saved) + 1 /\ saved'[Len(saved) + 1] = m
        /\ \A k \in 1 .. Len(saved) : saved'[k] = saved[k]
        /\ \A u \in Users :
             /\ sent'[u] = IF u \in Online(m) THEN Append(sent[u], m) ELSE sent[u]
             /\ due'[u] = IF /\ u \in Receivers(m) \ {m.from}
                             /\ server.state[u] = "offline" /\ clock > row[u].logout
                          THEN due[u] \cup {m} ELSE due[u]
    BY <2>0 DEF Saves
  <2>2. UNCHANGED earlier /\ Len(saved) \in Nat /\ earlier \in Nat /\ m.n \in Nat
    <3>1. m.n \in Nat
      BY DEF Messages
    <3> QED BY <1>0, <1>2, <3>1, MessageEffect, TypeFacts
  <2>3. ASSUME NEW u \in Users, NEW i \in 1 .. Len(sent[u]), sent[u][i].from = m.from
        PROVE  sent[u][i].n < m.n
    <3>1. PICK k \in 1 .. Len(saved) : saved[k] = sent[u][i]
      BY <2>3, SentFacts
    <3> QED BY <2>1, <2>3, <3>1
  <2>4. ASSUME NEW u \in Users PROVE SentInOrder(sent'[u]) /\ NotBackTo(u, sent[u])'
    <3>1. PICK p : p = sent[u]
      OBVIOUS
    <3>2. PICK q : q = sent'[u]
      OBVIOUS
    <3>3. p \in Seq(Messages) /\ Len(p) \in Nat
      BY <1>0, <3>1, TypeFacts
    <3>4. ASSUME NEW i \in earlier + 1 .. Len(saved'), saved'[i].from = u, NEW k \in 1 .. Len(p)
          PROVE  p[k] # saved'[i]
      <4>1. CASE i = Len(saved) + 1
        <5>1. p[k] = m => p[k].n < m.n
          BY <2>3, <3>1
        <5> QED BY <2>1, <2>2, <4>1, <5>1
      <4>2. CASE i \in earlier + 1 .. Len(saved)
        <5>1. saved'[i] = saved[i]
          BY <2>1, <2>2, <4>2
        <5> QED BY <1>01, <3>1, <3>4, <4>2, <5>1 DEF NotBackTo
      <4> QED BY <2>1, <2>2, <4>1, <4>2
    <3>5. CASE u \notin Online(m)
      <4>1. q = p
        BY <2>1, <3>1, <3>2, <3>5
      <4> QED BY <1>01, <2>2, <3>1, <3>2, <3>4, <4>1 DEF NotBackTo
    <3>6. CASE u \in Online(m)
      <4>1. q = Append(p, m) /\ m.from # u
        BY <2>1, <3>1, <3>2, <3>6 DEF Online
      <4>2. /\ Len(q) = Len(p) + 1 /\ q[Len(p) + 1] = m
            /\ \A i \in 1 .. Len(p) : q[i] = p[i]
        BY <3>3, <4>1, AppendFacts
      <4>3. ASSUME NEW i \in 1 .. Len(q), NEW j \in 1 .. Len(q), i < j,
                   q[i].from = q[j].from, q[i].to = q[j].to
            PROVE  q[i].n < q[j].n
        <5>1. i \in 1 .. Len(p) /\ q[i] = p[i]
          BY <3>3, <4>2, <4>3
        <5>2. CASE j = Len(p) + 1
          BY <2>3, <3>1, <4>2, <4>3, <5>1, <5>2
        <5>3. CASE j \in 1 .. Len(p)
          BY <1>01, <3>1, <4>2, <4>3, <5>1, <5>3 DEF SentInOrder
        <5> QED BY <3>3, <4>2, <5>2, <5>3
      <4>4. ASSUME NEW i \in earlier + 1 .. Len(saved'), saved'[i].from = u, NEW k \in 1 .. Len(q)
            PROVE  q[k] # saved'[i]
        <5>1. CASE k = Len(p) + 1
          BY <4>1, <4>2, <4>4, <5>1
        <5>2. CASE k \in 1 .. Len(p)
          BY <3>4, <4>2, <4>4, <5>2
        <5> QED BY <3>3, <4>2, <5>1, <5>2
      <4> QED BY <2>2, <3>2, <4>3, <4>4 DEF SentInOrder, NotBackTo
    <3> QED BY <3>5, <3>6
  <2> QED BY <1>02, <2>4
<1>3. ASSUME NEW s \in Sockets, HandleMessage(s), ~Current(s) PROVE OnceInOrder'
  BY <1>0, <1>03, <1>3, MessageEffect
<1>4. ASSUME NEW s \in Sockets, HandleState(s) \/ HandleDisconnected(s) PROVE OnceInOrder'
  BY <1>03, <1>4, StateChanged
<1>5. ASSUME ServerRestart PROVE OnceInOrder'
  <2>1. /\ UNCHANGED saved /\ earlier' = Len(saved) /\ Len(<<>>) = 0
        /\ \A u \in Users : sent'[u] = <<>>
    BY <1>0, <1>5, RestartEffect
  <2>2. earlier' + 1 .. Len(saved') = {}
    BY <1>0, <2>1, TypeFacts
  <2> QED BY <2>1, <2>2 DEF OnceInOrder
<1>6. ASSUME \/ \E s \in Sockets :
                  SignIn(s) \/ SendMessage(s) \/ ChangeState(s) \/ Quit(s) \/ ConnectionLost(s)
             \/ Tick
             \/ UNCHANGED vars
      PROVE  OnceInOrder'
  BY <1>03, <1>6, ServerKept
<1> QED BY <1>1, <1>2, <1>3, <1>4, <1>5, <1>6 DEF Next, Handle

-----------------------------------------------------------------------------
(* The theorems                                                            *)

LEMMA InitIInv ==
  ASSUME IMMessagesAssumption, Init
  PROVE  IInv
<1>1. /\ clock = 1 /\ saved = <<>> /\ earlier = 0 /\ written = 0 /\ server = ServerInit
      /\ Len(<<>>) = 0
      /\ link = [s \in Sockets |-> "unused"] /\ toServer = [s \in Sockets |-> <<>>]
      /\ session = [s \in Sockets |-> "none"] /\ row = [u \in Users |-> NeverLoggedIn]
      /\ sent = [u \in Users |-> <<>>] /\ due = [u \in Users |-> {}]
  BY DEF Init
<1>2. /\ 0 \in 0 .. MaxTime /\ 1 \in 1 .. MaxTime /\ 0 \in 0 .. MaxMessages
  BY DEF IMMessagesAssumption
<1>3. /\ server.state = [u \in Users |-> "offline"] /\ server.sock = [u \in Users |-> NoSocket]
      /\ server.login = [u \in Users |-> 0] /\ server.watched = {}
      /\ server \in ServerStates
  BY <1>1, <1>2 DEF ServerInit, ServerStates
<1>4. row \in Rows /\ \A u \in Users : row[u].login = 0 /\ row[u].logout = 0
  BY <1>1, <1>2 DEF Rows, NeverLoggedIn
<1>5. Types
  BY <1>1, <1>2, <1>3, <1>4 DEF Types
<1>6. \A s \in Sockets : toServer[s] = <<>> /\ session[s] = "none" /\ ~Current(s)
  BY <1>1, <1>3 DEF Current, IMMessagesAssumption
<1>7. Connections
  BY <1>1, <1>6 DEF Connections, Connection
<1>8. Logins
  BY <1>1, <1>3, <1>4 DEF Logins
<1>9. InOrder
  BY <1>1 DEF InOrder
<1>10. ToCome /\ SeenWhenWriting
  BY <1>6 DEF ToCome, SeenWhenWriting
<1>11. LoggedOutAfter /\ Kept /\ OfflineMessagesWait /\ OnceInOrder
  BY <1>1 DEF LoggedOutAfter, Kept, OfflineMessagesWait, OnceInOrder
<1> QED BY <1>5, <1>7, <1>8, <1>9, <1>10, <1>11 DEF IInv

LEMMA NextIInv ==
  ASSUME IMMessagesAssumption, IInv, [Next]_vars
  PROVE  IInv'
BY TypesStep, ConnectionsStep, LoginsStep, InOrderStep, ToComeStep, SeenWhenWritingStep,
   LoggedOutAfterStep, KeptStep, OfflineMessagesWaitStep, OnceInOrderStep DEF IInv

\* The invariant that the others follow from: the order of what is on its way, in the database
\* and sent, and what the rows of the login history say of those who are offline.
THEOREM Invariance ==
  ASSUME IMMessagesAssumption
  PROVE  Spec => []IInv
<1>1. Init => IInv
  BY InitIInv
<1>2. IInv /\ [Next]_vars => IInv'
  BY NextIInv
<1> QED BY <1>1, <1>2, PTL DEF Spec

\* The server's users, the rows and the messages are of their types: only a user who is not
\* offline is looked up by a socket (peerDisconnected()), and all that is sent was saved.
THEOREM TypesCorrect ==
  ASSUME IMMessagesAssumption
  PROVE  Spec => []TypeOK
<1>1. ASSUME IInv PROVE TypeOK
  <2>0. Types
    BY <1>1 DEF IInv
  <2>1. /\ server.state \in [Users -> {"online", "invisible", "offline"}]
        /\ server.sock \in [Users -> Sockets \cup {NoSocket}]
        /\ server.login \in [Users -> 0 .. MaxTime] /\ server.watched \subseteq Sockets
        /\ row \in [Users -> [login : 0 .. MaxTime, logout : 0 .. MaxTime]]
    BY <2>0 DEF Types, ServerStates, Rows
  <2>2. \A s \in server.watched : server.state[Owner[s]] # "offline"
    BY <1>1 DEF IInv, Logins
  <2>3. \A i \in 1 .. Len(saved) : saved[i] \in Messages
    BY <2>0 DEF Types
  <2>4. ASSUME NEW u \in Users
        PROVE  ToSet(sent[u]) \subseteq ToSet(saved) /\ due[u] \subseteq ToSet(saved)
    <3>1. sent[u] \in Seq(Messages)
      BY <2>0 DEF Types
    <3>2. \A x \in ToSet(sent[u]) : \E i \in 1 .. Len(sent[u]) : sent[u][i] = x
      BY <3>1, ToSetFacts
    <3> QED BY <1>1, <3>2 DEF IInv, Kept
  <2> QED BY <2>0, <2>1, <2>2, <2>3, <2>4 DEF TypeOK, Types
<1> QED BY <1>1, Invariance, PTL

\* What came for a user who was offline is still to be sent, and will be by the next login:
\* its second is after the logout that the login reads (getUserLastLogoutTime() and the
\* queries of the cached messages).
THEOREM NothingForgotten ==
  ASSUME IMMessagesAssumption
  PROVE  Spec => []OfflineMessagesWait
<1>1. IInv => OfflineMessagesWait
  BY DEF IInv
<1> QED BY <1>1, Invariance, PTL

\* The messages of a conversation come once and in the order they were written in, over any
\* number of logins, and none comes back to the user who wrote it.
THEOREM SentOnceInOrder ==
  ASSUME IMMessagesAssumption
  PROVE  Spec => []OnceInOrder
<1>1. IInv => OnceInOrder
  BY DEF IInv
<1> QED BY <1>1, Invariance, PTL
=============================================================================
