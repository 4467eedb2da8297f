------------------------------ MODULE MSSession ------------------------------
(***************************************************************************)
(* How client services find a server, and how it keeps track of them.      *)
(*                                                                         *)
(* A server declares itself with UDP packets: two when it starts and every *)
(* fifteen minutes, and one to whoever looks for it.  A client that gets   *)
(* one leaves the server it has, unless it is that run of it already, and  *)
(* connects.  While connectToHost() waits, it processes events: more       *)
(* declarations are handled meanwhile, each in a call within the first,    *)
(* and the outermost call has the last word.  A client that loses          *)
(* its server looks for one with a timer, which a connection stops.        *)
(*                                                                         *)
(* The connections are UDT's.  toServer[s] holds what is on its way to the *)
(* server's handlers, the last of which may be "lost".  Servers and        *)
(* clients may die and start again at any moment.                          *)
(***************************************************************************)
EXTENDS Naturals, Sequences, FiniteSets

CONSTANTS
  Clients,     \* client services
  Servers,
  Sockets,     \* names of connections; that of one that is over is given again
  MaxRuns,     \* bound on the runs of a server
  MaxCalls,    \* bound on the calls of serverFound() within one another
  MaxCopies,   \* bound on the copies of a declaration on their way
  NoClient,
  NoSocket     \* INVALID_SOCK_ID

Declarations == Servers \X (1 .. MaxRuns)

ASSUME MSSessionAssumption ==
  /\ MaxRuns \in Nat /\ MaxCalls \in Nat \ {0} /\ MaxCopies \in Nat \ {0}
  /\ NoClient \notin Clients /\ NoSocket \notin Sockets /\ Servers # {}

VARIABLES
  server,   \* server[v]: whether it runs, its instance, and whom it has recorded
  client,   \* client[c]: see Ended
  conn,     \* conn[s]: the connection named s
  toServer, \* toServer[s]: events on their way to the server's handlers
  lost,     \* sockets whose loss is on its way to its client
  lookups,  \* <<c, v>>: c's look-up on its way to v
  declares  \* declares[c][<<v, n>>]: copies of what v declared in its run n

vars == <<server, client, conn, toServer, lost, lookups, declares>>

-----------------------------------------------------------------------------
(* The network                                                             *)

Up(s) == conn[s].link = "up"

\* clientSocketsHash, of a server that has just started.
NoRecords == [s \in Sockets |-> NoClient]

\* What is left of what is on its way over a connection that ends.
Prefixes(q) == { SubSeq(q, 1, n) : n \in 0 .. Len(q) }

\* What a bug would make of Unused: the server may still have events of the last one.
UnusedByClients(s) ==
  /\ conn[s].link = "down" /\ s \notin lost
  /\ \A c \in Clients :
       /\ client[c].sock # s
       /\ \A i \in 1 .. Len(client[c].calls) : client[c].calls[i].sock # s

\* Nobody has anything to do with the socket any more.
Unused(s) ==
  /\ conn[s].link = "down" /\ toServer[s] = <<>> /\ s \notin lost
  /\ \A v \in Servers : server[v].records[s] = NoClient
  /\ \A c \in Clients :
       /\ client[c].sock # s
       /\ \A i \in 1 .. Len(client[c].calls) : client[c].calls[i].sock # s

\* The server answers a connection that is asked for, or it does not.
Connected(s) ==
  /\ conn[s].link = "connecting" /\ server[conn[s].at].runs
  /\ conn' = [conn EXCEPT ![s].link = "up"]
  /\ UNCHANGED <<server, client, toServer, lost, lookups, declares>>

NotConnected(s) ==
  /\ conn[s].link = "connecting"
  /\ conn' = [conn EXCEPT ![s].link = "down"]
  /\ UNCHANGED <<server, client, toServer, lost, lookups, declares>>

\* The connection breaks: both ends get some of what was on its way and are told.
Break(s) ==
  /\ Up(s)
  /\ conn' = [conn EXCEPT ![s].link = "down"]
  /\ \E q \in Prefixes(toServer[s]) : toServer' = [toServer EXCEPT ![s] = Append(q, "lost")]
  /\ lost' = lost \cup {s}
  /\ UNCHANGED <<server, client, lookups, declares>>

\* A UDP packet is lost.
LoseLookup(c, v) ==
  /\ <<c, v>> \in lookups
  /\ lookups' = lookups \ {<<c, v>>}
  /\ UNCHANGED <<server, client, conn, toServer, lost, declares>>

LoseDeclaration(c, d) ==
  /\ declares[c][d] > 0
  /\ declares' = [declares EXCEPT ![c][d] = @ - 1]
  /\ UNCHANGED <<server, client, conn, toServer, lost, lookups>>

-----------------------------------------------------------------------------
(* The server                                                              *)

Least(a, b) == IF a <= b THEN a ELSE b

\* n more copies of a declaration to the clients in set that run.
Declared(set, d, n) ==
  [c \in Clients |->
     IF c \in set /\ client[c].runs
     THEN [declares[c] EXCEPT ![d] = Least(@ + n, MaxCopies)]
     ELSE declares[c]]

\* sendServerOnlinePacket(): to the broadcast address and to the multicast group.
SendServerOnline(v) ==
  /\ server[v].runs
  /\ declares' = Declared(Clients, <<v, server[v].instance>>, 2)
  /\ UNCHANGED <<server, client, conn, toServer, lost, lookups>>

\* startMainService(), with an instance that was never used.
StartServer(v) ==
  /\ ~server[v].runs /\ server[v].instance < MaxRuns
  /\ server' = [server EXCEPT ![v].runs = TRUE, ![v].instance = @ + 1]
  /\ declares' = Declared(Clients, <<v, server'[v].instance>>, 2)
  /\ UNCHANGED <<client, conn, toServer, lost, lookups>>

\* stop(), or the process dies: what it knew of clients was in its memory.
EndServer(v) ==
  /\ server[v].runs
  /\ server' = [server EXCEPT ![v].runs = FALSE, ![v].records = NoRecords]
  /\ LET ended == { s \in Sockets : conn[s].at = v /\ Up(s) }
     IN  /\ conn' = [s \in Sockets |->
                       IF s \in ended THEN [conn[s] EXCEPT !.link = "down"] ELSE conn[s]]
         /\ lost' = lost \cup ended
  /\ toServer' = [s \in Sockets |-> IF conn[s].at = v THEN <<>> ELSE toServer[s]]
  /\ UNCHANGED <<client, lookups, declares>>

\* ClientLookForServer.
LookedUp(c, v) ==
  /\ <<c, v>> \in lookups /\ server[v].runs
  /\ lookups' = lookups \ {<<c, v>>}
  /\ declares' = Declared({c}, <<v, server[v].instance>>, 1)
  /\ UNCHANGED <<server, client, conn, toServer, lost>>

Arrived(s, e) == toServer[s] # <<>> /\ Head(toServer[s]) = e

\* Its handler: the server's records become r, and it closes the sockets in set.
Handled(s, r, set) ==
  /\ toServer' = [toServer EXCEPT ![s] = Tail(@)]
  /\ server' = [server EXCEPT ![conn[s].at].records = r]
  /\ conn' = [t \in Sockets |-> IF t \in set THEN [conn[t] EXCEPT !.link = "down"] ELSE conn[t]]
  /\ lost' = lost \cup { t \in set : Up(t) }
  /\ UNCHANGED <<client, lookups, declares>>

\* Other sockets by which the client is recorded.
Previous(s) ==
  { t \in Sockets \ {s} : server[conn[s].at].records[t] = conn[s].of }

\* What a bug would make of HandleOnline: the previous socket is closed, but stays recorded ...
HandleOnlineForgetting(s) ==
  /\ Arrived(s, "online")
  /\ LET r == server[conn[s].at].records
     IN  Handled(s, IF Up(s) THEN [r EXCEPT ![s] = conn[s].of] ELSE r, Previous(s))

\* ... or is preferred to the new one.
HandleOnlineOnce(s) ==
  /\ Arrived(s, "online")
  /\ LET r == server[conn[s].at].records
     IN  Handled(s, IF Up(s) /\ Previous(s) = {} THEN [r EXCEPT ![s] = conn[s].of] ELSE r, {})

\* processClientOnlineStatusChangedPacket(): the client's previous socket is closed.  A
\* socket that is not connected any more is ignored.
HandleOnline(s) ==
  /\ Arrived(s, "online")
  /\ LET r == server[conn[s].at].records
     IN  IF ~Up(s) THEN Handled(s, r, {})
         ELSE IF Previous(s) = {} THEN Handled(s, [r EXCEPT ![s] = conn[s].of], {})
         ELSE \E t \in Previous(s) :
                Handled(s, [r EXCEPT ![s] = conn[s].of, ![t] = NoClient], {t})

HandleOffline(s) ==
  /\ Arrived(s, "offline")
  /\ Handled(s, [server[conn[s].at].records EXCEPT ![s] = NoClient], {s})

\* peerDisconnected().
HandleLost(s) ==
  /\ Arrived(s, "lost")
  /\ Handled(s, [server[conn[s].at].records EXCEPT ![s] = NoClient], {})

Handle(s) == HandleOnline(s) \/ HandleOffline(s) \/ HandleLost(s)

-----------------------------------------------------------------------------
(* The clients                                                             *)

\* sock: m_socketConnectedToServer; known: m_serverInstanceID, which names a run of a
\* server; timer: lookForServerTimer is active; calls: the calls of serverFound() that wait
\* for their connection, the innermost last.  gaveUp is history: the last of them failed,
\* and the timer was not active.
Ended ==
  [runs |-> FALSE, sock |-> NoSocket, known |-> <<>>, timer |-> FALSE, calls |-> <<>>,
   gaveUp |-> FALSE]

OwnSockets(c) == { s \in Sockets : conn[s].of = c /\ conn[s].link \in {"connecting", "up"} }
Served(c) == client[c].sock # NoSocket /\ Up(client[c].sock)

\* startMainService().
StartClient(c) ==
  /\ ~client[c].runs
  /\ client' = [client EXCEPT ![c] = [Ended EXCEPT !.runs = TRUE, !.timer = TRUE]]
  /\ lookups' = lookups \cup ({c} \X Servers)
  /\ UNCHANGED <<server, conn, toServer, lost, declares>>

\* stop(), or the process dies.
EndClient(c) ==
  /\ client[c].runs
  /\ client' = [client EXCEPT ![c] = Ended]
  /\ \E says \in IF Served(c) /\ client[c].calls = <<>> THEN BOOLEAN ELSE {FALSE} :
       /\ conn' = [s \in Sockets |->
                     IF s \in OwnSockets(c) THEN [conn[s] EXCEPT !.link = "down"] ELSE conn[s]]
       /\ toServer' = [s \in Sockets |->
            IF s \in OwnSockets(c) /\ Up(s)
            THEN toServer[s] \o (IF says /\ s = client[c].sock THEN <<"offline">> ELSE <<>>)
                             \o <<"lost">>
            ELSE toServer[s]]
  /\ lost' = { s \in lost : conn[s].of # c }
  /\ lookups' = { l \in lookups : l[1] # c }
  /\ declares' = [declares EXCEPT ![c] = [d \in Declarations |-> 0]]
  /\ UNCHANGED server

\* checkHasAnyServerBeenFound().
CheckHasAnyServerBeenFound(c) ==
  /\ client[c].timer
  /\ IF Served(c)
     THEN client' = [client EXCEPT ![c].timer = FALSE] /\ UNCHANGED lookups
     ELSE lookups' = lookups \cup ({c} \X Servers) /\ UNCHANGED client
  /\ UNCHANGED <<server, conn, toServer, lost, declares>>

\* serverFound() up to connectToHost(), in which events are processed: the server that the
\* client has is left and forgotten.
ServerFound(c, d) ==
  /\ declares[c][d] > 0
  /\ declares' = [declares EXCEPT ![c][d] = @ - 1]
  /\ IF Served(c) /\ client[c].known = d
     THEN UNCHANGED <<client, conn, toServer>>
     ELSE /\ Len(client[c].calls) < MaxCalls
          /\ \E s \in Sockets :
               /\ Unused(s) /\ s = CHOOSE t \in Sockets : Unused(t)
               /\ client' = [client EXCEPT
                    ![c].calls = Append(@, [sock |-> s, declared |-> d]),
                    ![c].sock = NoSocket,
                    ![c].known = <<>>]
               /\ conn' = [t \in Sockets |->
                    IF t = s THEN [link |-> "connecting", of |-> c, at |-> d[1]]
                    ELSE IF t = client[c].sock THEN [conn[t] EXCEPT !.link = "down"]
                    ELSE conn[t]]
               /\ toServer' = [t \in Sockets |->
                    IF t = client[c].sock /\ Up(t) THEN Append(toServer[t], "lost")
                    ELSE toServer[t]]
  /\ UNCHANGED <<server, lost, lookups>>

\* The rest, when the innermost call has its connection ...
ServerConnected(c) ==
  LET me == client[c]
      call == me.calls[Len(me.calls)]
  IN  /\ me.calls # <<>> /\ Up(call.sock)
      /\ client' = [client EXCEPT
           ![c].calls = SubSeq(@, 1, Len(@) - 1),
           ![c].sock = call.sock,
           ![c].known = call.declared,
           ![c].timer = FALSE,
           ![c].gaveUp = FALSE]
      /\ toServer' = [toServer EXCEPT ![call.sock] = Append(@, "online")]
      /\ UNCHANGED <<server, conn, lost, lookups, declares>>

\* ... or has not got it, or could not send: whatever a call within had got is forgotten.
ServerNotConnected(c) ==
  LET me == client[c]
      call == me.calls[Len(me.calls)]
  IN  /\ me.calls # <<>> /\ conn[call.sock].link = "down"
      /\ client' = [client EXCEPT
           ![c].calls = SubSeq(@, 1, Len(@) - 1),
           ![c].sock = NoSocket,
           ![c].gaveUp = ~me.timer]
      /\ UNCHANGED <<server, conn, toServer, lost, lookups, declares>>

\* What a bug would make of PeerDisconnected: nobody looks for a server again.
PeerDisconnectedSilently(s) ==
  /\ s \in lost
  /\ lost' = lost \ {s}
  /\ LET c == conn[s].of
     IN  client' = IF client[c].sock = s
                    THEN [client EXCEPT ![c].sock = NoSocket, ![c].known = <<>>]
                    ELSE client
  /\ UNCHANGED <<server, conn, toServer, lookups, declares>>

\* peerDisconnected() of the client.
PeerDisconnected(s) ==
  /\ s \in lost
  /\ lost' = lost \ {s}
  /\ LET c == conn[s].of
     IN  client' = IF client[c].sock = s
                    THEN [client EXCEPT ![c].sock = NoSocket, ![c].known = <<>>,
                                         ![c].timer = TRUE]
                    ELSE client
  /\ UNCHANGED <<server, conn, toServer, lookups, declares>>

-----------------------------------------------------------------------------
Init ==
  /\ server = [v \in Servers |-> [runs |-> FALSE, instance |-> 0, records |-> NoRecords]]
  /\ client = [c \in Clients |-> Ended]
  /\ conn \in [Sockets -> [link : {"down"}, of : {NoClient}, at : {CHOOSE v \in Servers : TRUE}]]
  /\ toServer = [s \in Sockets |-> <<>>]
  /\ lost = {}
  /\ lookups = {}
  /\ declares = [c \in Clients |-> [d \in Declarations |-> 0]]

Next ==
  \/ \E s \in Sockets :
       Connected(s) \/ NotConnected(s) \/ Break(s) \/ Handle(s) \/ PeerDisconnected(s)
  \/ \E v \in Servers : SendServerOnline(v) \/ StartServer(v) \/ EndServer(v)
  \/ \E c \in Clients :
       \/ StartClient(c) \/ EndClient(c) \/ CheckHasAnyServerBeenFound(c)
       \/ ServerConnected(c) \/ ServerNotConnected(c)
       \/ \E v \in Servers : LookedUp(c, v) \/ LoseLookup(c, v)
       \/ \E d \in Declarations : ServerFound(c, d) \/ LoseDeclaration(c, d)

\* Event loops and timers go on; of packets that are sent and connections that are asked
\* for again and again some get through.  Nobody has to start or to declare itself.
Fairness ==
  /\ \A s \in Sockets :
       /\ WF_vars(Handle(s)) /\ WF_vars(PeerDisconnected(s))
       /\ WF_vars(Connected(s) \/ NotConnected(s))
  /\ \A c \in Clients :
       /\ WF_vars(CheckHasAnyServerBeenFound(c))
       /\ WF_vars(ServerConnected(c) \/ ServerNotConnected(c))
       /\ SF_vars(\E s \in Sockets : conn[s].of = c /\ Connected(s))
       /\ SF_vars(\E v \in Servers : LookedUp(c, v))
       /\ SF_vars(\E d \in Declarations : ServerFound(c, d))

Spec == Init /\ [][Next]_vars
FairSpec == Spec /\ Fairness

-----------------------------------------------------------------------------
(* Properties                                                              *)

\* What may be on its way to a server over a socket: a client says "online" once it has the
\* connection and "offline" before it ends, and the loss comes last.
Queues ==
  {<<>>, <<"online">>, <<"lost">>, <<"online", "lost">>, <<"offline", "lost">>,
   <<"online", "offline", "lost">>}

\* The state is what the members of the two programs allow, and no socket carries the events
\* of two connections.
TypeOK ==
  /\ \A v \in Servers :
       /\ server[v].runs \in BOOLEAN /\ server[v].instance \in 0 .. MaxRuns
       /\ server[v].records \in [Sockets -> Clients \cup {NoClient}]
  /\ \A c \in Clients :
       /\ client[c].sock \in Sockets \cup {NoSocket}
       /\ client[c].known \in Declarations \cup {<<>>}
       /\ Len(client[c].calls) <= MaxCalls
       /\ client[c].timer => client[c].runs
  /\ conn \in [Sockets -> [link : {"connecting", "up", "down"},
                           of : Clients \cup {NoClient}, at : Servers]]
  /\ \A s \in Sockets : toServer[s] \in Queues
  /\ lost \subseteq Sockets
  /\ lookups \subseteq Clients \X Servers
  /\ declares \in [Clients -> [Declarations -> 0 .. MaxCopies]]

\* A server goes on recording nobody who is gone, and a client once: a recorded connection
\* works or its loss is on its way, and a client that comes back over another one, which
\* may be handled before the loss of the first, takes its place.
RecordsAreTrue ==
  \A v \in Servers : \A s \in Sockets :
    server[v].records[s] # NoClient =>
      /\ conn[s].at = v /\ conn[s].of = server[v].records[s]
      /\ Up(s) \/ "lost" \in { toServer[s][i] : i \in DOMAIN toServer[s] }
      /\ Previous(s) = {}

\* A client that takes itself for connected is recorded by its server as long as the
\* connection works, or is about to be: in whatever order connections that it made within
\* one another, or one after the other, are recorded and closed.
ServedIsRecorded ==
  \A c \in Clients :
    Served(c) =>
      LET s == client[c].sock
      IN  server[conn[s].at].records[s] = c
          \/ \E i \in DOMAIN toServer[s] : toServer[s][i] = "online"

\* A client that runs finds a server that runs, however often the server has started again
\* and connections have broken, once they do no more; unless serverFound() fails when the
\* timer is stopped: only what a server declares unasked can help then.
FindsServer ==
  \A c \in Clients :
    /\ <>[](client[c].runs /\ \E v \in Servers : server[v].runs)
    /\ <>[][\A s \in Sockets : ~Break(s)]_vars
    => []<>(Served(c) \/ client[c].gaveUp)
=============================================================================
