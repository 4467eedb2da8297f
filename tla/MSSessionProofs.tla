-------------------------- MODULE MSSessionProofs ---------------------------
(***************************************************************************)
(* Theorems on MSSession, for any clients, servers, sockets and bounds.    *)
(***************************************************************************)
EXTENDS MSSession, SequenceTheorems, TLAPS

Events == {"online", "offline", "lost"}

\* The types of what the servers' records are about.
Types ==
  /\ server \in [Servers -> [runs : BOOLEAN, instance : Nat,
                             records : [Sockets -> Clients \cup {NoClient}]]]
  /\ conn \in [Sockets -> [link : {"connecting", "up", "down"},
                           of : Clients \cup {NoClient}, at : Servers]]
  /\ toServer \in [Sockets -> Seq(Events)]

\* The server of the socket is to hear of its loss.
IsLeaving(s) == \E i \in DOMAIN toServer[s] : toServer[s][i] = "lost"

\* A recorded socket is one of the server and of the client, and works or is to be lost.
Recorded ==
  \A v \in Servers : \A s \in Sockets :
    server[v].records[s] # NoClient =>
      /\ conn[s].at = v /\ conn[s].of = server[v].records[s]
      /\ Up(s) \/ IsLeaving(s)

\* A client is recorded once.
RecordedOnce ==
  \A v \in Servers : \A s, t \in Sockets :
    server[v].records[s] # NoClient /\ server[v].records[t] = server[v].records[s] => s = t

\* A connection that is asked for, and all that comes of it, is a client's.
Owned ==
  \A s \in Sockets : conn[s].of = NoClient => conn[s].link = "down" /\ toServer[s] = <<>>

Records == Types /\ Owned /\ Recorded /\ RecordedOnce

\* What the property states is what the records are.
LEMMA RecordsSuffice == Records => RecordsAreTrue
<1> SUFFICES ASSUME Records, NEW v \in Servers, NEW s \in Sockets,
                    server[v].records[s] # NoClient
             PROVE  /\ conn[s].at = v /\ conn[s].of = server[v].records[s]
                    /\ Up(s) \/ "lost" \in { toServer[s][i] : i \in DOMAIN toServer[s] }
                    /\ Previous(s) = {}
  BY DEF RecordsAreTrue
<1>1. conn[s].at = v /\ conn[s].of = server[v].records[s] /\ (Up(s) \/ IsLeaving(s))
  BY DEF Records, Recorded
<1>2. Up(s) \/ "lost" \in { toServer[s][i] : i \in DOMAIN toServer[s] }
  BY <1>1 DEF IsLeaving
<1>3. Previous(s) = {}
  BY <1>1 DEF Records, RecordedOnce, Previous
<1> QED BY <1>1, <1>2, <1>3

\* The records stay true as long as those of the servers, and whose the recorded sockets are,
\* stay what they are, and one that works does so or is to be lost.
LEMMA SameRecords ==
  ASSUME Records, Types', Owned',
         \A v \in Servers : server'[v].records = server[v].records,
         \A s \in Sockets :
           \/ \A v \in Servers : server[v].records[s] = NoClient
           \/ /\ conn'[s].at = conn[s].at /\ conn'[s].of = conn[s].of
              /\ Up(s) \/ IsLeaving(s) => Up(s)' \/ IsLeaving(s)'
  PROVE  Records'
<1>1. Recorded' BY DEF Records, Recorded
<1>2. RecordedOnce' BY DEF Records, RecordedOnce
<1> QED BY <1>1, <1>2 DEF Records

\* What is appended to a queue of events is in it, and nothing is lost of it.
LEMMA Appended ==
  ASSUME NEW q \in Seq(Events), NEW e \in Events
  PROVE  /\ Append(q, e) \in Seq(Events)
         /\ \E i \in DOMAIN Append(q, e) : Append(q, e)[i] = e
         /\ \A i \in DOMAIN q : i \in DOMAIN Append(q, e) /\ Append(q, e)[i] = q[i]
<1>1. /\ Append(q, e) \in Seq(Events) /\ Len(Append(q, e)) = Len(q) + 1
      /\ Append(q, e)[Len(q) + 1] = e /\ Len(q) \in Nat
      /\ \A i \in 1 .. Len(q) : Append(q, e)[i] = q[i]
  OBVIOUS
<1>2. DOMAIN Append(q, e) = 1 .. Len(q) + 1 /\ DOMAIN q = 1 .. Len(q)
  BY <1>1
<1>3. Len(q) + 1 \in DOMAIN Append(q, e)
  BY <1>1, <1>2
<1> QED BY <1>1, <1>2, <1>3

\* A socket whose loss the server is to hear of remains one, whatever comes after it.
LEMMA GoesOnLeaving ==
  ASSUME NEW s \in Sockets, toServer[s] \in Seq(Events), NEW e \in Events,
         toServer'[s] = Append(toServer[s], e)
  PROVE  /\ toServer'[s] \in Seq(Events)
         /\ IsLeaving(s) => IsLeaving(s)'
         /\ e = "lost" => IsLeaving(s)'
<1> DEFINE q == toServer[s]
           after == Append(toServer[s], e)
<1>1. /\ after \in Seq(Events)
      /\ \E i \in DOMAIN after : after[i] = e
      /\ \A i \in DOMAIN q : i \in DOMAIN after /\ after[i] = q[i]
  BY Appended
<1> HIDE DEF after
<1>2. toServer'[s] = after BY DEF after
<1> QED BY <1>1, <1>2 DEF IsLeaving

-----------------------------------------------------------------------------
(* Steps that record nobody                                                *)

\* UDP packets, timers and what a client remembers.
LEMMA Elsewhere ==
  ASSUME Records, UNCHANGED <<server, conn, toServer>>
  PROVE  Records'
<1>1. Types' /\ Owned' BY DEF Records, Types, Owned
<1>2. \A s \in Sockets : Up(s)' = Up(s) /\ IsLeaving(s)' = IsLeaving(s)
  BY DEF Up, IsLeaving
<1> QED BY <1>1, <1>2, SameRecords

LEMMA NetworkKeepsRecords ==
  ASSUME Records, NEW s \in Sockets, Connected(s) \/ NotConnected(s) \/ Break(s)
  PROVE  Records'
<1> USE DEF Records, Types
<1>1. CASE Connected(s) \/ NotConnected(s)
  <2>1. UNCHANGED <<server, toServer>> /\ ~Up(s)
    BY <1>1 DEF Connected, NotConnected, Up
  <2>2. PICK now \in {"up", "down"} : conn' = [conn EXCEPT ![s].link = now]
    BY <1>1 DEF Connected, NotConnected
  <2>3. Types' BY <2>1, <2>2
  <2>6. Owned' BY <1>1, <2>1, <2>2 DEF Owned, Connected, NotConnected
  <2>4. \A t \in Sockets :
          /\ conn'[t].at = conn[t].at /\ conn'[t].of = conn[t].of
          /\ Up(t) => Up(t)'
    BY <2>1, <2>2 DEF Up
  <2>5. \A t \in Sockets : IsLeaving(t)' = IsLeaving(t)
    BY <2>1 DEF IsLeaving
  <2> QED BY <2>1, <2>3, <2>4, <2>5, <2>6, SameRecords
<1>2. CASE Break(s)
  <2>1. UNCHANGED server /\ conn' = [conn EXCEPT ![s].link = "down"]
    BY <1>2 DEF Break
  <2>2. PICK n \in 0 .. Len(toServer[s]) :
          toServer' = [toServer EXCEPT ![s] = Append(SubSeq(toServer[s], 1, n), "lost")]
    BY <1>2 DEF Break, Prefixes
  <2>3. SubSeq(toServer[s], 1, n) \in Seq(Events)
    <3>1. toServer[s] \in Seq(Events) /\ n \in Nat /\ n <= Len(toServer[s])
      OBVIOUS
    <3> QED BY <3>1
  <2>4. PICK left \in Seq(Events) :
          /\ toServer' = [toServer EXCEPT ![s] = left]
          /\ \E i \in DOMAIN left : left[i] = "lost"
    BY <2>2, <2>3, Appended DEF Events
  <2>5. Types' BY <2>1, <2>4
  <2>6. \A t \in Sockets :
          conn'[t].at = conn[t].at /\ conn'[t].of = conn[t].of
    BY <2>1
  <2>7. IsLeaving(s)' BY <2>4 DEF IsLeaving
  <2>8. ASSUME NEW t \in Sockets, t # s
        PROVE  Up(t)' = Up(t) /\ IsLeaving(t)' = IsLeaving(t)
    BY <2>1, <2>4, <2>8 DEF Up, IsLeaving
  <2>9. Owned' BY <1>2, <2>1, <2>4 DEF Owned, Break, Up
  <2> QED BY <2>1, <2>5, <2>6, <2>7, <2>8, <2>9, SameRecords
<1> QED BY <1>1, <1>2

\* A server that starts has no records, and one that ends none any more.
LEMMA ServerKeepsRecords ==
  ASSUME Records, NEW v \in Servers, StartServer(v) \/ EndServer(v)
  PROVE  Records'
<1> USE DEF Records, Types
<1>1. CASE StartServer(v)
  <2>1. /\ UNCHANGED <<conn, toServer>>
        /\ server' = [server EXCEPT ![v].runs = TRUE, ![v].instance = @ + 1]
    BY <1>1 DEF StartServer
  <2>2. server[v].instance + 1 \in Nat
    OBVIOUS
  <2>3. PICK n \in Nat : server' = [server EXCEPT ![v].runs = TRUE, ![v].instance = n]
    BY <2>1, <2>2
  <2>4. Types' /\ \A w \in Servers : server'[w].records = server[w].records
    BY <2>1, <2>3
  <2>5. \A s \in Sockets : Up(s)' = Up(s) /\ IsLeaving(s)' = IsLeaving(s)
    BY <2>1 DEF Up, IsLeaving
  <2>6. Owned' BY <2>1 DEF Owned
  <2> QED BY <2>1, <2>4, <2>5, <2>6, SameRecords
<1>2. CASE EndServer(v)
  <2> DEFINE ended == { s \in Sockets : conn[s].at = v /\ Up(s) }
  <2>1. /\ server' = [server EXCEPT ![v].runs = FALSE, ![v].records = NoRecords]
        /\ conn' = [s \in Sockets |->
             IF s \in ended THEN [conn[s] EXCEPT !.link = "down"] ELSE conn[s]]
        /\ toServer' = [s \in Sockets |-> IF conn[s].at = v THEN <<>> ELSE toServer[s]]
    BY <1>2 DEF EndServer
  <2>2. NoRecords \in [Sockets -> Clients \cup {NoClient}]
    BY DEF NoRecords
  <2>3. Types'
    <3>1. server' \in [Servers -> [runs : BOOLEAN, instance : Nat,
                                   records : [Sockets -> Clients \cup {NoClient}]]]
      BY <2>1, <2>2
    <3>2. conn' \in [Sockets -> [link : {"connecting", "up", "down"},
                                 of : Clients \cup {NoClient}, at : Servers]]
      BY <2>1
    <3>3. toServer' \in [Sockets -> Seq(Events)]
      BY <2>1
    <3> QED BY <3>1, <3>2, <3>3
  <2>4. /\ \A s \in Sockets : server'[v].records[s] = NoClient
        /\ \A w \in Servers \ {v} : server'[w].records = server[w].records
    BY <2>1 DEF NoRecords
  <2>5. \A s \in Sockets : conn[s].at # v =>
          conn'[s] = conn[s] /\ toServer'[s] = toServer[s]
    BY <2>1
  <2>6. Recorded'
    <3> SUFFICES ASSUME NEW w \in Servers, NEW s \in Sockets,
                        server'[w].records[s] # NoClient
                 PROVE  /\ conn'[s].at = w /\ conn'[s].of = server'[w].records[s]
                        /\ Up(s)' \/ IsLeaving(s)'
      BY DEF Recorded
    <3>1. w # v /\ server[w].records[s] = server'[w].records[s]
      BY <2>4
    <3>2. conn[s].at = w /\ conn[s].of = server[w].records[s] /\ (Up(s) \/ IsLeaving(s))
      BY <3>1 DEF Recorded
    <3> QED BY <2>5, <3>1, <3>2 DEF Up, IsLeaving
  <2>7. RecordedOnce'
    <3> SUFFICES ASSUME NEW w \in Servers, NEW s \in Sockets, NEW t \in Sockets,
                        server'[w].records[s] # NoClient,
                        server'[w].records[t] = server'[w].records[s]
                 PROVE  s = t
      BY DEF RecordedOnce
    <3>1. w # v BY <2>4
    <3> QED BY <2>4, <3>1 DEF RecordedOnce
  <2>8. Owned' BY <2>1 DEF Owned
  <2> QED BY <2>3, <2>6, <2>7, <2>8
<1> QED BY <1>1, <1>2

\* A client that leaves a socket, or sends over one that works.
LEMMA ClientKeepsRecords ==
  ASSUME Records, NEW c \in Clients,
         \/ EndClient(c) \/ ServerConnected(c)
         \/ \E d \in Declarations : ServerFound(c, d)
  PROVE  Records'
<1> USE DEF Records, Types
<1>1. CASE EndClient(c)
  <2>1. PICK says \in BOOLEAN :
          /\ conn' = [s \in Sockets |->
               IF s \in OwnSockets(c) THEN [conn[s] EXCEPT !.link = "down"] ELSE conn[s]]
          /\ toServer' = [s \in Sockets |->
               IF s \in OwnSockets(c) /\ Up(s)
               THEN toServer[s] \o (IF says /\ s = client[c].sock THEN <<"offline">> ELSE <<>>)
                                \o <<"lost">>
               ELSE toServer[s]]
    BY <1>1 DEF EndClient
  <2>2. UNCHANGED server
    BY <1>1 DEF EndClient
  <2>3. ASSUME NEW q \in Seq(Events), NEW more \in Seq(Events)
        PROVE  /\ q \o more \o <<"lost">> \in Seq(Events)
               /\ \E i \in DOMAIN (q \o more \o <<"lost">>) :
                    (q \o more \o <<"lost">>)[i] = "lost"
    <3>1. q \o more \in Seq(Events) /\ "lost" \in Events
      BY DEF Events
    <3>2. q \o more \o <<"lost">> = Append(q \o more, "lost")
      BY <3>1
    <3>3. /\ Append(q \o more, "lost") \in Seq(Events)
          /\ \E i \in DOMAIN Append(q \o more, "lost") : Append(q \o more, "lost")[i] = "lost"
      BY <3>1, Appended
    <3> QED BY <3>2, <3>3
  <2>4. \A s \in Sockets :
          (IF says /\ s = client[c].sock THEN <<"offline">> ELSE <<>>) \in Seq(Events)
    <3>1. "offline" \in Events BY DEF Events
    <3>2. <<"offline">> \in Seq(Events) BY <3>1
    <3> QED BY <3>2
  <2>5. toServer' \in [Sockets -> Seq(Events)]
    BY <2>1, <2>3, <2>4
  <2>6. conn' \in [Sockets -> [link : {"connecting", "up", "down"},
                               of : Clients \cup {NoClient}, at : Servers]]
    BY <2>1
  <2>7. ASSUME NEW s \in Sockets, s \in OwnSockets(c), Up(s)
        PROVE  IsLeaving(s)'
    <3>1. PICK more \in Seq(Events) : toServer'[s] = toServer[s] \o more \o <<"lost">>
      BY <2>1, <2>4, <2>7
    <3>2. \E i \in DOMAIN (toServer[s] \o more \o <<"lost">>) :
            (toServer[s] \o more \o <<"lost">>)[i] = "lost"
      BY <2>3
    <3> QED BY <3>1, <3>2 DEF IsLeaving
  <2>8. ASSUME NEW s \in Sockets, ~(s \in OwnSockets(c) /\ Up(s))
        PROVE  (Up(s) => Up(s)') /\ toServer'[s] = toServer[s]
    BY <2>1, <2>8 DEF Up
  <2>9. \A s \in Sockets : conn'[s].at = conn[s].at /\ conn'[s].of = conn[s].of
    BY <2>1
  <2>10. Owned'
    BY <2>1, <2>8, <2>9, MSSessionAssumption DEF Owned, OwnSockets
  <2> QED BY <2>2, <2>5, <2>6, <2>7, <2>8, <2>9, <2>10, SameRecords DEF IsLeaving
<1>2. CASE ServerConnected(c)
  <2> DEFINE sock == client[c].calls[Len(client[c].calls)].sock
  <2>1. /\ UNCHANGED <<server, conn>> /\ Up(sock)
        /\ toServer' = [toServer EXCEPT ![sock] = Append(@, "online")]
    BY <1>2 DEF ServerConnected
  <2> HIDE DEF sock
  <2>2. \A s \in Sockets :
          toServer'[s] = IF s = sock THEN Append(toServer[s], "online") ELSE toServer[s]
    BY <2>1
  <2>3. \A s \in Sockets : toServer'[s] \in Seq(Events) /\ (IsLeaving(s) => IsLeaving(s)')
    <3> SUFFICES ASSUME NEW s \in Sockets
                 PROVE  toServer'[s] \in Seq(Events) /\ (IsLeaving(s) => IsLeaving(s)')
      OBVIOUS
    <3>1. CASE s = sock BY <2>2, <3>1, GoesOnLeaving DEF Events
    <3>2. CASE s # sock BY <2>2, <3>2 DEF IsLeaving
    <3> QED BY <3>1, <3>2
  <2>4. DOMAIN toServer' = Sockets /\ toServer' = [s \in Sockets |-> toServer'[s]]
    BY <2>1
  <2>5. Types' BY <2>1, <2>3, <2>4
  <2>6. Owned' BY <2>1, <2>2 DEF Owned, Up
  <2> QED BY <2>1, <2>3, <2>5, <2>6, SameRecords DEF Up
<1>3. ASSUME NEW d \in Declarations, ServerFound(c, d) PROVE Records'
  <2>1. UNCHANGED server
    BY <1>3 DEF ServerFound
  <2>2. CASE UNCHANGED <<client, conn, toServer>>
    BY <2>1, <2>2, Elsewhere
  <2>3. ASSUME NEW s \in Sockets, Unused(s),
               conn' = [t \in Sockets |->
                    IF t = s THEN [link |-> "connecting", of |-> c, at |-> d[1]]
                    ELSE IF t = client[c].sock THEN [conn[t] EXCEPT !.link = "down"]
                    ELSE conn[t]],
               toServer' = [t \in Sockets |->
                    IF t = client[c].sock /\ Up(t) THEN Append(toServer[t], "lost")
                    ELSE toServer[t]]
        PROVE  Records'
    <3>1. d[1] \in Servers BY DEF Declarations
    <3>2. conn' \in [Sockets -> [link : {"connecting", "up", "down"},
                                 of : Clients \cup {NoClient}, at : Servers]]
      BY <2>3, <3>1
    <3>3. \A t \in Sockets :
            /\ toServer'[t] \in Seq(Events) /\ (IsLeaving(t) => IsLeaving(t)')
            /\ t = client[c].sock /\ Up(t) => IsLeaving(t)'
      <4> SUFFICES ASSUME NEW t \in Sockets
                   PROVE  /\ toServer'[t] \in Seq(Events) /\ (IsLeaving(t) => IsLeaving(t)')
                          /\ t = client[c].sock /\ Up(t) => IsLeaving(t)'
        OBVIOUS
      <4>1. CASE t = client[c].sock /\ Up(t)
        <5>1. toServer'[t] = Append(toServer[t], "lost") BY <2>3, <4>1
        <5> QED BY <5>1, GoesOnLeaving DEF Events
      <4>2. CASE ~(t = client[c].sock /\ Up(t))
        <5>1. toServer'[t] = toServer[t] BY <2>3, <4>2
        <5> QED BY <4>2, <5>1 DEF IsLeaving
      <4> QED BY <4>1, <4>2
    <3>4. toServer' \in [Sockets -> Seq(Events)]
      BY <2>3, <3>3
    <3>5. \A v \in Servers : server[v].records[s] = NoClient
      BY <2>3 DEF Unused
    <3>6. \A t \in Sockets \ {s} :
            /\ conn'[t].at = conn[t].at /\ conn'[t].of = conn[t].of
            /\ Up(t) => Up(t)' \/ t = client[c].sock
      BY <2>3 DEF Up
    <3>7. Owned'
      <4> SUFFICES ASSUME NEW t \in Sockets, conn'[t].of = NoClient
                   PROVE  conn'[t].link = "down" /\ toServer'[t] = <<>>
        BY DEF Owned
      <4>1. t # s BY <2>3, MSSessionAssumption
      <4> QED BY <2>3, <4>1 DEF Owned, Up
    <3> QED BY <2>1, <3>2, <3>3, <3>4, <3>5, <3>6, <3>7, SameRecords
  <2> QED BY <1>3, <2>2, <2>3 DEF ServerFound
<1> QED BY <1>1, <1>2, <1>3

-----------------------------------------------------------------------------
(* The server's handlers                                                   *)

\* Unless it is the loss itself that is handled, it remains to be handled.
LEMMA StaysLeaving ==
  ASSUME NEW s \in Sockets, toServer[s] \in Seq(Events), toServer[s] # <<>>,
         Head(toServer[s]) # "lost", toServer'[s] = Tail(toServer[s]), IsLeaving(s)
  PROVE  IsLeaving(s)'
<1>1. PICK i \in DOMAIN toServer[s] : toServer[s][i] = "lost"
  BY DEF IsLeaving
<1>2. /\ Len(toServer[s]) \in Nat /\ i \in 1 .. Len(toServer[s]) /\ i # 1
      /\ Len(Tail(toServer[s])) = Len(toServer[s]) - 1
  BY <1>1
<1>3. i - 1 \in 1 .. Len(Tail(toServer[s])) /\ Tail(toServer[s])[i - 1] = "lost"
  BY <1>1, <1>2
<1>4. Tail(toServer[s]) \in Seq(Events)
  OBVIOUS
<1> QED BY <1>3, <1>4 DEF IsLeaving

\* A handler leaves true records if it keeps no others than there were, and the one that it
\* handles, closes none that it keeps, and takes a client only once.
LEMMA HandledRecords ==
  ASSUME Records, NEW s \in Sockets, toServer[s] # <<>>,
         NEW r \in [Sockets -> Clients \cup {NoClient}], NEW set \in SUBSET Sockets,
         Handled(s, r, set),
         \A t \in Sockets : r[t] # NoClient =>
           \/ t = s /\ Up(s) /\ r[s] = conn[s].of /\ s \notin set
           \/ /\ r[t] = server[conn[s].at].records[t] /\ t \notin set
              /\ t = s => Head(toServer[s]) # "lost",
         \A t \in set : conn[t].at = conn[s].at,
         \A t, u \in Sockets : r[t] # NoClient /\ r[u] = r[t] => t = u
  PROVE  Records'
<1> USE DEF Records, Types
<1> DEFINE v == conn[s].at
<1>1. v \in Servers
  OBVIOUS
<1>2. /\ toServer' = [toServer EXCEPT ![s] = Tail(@)]
      /\ server' = [server EXCEPT ![v].records = r]
      /\ conn' = [t \in Sockets |->
           IF t \in set THEN [conn[t] EXCEPT !.link = "down"] ELSE conn[t]]
  BY DEF Handled
<1>3. Tail(toServer[s]) \in Seq(Events)
  OBVIOUS
<1>4. Types'
  <2>1. toServer' \in [Sockets -> Seq(Events)] BY <1>2, <1>3
  <2>2. conn' \in [Sockets -> [link : {"connecting", "up", "down"},
                               of : Clients \cup {NoClient}, at : Servers]]
    BY <1>2
  <2>3. server' \in [Servers -> [runs : BOOLEAN, instance : Nat,
                                 records : [Sockets -> Clients \cup {NoClient}]]]
    BY <1>1, <1>2
  <2> QED BY <2>1, <2>2, <2>3
<1>5. /\ server'[v].records = r
      /\ \A w \in Servers \ {v} : server'[w].records = server[w].records
  BY <1>1, <1>2
<1>6. \A t \in Sockets :
        /\ conn'[t].at = conn[t].at /\ conn'[t].of = conn[t].of
        /\ t \notin set => Up(t)' = Up(t)
        /\ t # s => toServer'[t] = toServer[t]
  BY <1>2 DEF Up
<1>7. \A t \in Sockets : t # s => IsLeaving(t)' = IsLeaving(t)
  BY <1>6 DEF IsLeaving
<1>8. Head(toServer[s]) # "lost" /\ IsLeaving(s) => IsLeaving(s)'
  <2>1. toServer'[s] = Tail(toServer[s]) /\ toServer[s] \in Seq(Events) BY <1>2
  <2> QED BY <2>1, StaysLeaving
<1> HIDE DEF v
<1>9. Recorded'
  <2> SUFFICES ASSUME NEW w \in Servers, NEW t \in Sockets, server'[w].records[t] # NoClient
               PROVE  /\ conn'[t].at = w /\ conn'[t].of = server'[w].records[t]
                      /\ Up(t)' \/ IsLeaving(t)'
    BY DEF Recorded
  <2>1. CASE w # v
    <3>1. server[w].records[t] = server'[w].records[t] BY <1>5, <2>1
    <3>2. conn[t].at = w /\ conn[t].of = server[w].records[t] /\ (Up(t) \/ IsLeaving(t))
      BY <3>1 DEF Recorded
    <3>3. t # s /\ t \notin set BY <2>1, <3>2 DEF v
    <3> QED BY <1>6, <1>7, <3>1, <3>2, <3>3
  <2>2. CASE w = v /\ t = s /\ Up(s) /\ r[s] = conn[s].of /\ s \notin set
    BY <1>5, <1>6, <2>2 DEF v
  <2>3. CASE /\ w = v /\ r[t] = server[v].records[t] /\ t \notin set
             /\ t = s => Head(toServer[s]) # "lost"
    <3>1. conn[t].at = v /\ conn[t].of = r[t] /\ (Up(t) \/ IsLeaving(t))
      BY <1>1, <1>5, <2>3 DEF Recorded
    <3> QED BY <1>5, <1>6, <1>7, <1>8, <2>3, <3>1
  <2> QED BY <1>5, <2>1, <2>2, <2>3 DEF v
<1>10. RecordedOnce'
  <2> SUFFICES ASSUME NEW w \in Servers, NEW t \in Sockets, NEW u \in Sockets,
                      server'[w].records[t] # NoClient,
                      server'[w].records[u] = server'[w].records[t]
               PROVE  t = u
    BY DEF RecordedOnce
  <2>1. CASE w = v BY <1>5, <2>1
  <2>2. CASE w # v BY <1>5, <2>2 DEF RecordedOnce
  <2> QED BY <2>1, <2>2
<1>11. Owned'
  <2> SUFFICES ASSUME NEW t \in Sockets, conn'[t].of = NoClient
               PROVE  conn'[t].link = "down" /\ toServer'[t] = <<>>
    BY DEF Owned
  <2>1. conn[t].link = "down" /\ toServer[t] = <<>> BY <1>6 DEF Owned
  <2>2. t # s BY <2>1
  <2> QED BY <1>2, <1>6, <2>1, <2>2
<1> QED BY <1>4, <1>9, <1>10, <1>11

LEMMA HandlersKeepRecords ==
  ASSUME Records, NEW s \in Sockets, Handle(s)
  PROVE  Records'
<1> DEFINE r == server[conn[s].at].records
<1>1. /\ toServer[s] # <<>> /\ conn[s].at \in Servers
      /\ r \in [Sockets -> Clients \cup {NoClient}]
  BY DEF Records, Types, Handle, HandleOnline, HandleOffline, HandleLost, Arrived
<1>2. \A t, u \in Sockets : r[t] # NoClient /\ r[u] = r[t] => t = u
  BY <1>1 DEF Records, RecordedOnce
<1>3. \A t \in Sockets : r[t] # NoClient => conn[t].at = conn[s].at
  BY <1>1 DEF Records, Recorded
<1>4. conn[s].of # NoClient /\ conn[s].of \in Clients
  BY <1>1 DEF Records, Owned, Types
<1>5. Previous(s) = { t \in Sockets \ {s} : r[t] = conn[s].of }
  BY DEF Previous
<1> HIDE DEF r
<1>6. CASE HandleOnline(s)
  <2>1. Head(toServer[s]) # "lost"
    BY <1>6 DEF HandleOnline, Arrived
  <2>2. CASE ~Up(s)
    <3>1. Handled(s, r, {}) BY <1>6, <2>2 DEF HandleOnline, r
    <3> QED BY <1>1, <1>2, <2>1, <3>1, HandledRecords DEF r
  <2>3. CASE Up(s) /\ Previous(s) = {}
    <3> DEFINE now == [r EXCEPT ![s] = conn[s].of]
    <3>1. Handled(s, now, {}) BY <1>6, <2>3 DEF HandleOnline, r
    <3>2. /\ now \in [Sockets -> Clients \cup {NoClient}]
          /\ now[s] = conn[s].of /\ \A t \in Sockets \ {s} : now[t] = r[t]
      BY <1>1, <1>4
    <3>3. \A t \in Sockets \ {s} : r[t] # conn[s].of
      BY <1>5, <2>3
    <3> HIDE DEF now
    <3>4. \A t, u \in Sockets : now[t] # NoClient /\ now[u] = now[t] => t = u
      BY <1>2, <3>2, <3>3
    <3> QED BY <1>1, <2>1, <2>3, <3>1, <3>2, <3>4, HandledRecords DEF r
  <2>4. CASE Up(s) /\ Previous(s) # {}
    <3>1. PICK p \in Previous(s) :
            Handled(s, [r EXCEPT ![s] = conn[s].of, ![p] = NoClient], {p})
      BY <1>6, <2>4 DEF HandleOnline, r
    <3> DEFINE now == [r EXCEPT ![s] = conn[s].of, ![p] = NoClient]
    <3>2. p \in Sockets /\ p # s /\ r[p] = conn[s].of
      BY <1>5, <3>1
    <3>3. /\ now \in [Sockets -> Clients \cup {NoClient}]
          /\ now[s] = conn[s].of /\ now[p] = NoClient
          /\ \A t \in Sockets \ {s, p} : now[t] = r[t]
      BY <1>1, <1>4, <3>2
    <3>4. \A t \in Sockets \ {s, p} : r[t] # conn[s].of
      BY <1>2, <1>4, <3>2
    <3>5. Handled(s, now, {p}) BY <3>1
    <3> HIDE DEF now
    <3>6. \A t, u \in Sockets : now[t] # NoClient /\ now[u] = now[t] => t = u
      BY <1>2, <3>3, <3>4
    <3>7. conn[p].at = conn[s].at
      BY <1>3, <1>4, <3>2
    <3> QED
      BY <1>1, <2>1, <2>4, <3>2, <3>3, <3>5, <3>6, <3>7, HandledRecords DEF r
  <2> QED BY <2>2, <2>3, <2>4
<1>7. CASE HandleOffline(s) \/ HandleLost(s)
  <2> DEFINE now == [r EXCEPT ![s] = NoClient]
  <2>1. PICK set \in {{}, {s}} : Handled(s, now, set)
    BY <1>7 DEF HandleOffline, HandleLost, r
  <2>2. /\ now \in [Sockets -> Clients \cup {NoClient}]
        /\ now[s] = NoClient /\ \A t \in Sockets \ {s} : now[t] = r[t]
    BY <1>1
  <2> HIDE DEF now
  <2>3. \A t, u \in Sockets : now[t] # NoClient /\ now[u] = now[t] => t = u
    BY <1>2, <2>2
  <2>4. set \in SUBSET Sockets /\ \A t \in set : t = s
    OBVIOUS
  <2> QED BY <1>1, <2>1, <2>2, <2>3, <2>4, HandledRecords DEF r
<1> QED BY <1>6, <1>7 DEF Handle

-----------------------------------------------------------------------------
\* What makes a server's records true is an inductive invariant.
THEOREM RecordsHold == Spec => []Records
<1>1. Init => Records
  <2> SUFFICES ASSUME Init PROVE Records
    OBVIOUS
  <2>1. conn \in [Sockets -> [link : {"connecting", "up", "down"},
                              of : Clients \cup {NoClient}, at : Servers]]
    <3>1. (CHOOSE v \in Servers : TRUE) \in Servers BY MSSessionAssumption
    <3> QED BY <3>1 DEF Init
  <2>2. Types
    <3>1. NoRecords \in [Sockets -> Clients \cup {NoClient}] BY DEF NoRecords
    <3> QED BY <2>1, <3>1 DEF Init, Types
  <2>3. Recorded /\ RecordedOnce
    BY DEF Init, NoRecords, Recorded, RecordedOnce
  <2>4. Owned BY DEF Init, Owned
  <2> QED BY <2>2, <2>3, <2>4 DEF Records
<1>2. Records /\ [Next]_vars => Records'
  <2> SUFFICES ASSUME Records, [Next]_vars PROVE Records'
    OBVIOUS
  <2>1. ASSUME NEW s \in Sockets,
               \/ Connected(s) \/ NotConnected(s) \/ Break(s) \/ Handle(s)
               \/ PeerDisconnected(s)
        PROVE  Records'
    BY <2>1, NetworkKeepsRecords, HandlersKeepRecords, Elsewhere DEF PeerDisconnected
  <2>2. ASSUME NEW v \in Servers, SendServerOnline(v) \/ StartServer(v) \/ EndServer(v)
        PROVE  Records'
    BY <2>2, ServerKeepsRecords, Elsewhere DEF SendServerOnline
  <2>3. ASSUME NEW c \in Clients,
               \/ StartClient(c) \/ EndClient(c) \/ CheckHasAnyServerBeenFound(c)
               \/ ServerConnected(c) \/ ServerNotConnected(c)
               \/ \E v \in Servers : LookedUp(c, v) \/ LoseLookup(c, v)
               \/ \E d \in Declarations : ServerFound(c, d) \/ LoseDeclaration(c, d)
        PROVE  Records'
    BY <2>3, ClientKeepsRecords, Elsewhere
      DEF StartClient, CheckHasAnyServerBeenFound, ServerNotConnected, LookedUp, LoseLookup,
          LoseDeclaration
  <2>4. CASE UNCHANGED vars
    BY <2>4, Elsewhere DEF vars
  <2> QED BY <2>1, <2>2, <2>3, <2>4 DEF Next
<1> QED BY <1>1, <1>2, PTL DEF Spec

\* A server's records are of connections that work or whose loss is on its way, and of each
\* client one.
THEOREM RecordsStayTrue == Spec => []RecordsAreTrue
BY RecordsSuffice, RecordsHold, PTL

-----------------------------------------------------------------------------
(* Connections and the clients that use them                               *)

\* What is on its way to the server over a socket fits its connection.
QueueFits(s) ==
  /\ toServer[s] \in Queues
  /\ Up(s) => toServer[s] \in {<<>>, <<"online">>}
  /\ conn[s].link = "connecting" => toServer[s] = <<>>

ClientStates ==
  [runs : BOOLEAN, sock : Sockets \cup {NoSocket}, known : Declarations \cup {<<>>},
   timer : BOOLEAN, calls : Seq([sock : Sockets, declared : Declarations]), gaveUp : BOOLEAN]

\* A client that has ended has no timer, no connection and no calls.
ClientFits(c) ==
  /\ client[c] \in ClientStates
  /\ Len(client[c].calls) <= MaxCalls
  /\ ~client[c].runs =>
       ~client[c].timer /\ client[c].sock = NoSocket /\ client[c].calls = <<>>

\* The socket that a client has for its server's was connected for it, and is recorded or
\* about to be for as long as it works.
SockFits(c) ==
  client[c].sock # NoSocket =>
    /\ conn[client[c].sock].of = c /\ conn[client[c].sock].link # "connecting"
    /\ Up(client[c].sock) =>
         \/ server[conn[client[c].sock].at].records[client[c].sock] = c
         \/ toServer[client[c].sock] = <<"online">>

\* The calls of serverFound() have a socket each, over which nothing has been said.
CallsFit(c) ==
  /\ \A i \in DOMAIN client[c].calls :
       /\ conn[client[c].calls[i].sock].of = c /\ client[c].calls[i].sock # client[c].sock
       /\ conn[client[c].calls[i].sock].link # "down" => toServer[client[c].calls[i].sock] = <<>>
  /\ \A i, j \in DOMAIN client[c].calls :
       client[c].calls[i].sock = client[c].calls[j].sock => i = j

\* Declarations are of runs that there were, and come to clients that run.
PacketsFit ==
  /\ \A v \in Servers : /\ server[v].instance \in 0 .. MaxRuns
                        /\ server[v].runs => server[v].instance # 0
  /\ declares \in [Clients -> [Declarations -> 0 .. MaxCopies]]
  /\ \A c \in Clients, d \in Declarations : declares[c][d] > 0 => client[c].runs
  /\ lookups \subseteq Clients \X Servers
  /\ lost \subseteq Sockets /\ \A s \in lost : conn[s].of # NoClient

Sessions ==
  /\ PacketsFit
  /\ \A s \in Sockets : QueueFits(s)
  /\ DOMAIN client = Clients
  /\ \A c \in Clients : ClientFits(c) /\ SockFits(c) /\ CallsFit(c)

\* What is said over a socket before its end, and the end of it, written out.
LEMMA Said ==
  /\ Append(<<>>, "lost") = <<"lost">> /\ Append(<<"online">>, "lost") = <<"online", "lost">>
  /\ Append(<<>>, "online") = <<"online">>
  /\ <<>> \o <<>> \o <<"lost">> = <<"lost">>
  /\ <<"online">> \o <<>> \o <<"lost">> = <<"online", "lost">>
  /\ <<>> \o <<"offline">> \o <<"lost">> = <<"offline", "lost">>
  /\ <<"online">> \o <<"offline">> \o <<"lost">> = <<"online", "offline", "lost">>
<1>1. /\ <<>> \in Seq(Events) /\ <<"online">> \in Seq(Events) /\ <<"offline">> \in Seq(Events)
      /\ <<"lost">> \in Seq(Events) /\ "lost" \in Events
  BY DEF Events
<1>2. ASSUME NEW s \in Seq(Events), NEW t \in Seq(Events), Len(s) = 2, Len(t) = 2,
             s[1] = t[1], s[2] = t[2]
      PROVE  s = t
  <2>1. Len(s) = Len(t) /\ \A i \in 1 .. Len(s) : s[i] = t[i]
    BY <1>2
  <2> QED BY <2>1, SeqEqual
<1>3. ASSUME NEW s \in Seq(Events), NEW t \in Seq(Events), Len(s) = 3, Len(t) = 3,
             s[1] = t[1], s[2] = t[2], s[3] = t[3]
      PROVE  s = t
  <2>1. Len(s) = Len(t) /\ \A i \in 1 .. Len(s) : s[i] = t[i]
    BY <1>3
  <2> QED BY <2>1, SeqEqual
<1>4. <<"online">> \o <<"lost">> = <<"online", "lost">>
  <2> DEFINE a == <<"online">> \o <<"lost">>
             b == <<"online", "lost">>
  <2>1. a \in Seq(Events) /\ b \in Seq(Events) /\ Len(a) = 2 /\ Len(b) = 2
    BY DEF Events
  <2>2. a[1] = b[1] /\ a[2] = b[2]
    OBVIOUS
  <2> HIDE DEF a, b
  <2>3. a = b BY <1>2, <2>1, <2>2
  <2> QED BY <2>3 DEF a, b
<1>5. <<"offline">> \o <<"lost">> = <<"offline", "lost">>
  <2> DEFINE a == <<"offline">> \o <<"lost">>
             b == <<"offline", "lost">>
  <2>1. a \in Seq(Events) /\ b \in Seq(Events) /\ Len(a) = 2 /\ Len(b) = 2
    BY DEF Events
  <2>2. a[1] = b[1] /\ a[2] = b[2]
    OBVIOUS
  <2> HIDE DEF a, b
  <2>3. a = b BY <1>2, <2>1, <2>2
  <2> QED BY <2>3 DEF a, b
<1>6. <<"online">> \o <<"offline">> \o <<"lost">> = <<"online", "offline", "lost">>
  <2> DEFINE c == <<"online">> \o <<"offline">>
             a == c \o <<"lost">>
             b == <<"online", "offline", "lost">>
  <2>1. c \in Seq(Events) /\ Len(c) = 2 /\ c[1] = "online" /\ c[2] = "offline"
    BY DEF Events
  <2> HIDE DEF c
  <2>2. /\ b \in Seq(Events) /\ Len(b) = 3
        /\ b[1] = "online" /\ b[2] = "offline" /\ b[3] = "lost"
    BY DEF Events
  <2>3. /\ a \in Seq(Events) /\ Len(a) = 3
        /\ a[1] = "online" /\ a[2] = "offline" /\ a[3] = "lost"
    <3>1. PICK e \in Seq(Events) : e = <<"lost">> /\ Len(e) = 1 /\ e[1] = "lost"
      BY <1>1
    <3>2. a = c \o e
      BY <3>1
    <3>3. /\ c \o e \in Seq(Events) /\ Len(c \o e) = 3
          /\ (c \o e)[1] = c[1] /\ (c \o e)[2] = c[2] /\ (c \o e)[3] = e[1]
      <4>1. /\ c \o e \in Seq(Events) /\ Len(c \o e) = Len(c) + Len(e)
            /\ \A i \in 1 .. Len(c) + Len(e) :
                 (c \o e)[i] = IF i <= Len(c) THEN c[i] ELSE e[i - Len(c)]
        BY <2>1, ConcatProperties
      <4> HIDE DEF a
      <4> QED BY <2>1, <3>1, <4>1
    <3> QED BY <2>1, <3>1, <3>2, <3>3
  <2> HIDE DEF a, b
  <2>4. a = b BY <1>3, <2>2, <2>3
  <2> QED BY <2>4 DEF a, b, c
<1>7. Append(<<"online">>, "lost") = <<"online">> \o <<"lost">>
  BY <1>1, AppendIsConcat
<1>8. <<>> \o <<>> = <<>> /\ <<"online">> \o <<>> = <<"online">>
  BY <1>1, ConcatEmptySeq
<1>9. <<>> \o <<"offline">> = <<"offline">> /\ <<>> \o <<"lost">> = <<"lost">>
  BY <1>1, ConcatEmptySeq
<1>10. Append(<<>>, "lost") = <<"lost">> /\ Append(<<>>, "online") = <<"online">>
  OBVIOUS
<1> QED BY <1>4, <1>5, <1>6, <1>7, <1>8, <1>9, <1>10

\* c has the socket for its server's, or asks for a connection with it.
Uses(c, s) ==
  client[c].sock = s \/ \E i \in DOMAIN client[c].calls : client[c].calls[i].sock = s

\* A step does nothing to the socket that a client could not have expected of it.
Tame(s) ==
  /\ conn'[s].of = conn[s].of /\ conn'[s].at = conn[s].at
  /\ conn'[s].link = "connecting" => conn[s].link = "connecting"
  /\ conn'[s].link = "up" => conn[s].link # "down"
  /\ conn'[s].link # "down" /\ toServer[s] = <<>> => toServer'[s] = <<>>
  /\ conn[s].link = "up" /\ conn'[s].link = "up" =>
       \/ ~(server[conn[s].at].records[s] = conn[s].of \/ toServer[s] = <<"online">>)
       \/ server'[conn[s].at].records[s] = conn[s].of
       \/ toServer'[s] = <<"online">>

LEMMA UsesOwn ==
  ASSUME Sessions, NEW c \in Clients, NEW s \in Sockets, Uses(c, s)
  PROVE  conn[s].of = c
<1>1. SockFits(c) /\ CallsFit(c) /\ NoSocket \notin Sockets
  BY MSSessionAssumption DEF Sessions
<1> QED BY <1>1 DEF Uses, SockFits, CallsFit

LEMMA UntouchedIsTame ==
  ASSUME NEW s \in Sockets, conn'[s] = conn[s], toServer'[s] = toServer[s],
         server'[conn[s].at].records[s] = server[conn[s].at].records[s]
  PROVE  Tame(s)
BY DEF Tame

LEMMA SockStaysFit ==
  ASSUME Types, NEW c \in Clients, ClientFits(c), SockFits(c),
         client'[c].sock = client[c].sock, \A s \in Sockets : Uses(c, s) => Tame(s)
  PROVE  SockFits(c)'
<1> SUFFICES ASSUME client'[c].sock # NoSocket
             PROVE  /\ conn'[client'[c].sock].of = c /\ conn'[client'[c].sock].link # "connecting"
                    /\ conn'[client'[c].sock].link = "up" =>
                         \/ server'[conn'[client'[c].sock].at].records[client'[c].sock] = c
                         \/ toServer'[client'[c].sock] = <<"online">>
  BY DEF SockFits, Up
<1>1. PICK s \in Sockets : s = client[c].sock
  BY DEF ClientFits, ClientStates
<1>2. Uses(c, s)
  BY <1>1 DEF Uses
<1>3. Tame(s)
  BY <1>2
<1>4. /\ conn[s].of = c /\ conn[s].link # "connecting"
      /\ conn[s].link = "up" =>
           server[conn[s].at].records[s] = c \/ toServer[s] = <<"online">>
  BY <1>1 DEF SockFits, Up
<1>5. conn'[s].of = c /\ conn'[s].at = conn[s].at /\ conn'[s].link # "connecting"
  BY <1>3, <1>4 DEF Tame
<1>6. ASSUME conn'[s].link = "up"
      PROVE  server'[conn'[s].at].records[s] = c \/ toServer'[s] = <<"online">>
  <2>1. conn[s].link = "up"
    <3>1. PICK link \in {"connecting", "up", "down"} : link = conn[s].link
      BY DEF Types
    <3>2. link # "down" /\ link # "connecting"
      BY <1>3, <1>4, <1>6, <3>1 DEF Tame
    <3> QED BY <3>1, <3>2
  <2>2. \/ ~(server[conn[s].at].records[s] = conn[s].of \/ toServer[s] = <<"online">>)
        \/ server'[conn[s].at].records[s] = conn[s].of \/ toServer'[s] = <<"online">>
    BY <1>3, <1>6, <2>1 DEF Tame
  <2> QED BY <1>4, <1>5, <2>1, <2>2
<1> QED BY <1>1, <1>5, <1>6

\* The calls stay fit while they are some of those that were, and their sockets are let alone.
LEMMA CallsStayFit ==
  ASSUME Types', NEW c \in Clients, CallsFit(c),
         \A i \in DOMAIN client'[c].calls :
           /\ i \in DOMAIN client[c].calls /\ client'[c].calls[i] = client[c].calls[i]
           /\ client[c].calls[i].sock \in Sockets
           /\ client[c].calls[i].sock # client'[c].sock
           /\ Tame(client[c].calls[i].sock)
  PROVE  CallsFit(c)'
<1>1. ASSUME NEW i \in DOMAIN client'[c].calls
      PROVE  /\ conn'[client'[c].calls[i].sock].of = c
             /\ client'[c].calls[i].sock # client'[c].sock
             /\ conn'[client'[c].calls[i].sock].link # "down" =>
                  toServer'[client'[c].calls[i].sock] = <<>>
  <2>1. PICK s \in Sockets : s = client[c].calls[i].sock
    OBVIOUS
  <2>2. i \in DOMAIN client[c].calls /\ client'[c].calls[i].sock = s /\ s # client'[c].sock
    BY <2>1
  <2>3. Tame(s)
    BY <2>1
  <2>4. conn[s].of = c /\ (conn[s].link # "down" => toServer[s] = <<>>)
    BY <2>1, <2>2 DEF CallsFit
  <2>5. conn'[s].of = c /\ (conn'[s].link # "down" => toServer'[s] = <<>>)
    <3>1. conn'[s].link # "down" => conn[s].link # "down"
      BY <2>3 DEF Tame, Types
    <3> QED BY <2>3, <2>4, <3>1 DEF Tame
  <2> QED BY <2>2, <2>5
<1>2. \A i, j \in DOMAIN client'[c].calls :
        client'[c].calls[i].sock = client'[c].calls[j].sock => i = j
  BY DEF CallsFit
<1> QED BY <1>1, <1>2 DEF CallsFit

\* The calls are for sockets other than the one that the client has.
LEMMA CallsHaveSockets ==
  ASSUME NEW c \in Clients, ClientFits(c), CallsFit(c), NEW i \in DOMAIN client[c].calls
  PROVE  /\ client[c].calls[i] \in [sock : Sockets, declared : Declarations]
         /\ client[c].calls[i].sock \in Sockets
         /\ client[c].calls[i].sock # client[c].sock
<1>1. client[c].calls \in Seq([sock : Sockets, declared : Declarations])
  BY DEF ClientFits, ClientStates
<1>2. PICK calls : calls = client[c].calls
  OBVIOUS
<1>3. calls[i] \in [sock : Sockets, declared : Declarations]
  <2>1. calls \in Seq([sock : Sockets, declared : Declarations]) /\ i \in DOMAIN calls
    BY <1>1, <1>2
  <2>2. ASSUME NEW S, calls \in Seq(S) PROVE calls[i] \in S
    BY <2>1, <2>2
  <2> QED BY <2>1, <2>2
<1> QED BY <1>2, <1>3 DEF CallsFit

\* A client that a step leaves as it is, and whose sockets it treats as the client could
\* expect, stays fit.
LEMMA UnchangedStaysFit ==
  ASSUME Records, Records', Sessions, NEW c \in Clients, client'[c] = client[c],
         \A s \in Sockets : Uses(c, s) => Tame(s)
  PROVE  ClientFits(c)' /\ SockFits(c)' /\ CallsFit(c)'
<1> USE DEF Records
<1>1. ClientFits(c) /\ SockFits(c) /\ CallsFit(c)
  BY DEF Sessions
<1>2. ClientFits(c)'
  BY <1>1 DEF ClientFits
<1>3. SockFits(c)'
  BY <1>1, SockStaysFit
<1>4. CallsFit(c)'
  <2>1. ASSUME NEW i \in DOMAIN client[c].calls
        PROVE  /\ client[c].calls[i].sock \in Sockets
               /\ client[c].calls[i].sock # client[c].sock
    BY <1>1, CallsHaveSockets
  <2>2. ASSUME NEW i \in DOMAIN client[c].calls
        PROVE  Tame(client[c].calls[i].sock)
    <3>1. PICK s \in Sockets : s = client[c].calls[i].sock
      BY <2>1
    <3>2. Uses(c, s)
      BY <3>1 DEF Uses
    <3>3. Tame(s)
      BY <3>2
    <3> QED BY <3>1, <3>3
  <2> QED BY <1>1, <2>1, <2>2, CallsStayFit
<1> QED BY <1>2, <1>3, <1>4

\* Steps that leave all clients as they are.
LEMMA SessionsFrame ==
  ASSUME Records, Records', Sessions, client' = client, PacketsFit',
         \A s \in Sockets : QueueFits(s)',
         \A s \in Sockets : conn[s].of # NoClient => Tame(s)
  PROVE  Sessions'
<1>1. ASSUME NEW c \in Clients PROVE ClientFits(c)' /\ SockFits(c)' /\ CallsFit(c)'
  <2>1. ASSUME NEW s \in Sockets, Uses(c, s) PROVE Tame(s)
    <3>1. conn[s].of = c
      BY <2>1, UsesOwn
    <3> QED BY <3>1, MSSessionAssumption
  <2> QED BY <2>1, UnchangedStaysFit
<1> QED BY <1>1 DEF Sessions

\* Declarations come to clients that run, and no more copies than there may be.
LEMMA DeclaredFits ==
  ASSUME Sessions, NEW set \in SUBSET Clients, NEW d \in Declarations, NEW n \in Nat,
         client' = client, declares' = Declared(set, d, n)
  PROVE  /\ declares' \in [Clients -> [Declarations -> 0 .. MaxCopies]]
         /\ \A c \in Clients, e \in Declarations : declares'[c][e] > 0 => client'[c].runs
<1>1. /\ declares \in [Clients -> [Declarations -> 0 .. MaxCopies]] /\ MaxCopies \in Nat
      /\ \A c \in Clients, e \in Declarations : declares[c][e] > 0 => client[c].runs
  BY MSSessionAssumption DEF Sessions, PacketsFit
<1>2. ASSUME NEW c \in Clients
      PROVE  /\ declares'[c] \in [Declarations -> 0 .. MaxCopies]
             /\ \A e \in Declarations : declares'[c][e] > 0 => client'[c].runs
  <2>1. CASE c \in set /\ client[c].runs
    <3>1. declares'[c] = [declares[c] EXCEPT ![d] = Least(@ + n, MaxCopies)]
      BY <2>1 DEF Declared
    <3>2. Least(declares[c][d] + n, MaxCopies) \in 0 .. MaxCopies
      <4>1. declares[c][d] \in Nat
        BY <1>1
      <4> QED BY <1>1, <4>1 DEF Least
    <3> QED BY <1>1, <2>1, <3>1, <3>2
  <2>2. CASE ~(c \in set /\ client[c].runs)
    <3>1. declares'[c] = declares[c]
      BY <2>2 DEF Declared
    <3> QED BY <1>1, <3>1
  <2> QED BY <2>1, <2>2
<1>3. declares' = [c \in Clients |-> declares'[c]]
  BY DEF Declared
<1> QED BY <1>2, <1>3

-----------------------------------------------------------------------------
(* Steps that leave the clients as they are                                *)

\* Steps of UDP packets only.
LEMMA PacketsKeepSessions ==
  ASSUME Records, Records', Sessions, PacketsFit',
         UNCHANGED <<server, client, conn, toServer, lost>>
  PROVE  Sessions'
<1>1. \A s \in Sockets : QueueFits(s)'
  BY DEF Sessions, QueueFits, Up
<1>2. \A s \in Sockets : Tame(s)
  BY UntouchedIsTame
<1> QED BY <1>1, <1>2, SessionsFrame

LEMMA NetworkKeepsSessions ==
  ASSUME Records, Records', Sessions, NEW s \in Sockets,
         Connected(s) \/ NotConnected(s) \/ Break(s)
  PROVE  Sessions'
<1> USE DEF Records
<1>1. /\ UNCHANGED <<server, client, lookups, declares>>
      /\ \A t \in Sockets \ {s} : conn'[t] = conn[t] /\ toServer'[t] = toServer[t]
      /\ conn'[s].of = conn[s].of /\ conn'[s].at = conn[s].at
      /\ lost' \subseteq Sockets
  BY DEF Connected, NotConnected, Break, Types, Sessions, PacketsFit
<1>2. QueueFits(s) /\ toServer[s] \in Seq(Events)
  BY DEF Sessions, Types
<1>3. conn[s].link # "down" => conn[s].of # NoClient
  BY DEF Owned
<1>4. PacketsFit'
  <2>1. \A t \in lost' : conn'[t].of # NoClient
    <3>1. \A t \in lost : conn[t].of # NoClient
      BY DEF Sessions, PacketsFit
    <3>2. lost' \subseteq lost \/ (lost' = lost \cup {s} /\ conn[s].link # "down")
      BY DEF Connected, NotConnected, Break, Up
    <3> QED BY <1>1, <1>3, <3>1, <3>2 DEF Sessions, PacketsFit
  <2> QED BY <1>1, <2>1 DEF Sessions, PacketsFit
<1>5. ASSUME NEW t \in Sockets PROVE QueueFits(t)' /\ Tame(t)
  <2>1. CASE t # s
    <3>1. QueueFits(t)'
      BY <1>1, <2>1 DEF Sessions, QueueFits, Up
    <3>2. Tame(t)
      BY <1>1, <2>1, UntouchedIsTame
    <3> QED BY <3>1, <3>2
  <2>2. CASE t = s /\ Connected(s)
    <3>1. conn[s].link = "connecting" /\ conn'[s].link = "up" /\ toServer' = toServer
      BY <2>2 DEF Connected, Types
    <3> QED BY <1>1, <1>2, <2>2, <3>1 DEF QueueFits, Up, Tame
  <2>3. CASE t = s /\ NotConnected(s)
    <3>1. conn[s].link = "connecting" /\ conn'[s].link = "down" /\ toServer' = toServer
      BY <2>3 DEF NotConnected, Types
    <3> QED BY <1>1, <1>2, <2>3, <3>1 DEF QueueFits, Up, Tame
  <2>4. CASE t = s /\ Break(s)
    <3>1. conn[s].link = "up" /\ conn'[s].link = "down"
      BY <2>4 DEF Break, Up, Types
    <3>2. PICK q \in Prefixes(toServer[s]) : toServer' = [toServer EXCEPT ![s] = Append(q, "lost")]
      BY <2>4 DEF Break
    <3>3. q \in {<<>>, <<"online">>}
      <4>1. PICK n \in 0 .. Len(toServer[s]) : q = SubSeq(toServer[s], 1, n)
        BY <3>2 DEF Prefixes
      <4>2. CASE toServer[s] = <<>>
        <5>1. n = 0 BY <4>1, <4>2
        <5> QED BY <4>1, <4>2, <5>1
      <4>3. CASE toServer[s] = <<"online">>
        <5>1. n = 0 \/ n = 1 BY <4>1, <4>3
        <5>2. SubSeq(<<"online">>, 1, 0) = <<>>
          OBVIOUS
        <5>3. SubSeq(<<"online">>, 1, 1) = <<"online">>
          <6>1. <<"online">> \in Seq(Events) /\ Len(<<"online">>) = 1
            BY DEF Events
          <6> QED BY <6>1, SubSeqFull
        <5> QED BY <4>1, <4>3, <5>1, <5>2, <5>3
      <4> QED BY <1>2, <3>1, <4>2, <4>3 DEF QueueFits, Up
    <3>4. toServer'[s] = Append(q, "lost")
      BY <3>2 DEF Types
    <3>5. toServer'[s] \in {<<"lost">>, <<"online", "lost">>}
      BY <3>3, <3>4, Said
    <3> QED BY <1>1, <2>4, <3>1, <3>5 DEF QueueFits, Queues, Up, Tame
  <2> QED BY <2>1, <2>2, <2>3, <2>4
<1> QED BY <1>1, <1>4, <1>5, SessionsFrame

LEMMA ServerKeepsSessions ==
  ASSUME Records, Records', Sessions, NEW v \in Servers,
         SendServerOnline(v) \/ StartServer(v) \/ EndServer(v)
  PROVE  Sessions'
<1> USE DEF Records
<1>1. PacketsFit
  BY DEF Sessions
<1>2. CASE SendServerOnline(v)
  <2>1. <<v, server[v].instance>> \in Declarations
    BY <1>1, <1>2, MSSessionAssumption DEF PacketsFit, SendServerOnline, Declarations
  <2>2. PacketsFit'
    <3>1. UNCHANGED <<server, client, conn, toServer, lost, lookups>>
      BY <1>2 DEF SendServerOnline
    <3>2. PICK d \in Declarations : d = <<v, server[v].instance>>
      BY <2>1
    <3>3. declares' = Declared(Clients, d, 2)
      BY <1>2, <3>2 DEF SendServerOnline
    <3> QED BY <1>1, <3>1, <3>3, DeclaredFits DEF PacketsFit
  <2> QED BY <1>2, <2>2, PacketsKeepSessions DEF SendServerOnline
<1>3. CASE StartServer(v)
  <2>1. /\ UNCHANGED <<client, conn, toServer, lost, lookups>>
        /\ server[v].instance \in 0 .. MaxRuns /\ server[v].instance < MaxRuns
        /\ server' = [server EXCEPT ![v].runs = TRUE, ![v].instance = @ + 1]
    BY <1>1, <1>3 DEF StartServer, PacketsFit
  <2>2. /\ server'[v].instance = server[v].instance + 1
        /\ \A w \in Servers : server'[w].records = server[w].records
        /\ \A w \in Servers \ {v} : server'[w] = server[w]
    BY <2>1 DEF Types
  <2>3. PICK n \in 1 .. MaxRuns : n = server'[v].instance
    BY <2>1, <2>2, MSSessionAssumption
  <2>4. PICK d \in Declarations : d = <<v, server'[v].instance>>
    BY <2>3 DEF Declarations
  <2>5. declares' = Declared(Clients, d, 2)
    BY <1>3, <2>4 DEF StartServer
  <2>6. PacketsFit'
    <3>1. /\ declares' \in [Clients -> [Declarations -> 0 .. MaxCopies]]
          /\ \A c \in Clients, e \in Declarations : declares'[c][e] > 0 => client'[c].runs
      BY <2>1, <2>5, DeclaredFits
    <3>2. \A w \in Servers : /\ server'[w].instance \in 0 .. MaxRuns
                             /\ server'[w].runs => server'[w].instance # 0
      <4>1. ASSUME NEW w \in Servers \ {v}
            PROVE  /\ server'[w].instance \in 0 .. MaxRuns
                   /\ server'[w].runs => server'[w].instance # 0
        BY <1>1, <2>2 DEF PacketsFit
      <4>2. server'[v].instance \in 0 .. MaxRuns /\ server'[v].instance # 0
        BY <2>3
      <4> QED BY <4>1, <4>2
    <3> QED BY <1>1, <2>1, <3>1, <3>2 DEF PacketsFit
  <2>7. \A s \in Sockets : QueueFits(s)'
    BY <2>1 DEF Sessions, QueueFits, Up
  <2>8. \A s \in Sockets : Tame(s)
    BY <2>1, <2>2, UntouchedIsTame DEF Types
  <2> QED BY <2>1, <2>6, <2>7, <2>8, SessionsFrame
<1>4. CASE EndServer(v)
  <2>1. /\ UNCHANGED <<client, lookups, declares>>
        /\ \A w \in Servers \ {v} : server'[w] = server[w]
        /\ server'[v].instance = server[v].instance /\ ~server'[v].runs
        /\ lost' = lost \cup { s \in Sockets : conn[s].at = v /\ Up(s) }
    BY <1>4 DEF EndServer, Types
  <2>2. ASSUME NEW s \in Sockets
        PROVE  /\ conn'[s] = IF conn[s].at = v /\ Up(s) THEN [conn[s] EXCEPT !.link = "down"]
                             ELSE conn[s]
               /\ toServer'[s] = IF conn[s].at = v THEN <<>> ELSE toServer[s]
    BY <1>4 DEF EndServer
  <2>3. PacketsFit'
    <3>1. \A s \in lost' : conn'[s].of # NoClient
      BY <1>1, <2>1, <2>2 DEF PacketsFit, Types, Owned, Up
    <3>2. \A w \in Servers : /\ server'[w].instance \in 0 .. MaxRuns
                             /\ server'[w].runs => server'[w].instance # 0
      BY <1>1, <2>1 DEF PacketsFit
    <3>3. lost' \subseteq Sockets
      BY <1>1, <2>1 DEF PacketsFit
    <3> QED BY <1>1, <2>1, <3>1, <3>2, <3>3 DEF PacketsFit
  <2>4. ASSUME NEW s \in Sockets PROVE QueueFits(s)' /\ Tame(s)
    <3>1. QueueFits(s) /\ conn[s].at \in Servers
      BY DEF Sessions, Types
    <3>2. CASE conn[s].at # v
      <4>1. conn'[s] = conn[s] /\ toServer'[s] = toServer[s]
        BY <2>2, <3>2
      <4>2. QueueFits(s)'
        BY <3>1, <4>1 DEF QueueFits, Up
      <4>3. server'[conn[s].at].records[s] = server[conn[s].at].records[s]
        BY <2>1, <3>1, <3>2
      <4> QED BY <4>1, <4>2, <4>3, UntouchedIsTame
    <3>3. CASE conn[s].at = v
      <4>1. /\ toServer'[s] = <<>> /\ conn'[s].of = conn[s].of /\ conn'[s].at = conn[s].at
            /\ conn'[s].link # "up"
            /\ conn'[s].link # "down" => conn[s].link = "connecting"
        BY <2>2, <3>3 DEF Types, Up
      <4>2. QueueFits(s)'
        BY <4>1 DEF QueueFits, Queues, Up
      <4>3. Tame(s)
        BY <4>1 DEF Tame
      <4> QED BY <4>2, <4>3
    <3> QED BY <3>2, <3>3
  <2> QED BY <2>1, <2>3, <2>4, SessionsFrame
<1> QED BY <1>2, <1>3, <1>4

\* What a handler does to the socket it was called for: what is behind the event is left.
LEMMA HandlersKeepSessions ==
  ASSUME Records, Records', Sessions, NEW s \in Sockets, Handle(s)
  PROVE  Sessions'
<1> USE DEF Records
<1>1. PICK e \in Events :
        /\ Arrived(s, e)
        /\ e = "online" => HandleOnline(s)
        /\ e = "offline" => HandleOffline(s)
        /\ e = "lost" => HandleLost(s)
  BY DEF Handle, HandleOnline, HandleOffline, HandleLost, Events
<1>2. QueueFits(s) /\ toServer[s] \in Queues /\ conn[s].at \in Servers /\ conn[s].of # NoClient
  <2>1. toServer[s] # <<>>
    BY <1>1 DEF Arrived
  <2> QED BY <2>1 DEF Sessions, QueueFits, Types, Owned
<1>3. /\ Tail(toServer[s]) \in Queues /\ conn[s].link # "connecting"
      /\ Up(s) => e = "online" /\ Tail(toServer[s]) = <<>>
  <2>1. toServer[s] # <<>> /\ Head(toServer[s]) = e
    BY <1>1 DEF Arrived
  <2>2. /\ Tail(<<"online">>) = <<>> /\ Tail(<<"lost">>) = <<>>
        /\ Tail(<<"online", "lost">>) = <<"lost">> /\ Tail(<<"offline", "lost">>) = <<"lost">>
        /\ Tail(<<"online", "offline", "lost">>) = <<"offline", "lost">>
        /\ Head(<<"online">>) = "online"
    OBVIOUS
  <2>3. Tail(toServer[s]) \in Queues
    BY <1>2, <2>1, <2>2 DEF Queues
  <2>4. conn[s].link # "connecting"
    BY <1>2, <2>1 DEF QueueFits
  <2>5. Up(s) => e = "online" /\ Tail(toServer[s]) = <<>>
    <3>1. Up(s) => toServer[s] = <<"online">>
      BY <1>2, <2>1 DEF QueueFits
    <3> QED BY <2>1, <2>2, <3>1
  <2> QED BY <2>3, <2>4, <2>5
<1>4. PICK r \in [Sockets -> Clients \cup {NoClient}], set \in SUBSET Sockets :
        /\ Handled(s, r, set)
        /\ Up(s) => r[s] = conn[s].of
        /\ \A t \in Sockets \ ({s} \cup set) : r[t] = server[conn[s].at].records[t]
        /\ s \in set => ~Up(s)
        /\ \A t \in set : conn[t].of # NoClient
  <2> DEFINE o == server[conn[s].at].records
  <2>1. o \in [Sockets -> Clients \cup {NoClient}] /\ conn[s].of \in Clients
    BY <1>2 DEF Types
  <2>2. CASE e = "online" /\ ~Up(s)
    <3>1. Handled(s, o, {})
      BY <1>1, <2>2 DEF HandleOnline
    <3> QED BY <2>1, <2>2, <3>1
  <2>3. CASE e = "online" /\ Up(s) /\ Previous(s) = {}
    <3> DEFINE r == [o EXCEPT ![s] = conn[s].of]
    <3>1. Handled(s, r, {})
      BY <1>1, <2>3 DEF HandleOnline
    <3>2. /\ r \in [Sockets -> Clients \cup {NoClient}] /\ r[s] = conn[s].of
          /\ \A t \in Sockets \ {s} : r[t] = o[t]
      BY <2>1
    <3> HIDE DEF r
    <3> QED BY <3>1, <3>2
  <2>4. CASE e = "online" /\ Up(s) /\ Previous(s) # {}
    <3>1. PICK t \in Previous(s) :
            Handled(s, [o EXCEPT ![s] = conn[s].of, ![t] = NoClient], {t})
      BY <1>1, <2>4 DEF HandleOnline
    <3> DEFINE r == [o EXCEPT ![s] = conn[s].of, ![t] = NoClient]
    <3>2. t \in Sockets \ {s} /\ conn[t].of # NoClient
      <4>1. t \in Sockets \ {s} /\ o[t] = conn[s].of
        BY <3>1 DEF Previous
      <4> QED BY <1>2, <4>1 DEF Recorded
    <3>3. /\ r \in [Sockets -> Clients \cup {NoClient}] /\ r[s] = conn[s].of
          /\ \A u \in Sockets \ {s, t} : r[u] = o[u]
      BY <2>1, <3>2
    <3>4. Handled(s, r, {t})
      BY <3>1
    <3> HIDE DEF r
    <3> QED BY <3>2, <3>3, <3>4
  <2>5. CASE e # "online"
    <3> DEFINE r == [o EXCEPT ![s] = NoClient]
    <3>1. PICK set \in {{}, {s}} : Handled(s, r, set)
      BY <1>1, <2>5 DEF HandleOffline, HandleLost, Events
    <3>2. /\ r \in [Sockets -> Clients \cup {NoClient}]
          /\ \A t \in Sockets \ {s} : r[t] = o[t]
      BY <2>1
    <3>3. ~Up(s)
      BY <1>3, <2>5
    <3> HIDE DEF r
    <3> QED BY <1>2, <3>1, <3>2, <3>3
  <2> QED BY <2>2, <2>3, <2>4, <2>5
<1>5. /\ UNCHANGED <<client, lookups, declares>>
      /\ toServer' = [toServer EXCEPT ![s] = Tail(@)]
      /\ server' = [server EXCEPT ![conn[s].at].records = r]
      /\ conn' = [t \in Sockets |-> IF t \in set THEN [conn[t] EXCEPT !.link = "down"] ELSE conn[t]]
      /\ lost' = lost \cup { t \in set : Up(t) }
  BY <1>4 DEF Handled
<1>6. /\ \A t \in Sockets : conn'[t].of = conn[t].of /\ conn'[t].at = conn[t].at
      /\ \A t \in set : conn'[t].link = "down"
      /\ \A t \in Sockets \ set : conn'[t] = conn[t]
      /\ \A t \in Sockets \ {s} : toServer'[t] = toServer[t]
      /\ toServer'[s] = Tail(toServer[s])
      /\ server'[conn[s].at].records = r
      /\ \A v \in Servers : /\ server'[v].runs = server[v].runs
                            /\ server'[v].instance = server[v].instance
      /\ \A v \in Servers : v # conn[s].at => server'[v] = server[v]
  BY <1>2, <1>5 DEF Types
<1>7. PacketsFit'
  BY <1>4, <1>5, <1>6 DEF Sessions, PacketsFit
<1>8. ASSUME NEW t \in Sockets PROVE QueueFits(t)' /\ Tame(t)
  <2>1. QueueFits(t)
    BY DEF Sessions
  <2>2. CASE t \in set /\ t # s
    <3>1. conn'[t].link = "down" /\ toServer'[t] = toServer[t]
      BY <1>6, <2>2
    <3> QED BY <1>6, <2>1, <3>1 DEF QueueFits, Up, Tame
  <2>3. CASE t = s /\ t \in set
    <3>1. conn'[t].link = "down" /\ toServer'[t] = Tail(toServer[s])
      BY <1>6, <2>3
    <3> QED BY <1>3, <1>6, <3>1 DEF QueueFits, Up, Tame
  <2>4. CASE t = s /\ t \notin set
    <3>1. conn'[s] = conn[s] /\ toServer'[s] = Tail(toServer[s])
      BY <1>6, <2>4
    <3>2. QueueFits(s)'
      BY <1>3, <3>1 DEF QueueFits, Up
    <3>3. Up(s) => server'[conn[s].at].records[s] = conn[s].of /\ toServer'[s] = <<>>
      BY <1>3, <1>4, <1>6, <3>1
    <3>4. Tame(s)
      BY <1>2, <1>3, <3>1, <3>3 DEF Tame, Up, Types
    <3> QED BY <2>4, <3>2, <3>4
  <2>5. CASE t # s /\ t \notin set
    <3>1. conn'[t] = conn[t] /\ toServer'[t] = toServer[t]
      BY <1>6, <2>5
    <3>2. server'[conn[t].at].records[t] = server[conn[t].at].records[t]
      <4>1. conn[t].at \in Servers
        BY DEF Types
      <4>2. CASE conn[t].at = conn[s].at
        BY <1>4, <1>6, <2>5, <4>2
      <4>3. CASE conn[t].at # conn[s].at
        BY <1>6, <4>1, <4>3
      <4> QED BY <4>2, <4>3
    <3>3. QueueFits(t)'
      BY <2>1, <3>1 DEF QueueFits, Up
    <3> QED BY <3>1, <3>2, <3>3, UntouchedIsTame
  <2> QED BY <2>2, <2>3, <2>4, <2>5
<1> QED BY <1>5, <1>7, <1>8, SessionsFrame

-----------------------------------------------------------------------------
(* Steps of a client                                                       *)

\* A step of one client: the others stay fit as long as the sockets of theirs are let alone.
LEMMA ClientStep ==
  ASSUME Records, Records', Sessions, NEW c \in Clients, NEW now,
         client' = [client EXCEPT ![c] = now], server' = server,
         PacketsFit', \A s \in Sockets : QueueFits(s)',
         \A s \in Sockets, b \in Clients \ {c} : Uses(b, s) => Tame(s),
         ClientFits(c)', SockFits(c)', CallsFit(c)'
  PROVE  Sessions'
<1>1. DOMAIN client = Clients
  BY DEF Sessions
<1>2. ASSUME NEW b \in Clients \ {c} PROVE ClientFits(b)' /\ SockFits(b)' /\ CallsFit(b)'
  <2>1. client'[b] = client[b]
    BY <1>1
  <2>2. \A s \in Sockets : Uses(b, s) => Tame(s)
    OBVIOUS
  <2> QED BY <2>1, <2>2, UnchangedStaysFit
<1>3. DOMAIN client' = Clients
  BY <1>1
<1> QED BY <1>2, <1>3 DEF Sessions

\* A step of one client that leaves the connections as they are: it goes on with some of its
\* calls, and with the socket that it has or without one.
LEMMA QuietStep ==
  ASSUME Records, Records', Sessions, NEW c \in Clients, NEW now \in ClientStates,
         client' = [client EXCEPT ![c] = now], UNCHANGED <<server, conn, toServer>>,
         now.sock = client[c].sock \/ now.sock = NoSocket,
         Len(now.calls) <= MaxCalls,
         \A i \in DOMAIN now.calls :
           i \in DOMAIN client[c].calls /\ now.calls[i] = client[c].calls[i],
         ~now.runs => ~now.timer /\ now.sock = NoSocket /\ now.calls = <<>>,
         PacketsFit'
  PROVE  Sessions'
<1> USE DEF Records
<1>1. ClientFits(c) /\ SockFits(c) /\ CallsFit(c) /\ client'[c] = now
  BY DEF Sessions
<1>2. ASSUME NEW s \in Sockets PROVE QueueFits(s)' /\ Tame(s)
  <2>1. QueueFits(s)'
    BY DEF Sessions, QueueFits, Up
  <2>2. Tame(s)
    BY UntouchedIsTame
  <2> QED BY <2>1, <2>2
<1>3. ClientFits(c)'
  BY <1>1 DEF ClientFits
<1>4. SockFits(c)'
  <2>1. CASE now.sock = NoSocket
    BY <1>1, <2>1 DEF SockFits
  <2>2. CASE now.sock = client[c].sock
    BY <1>1, <1>2, <2>2, SockStaysFit
  <2> QED BY <2>1, <2>2
<1>5. CallsFit(c)'
  <2>1. ASSUME NEW i \in DOMAIN client'[c].calls
        PROVE  /\ i \in DOMAIN client[c].calls /\ client'[c].calls[i] = client[c].calls[i]
               /\ client[c].calls[i].sock \in Sockets
               /\ client[c].calls[i].sock # client'[c].sock
               /\ Tame(client[c].calls[i].sock)
    <3>1. i \in DOMAIN client[c].calls /\ client'[c].calls[i] = client[c].calls[i]
      BY <1>1
    <3>2. PICK s \in Sockets : s = client[c].calls[i].sock /\ s # client[c].sock
      BY <1>1, <3>1, CallsHaveSockets
    <3>3. Tame(s)
      BY <1>2
    <3> QED BY <1>1, <3>1, <3>2, <3>3, MSSessionAssumption
  <2> QED BY <1>1, <2>1, CallsStayFit
<1> QED BY <1>2, <1>3, <1>4, <1>5, ClientStep

\* The calls but the innermost one.
LEMMA CallsLeft ==
  ASSUME NEW S, NEW calls \in Seq(S), calls # <<>>, Len(calls) <= MaxCalls
  PROVE  /\ SubSeq(calls, 1, Len(calls) - 1) \in Seq(S)
         /\ Len(SubSeq(calls, 1, Len(calls) - 1)) = Len(calls) - 1
         /\ Len(SubSeq(calls, 1, Len(calls) - 1)) <= MaxCalls
         /\ \A i \in DOMAIN SubSeq(calls, 1, Len(calls) - 1) :
              /\ i \in DOMAIN calls /\ i # Len(calls)
              /\ SubSeq(calls, 1, Len(calls) - 1)[i] = calls[i]
<1>1. Len(calls) \in Nat \ {0} /\ DOMAIN calls = 1 .. Len(calls) /\ MaxCalls \in Nat
  BY EmptySeq, MSSessionAssumption
<1>2. PICK n \in Nat : n = Len(calls) - 1
  <2>1. ASSUME NEW m \in Nat \ {0} PROVE m - 1 \in Nat
    OBVIOUS
  <2>2. Len(calls) - 1 \in Nat
    BY <1>1, <2>1
  <2> QED BY <2>2
<1>3. /\ SubSeq(calls, 1, n) \in Seq(S) /\ Len(SubSeq(calls, 1, n)) = n
      /\ \A i \in 1 .. n : SubSeq(calls, 1, n)[i] = calls[i]
  BY <1>1, <1>2, SubSeqProperties
<1>4. DOMAIN SubSeq(calls, 1, n) = 1 .. n
  BY <1>3
<1> QED BY <1>1, <1>2, <1>3, <1>4

\* Timers, starting, giving up and the loss of the connection.
LEMMA QuietStepsKeepSessions ==
  ASSUME Records, Records', Sessions, NEW c \in Clients,
         \/ StartClient(c) \/ CheckHasAnyServerBeenFound(c) \/ ServerNotConnected(c)
         \/ \E s \in Sockets : PeerDisconnected(s) /\ conn[s].of = c
  PROVE  Sessions'
<1>1. /\ ClientFits(c) /\ CallsFit(c) /\ DOMAIN client = Clients
      /\ PacketsFit /\ client[c] \in ClientStates /\ c # NoClient
      /\ client[c].calls \in Seq([sock : Sockets, declared : Declarations])
      /\ Len(client[c].calls) <= MaxCalls
  <2>1. ClientFits(c) /\ CallsFit(c) /\ DOMAIN client = Clients /\ PacketsFit /\ c # NoClient
    BY MSSessionAssumption DEF Sessions
  <2> QED BY <2>1 DEF ClientFits, ClientStates
<1> DEFINE me == client[c]
<1>2. CASE StartClient(c)
  <2> DEFINE now == [Ended EXCEPT !.runs = TRUE, !.timer = TRUE]
  <2>1. /\ client' = [client EXCEPT ![c] = now] /\ UNCHANGED <<server, conn, toServer>>
        /\ lookups' = lookups \cup ({c} \X Servers) /\ UNCHANGED <<lost, declares>>
    BY <1>2 DEF StartClient
  <2>2. /\ now \in ClientStates /\ now.runs /\ now.sock = NoSocket /\ now.calls = <<>>
    <3>1. <<>> \in Seq([sock : Sockets, declared : Declarations])
      OBVIOUS
    <3> QED BY <3>1 DEF Ended, ClientStates
  <2> HIDE DEF now
  <2>3. PacketsFit'
    <3>1. \A b \in Clients : client[b].runs => client'[b].runs
      BY <1>1, <2>1, <2>2
    <3> QED BY <1>1, <2>1, <3>1 DEF PacketsFit
  <2>4. Len(now.calls) <= MaxCalls /\ DOMAIN now.calls = {}
    BY <2>2, MSSessionAssumption
  <2> QED BY <2>1, <2>2, <2>3, <2>4, QuietStep
<1>3. CASE CheckHasAnyServerBeenFound(c)
  <2>1. CASE client' = client
    <3>1. PacketsFit'
      BY <1>1, <1>3, <2>1 DEF CheckHasAnyServerBeenFound, PacketsFit
    <3> QED BY <1>3, <2>1, <3>1, PacketsKeepSessions DEF CheckHasAnyServerBeenFound
  <2>2. CASE client' = [client EXCEPT ![c].timer = FALSE] /\ UNCHANGED lookups
    <3> DEFINE now == [me EXCEPT !.timer = FALSE]
    <3>1. now \in ClientStates
      BY <1>1 DEF ClientStates
    <3>2. /\ now.runs = me.runs /\ now.sock = me.sock /\ now.calls = me.calls /\ ~now.timer
      BY <1>1 DEF ClientStates
    <3>3. client' = [client EXCEPT ![c] = now] /\ UNCHANGED <<server, conn, toServer>>
      BY <1>1, <1>3, <2>2 DEF CheckHasAnyServerBeenFound
    <3> HIDE DEF now
    <3>4. PacketsFit'
      <4>1. \A b \in Clients : client'[b].runs = client[b].runs
        BY <1>1, <3>2, <3>3
      <4> QED BY <1>1, <1>3, <2>2, <4>1 DEF CheckHasAnyServerBeenFound, PacketsFit
    <3> QED BY <1>1, <3>1, <3>2, <3>3, <3>4, QuietStep DEF ClientFits
  <2> QED BY <1>3, <2>1, <2>2 DEF CheckHasAnyServerBeenFound
<1>4. CASE ServerNotConnected(c)
  <2> DEFINE left == SubSeq(me.calls, 1, Len(me.calls) - 1)
             now == [me EXCEPT !.calls = left, !.sock = NoSocket, !.gaveUp = ~me.timer]
  <2>1. me.calls # <<>> /\ UNCHANGED <<server, conn, toServer, lost, lookups, declares>>
    BY <1>4 DEF ServerNotConnected
  <2>2. /\ left \in Seq([sock : Sockets, declared : Declarations]) /\ Len(left) <= MaxCalls
        /\ \A i \in DOMAIN left : i \in DOMAIN me.calls /\ left[i] = me.calls[i]
    BY <1>1, <2>1, CallsLeft
  <2> HIDE DEF left
  <2>3. now \in ClientStates
    BY <1>1, <2>2 DEF ClientStates
  <2>4. now.runs = me.runs /\ now.sock = NoSocket /\ now.calls = left /\ now.timer = me.timer
    BY <1>1 DEF ClientStates
  <2>5. client' = [client EXCEPT ![c] = now]
    BY <1>1, <1>4 DEF ServerNotConnected, left
  <2> HIDE DEF now
  <2>6. me.runs
    BY <1>1, <2>1 DEF ClientFits
  <2>7. PacketsFit'
    <3>1. \A b \in Clients : client'[b].runs = client[b].runs
      BY <1>1, <2>4, <2>5
    <3> QED BY <1>1, <2>1, <3>1 DEF PacketsFit
  <2> QED BY <2>1, <2>2, <2>3, <2>4, <2>5, <2>6, <2>7, QuietStep
<1>5. ASSUME NEW s \in Sockets, PeerDisconnected(s), conn[s].of = c
      PROVE  Sessions'
  <2>1. UNCHANGED <<server, conn, toServer, lookups, declares>> /\ lost' \subseteq lost
    BY <1>5 DEF PeerDisconnected
  <2>2. CASE client[c].sock # s
    <3>1. client' = client
      BY <1>5, <2>2 DEF PeerDisconnected
    <3>2. PacketsFit'
      BY <1>1, <2>1, <3>1 DEF PacketsFit
    <3>3. \A t \in Sockets : QueueFits(t)'
      BY <2>1 DEF Sessions, QueueFits, Up
    <3>4. \A t \in Sockets : Tame(t)
      BY <2>1, UntouchedIsTame
    <3> QED BY <3>1, <3>2, <3>3, <3>4, SessionsFrame
  <2>3. CASE client[c].sock = s
    <3> DEFINE now == [me EXCEPT !.sock = NoSocket, !.known = <<>>, !.timer = TRUE]
    <3>1. now \in ClientStates
      BY <1>1 DEF ClientStates
    <3>2. now.runs = me.runs /\ now.sock = NoSocket /\ now.calls = me.calls
      BY <1>1 DEF ClientStates
    <3>3. client' = [client EXCEPT ![c] = now]
      BY <1>1, <1>5, <2>3 DEF PeerDisconnected
    <3> HIDE DEF now
    <3>4. me.runs
      BY <1>1, <2>3, MSSessionAssumption DEF ClientFits
    <3>5. PacketsFit'
      <4>1. \A b \in Clients : client'[b].runs = client[b].runs
        BY <1>1, <3>2, <3>3
      <4> QED BY <1>1, <2>1, <4>1 DEF PacketsFit
    <3> QED BY <1>1, <2>1, <3>1, <3>2, <3>3, <3>4, <3>5, QuietStep DEF ClientFits
  <2> QED BY <2>2, <2>3
<1> QED BY <1>2, <1>3, <1>4, <1>5

\* A client ends, alone or with a word to its server: all its connections are over.
LEMMA EndClientKeepsSessions ==
  ASSUME Records, Records', Sessions, NEW c \in Clients, EndClient(c)
  PROVE  Sessions'
<1> USE DEF Records
<1>1. PICK says \in BOOLEAN :
        toServer' = [s \in Sockets |->
          IF s \in OwnSockets(c) /\ Up(s)
          THEN toServer[s] \o (IF says /\ s = client[c].sock THEN <<"offline">> ELSE <<>>)
                           \o <<"lost">>
          ELSE toServer[s]]
  BY DEF EndClient
<1>2. /\ client' = [client EXCEPT ![c] = Ended] /\ server' = server
      /\ conn' = [s \in Sockets |->
                    IF s \in OwnSockets(c) THEN [conn[s] EXCEPT !.link = "down"] ELSE conn[s]]
      /\ lost' = { s \in lost : conn[s].of # c }
      /\ lookups' = { l \in lookups : l[1] # c }
      /\ declares' = [declares EXCEPT ![c] = [d \in Declarations |-> 0]]
  BY DEF EndClient
<1>3. PacketsFit /\ DOMAIN client = Clients /\ c # NoClient /\ client'[c] = Ended
  BY <1>2, MSSessionAssumption DEF Sessions
<1>4. PacketsFit'
  <2>1. /\ declares' \in [Clients -> [Declarations -> 0 .. MaxCopies]]
        /\ \A b \in Clients, d \in Declarations : declares'[b][d] > 0 => client'[b].runs
    <3>1. [d \in Declarations |-> 0] \in [Declarations -> 0 .. MaxCopies]
      BY MSSessionAssumption
    <3>2. declares' \in [Clients -> [Declarations -> 0 .. MaxCopies]]
      BY <1>2, <1>3, <3>1 DEF PacketsFit
    <3>3. ASSUME NEW b \in Clients, NEW d \in Declarations, declares'[b][d] > 0
          PROVE  client'[b].runs
      <4>1. CASE b = c
        <5>1. declares'[c][d] = 0
          BY <1>2, <1>3 DEF PacketsFit
        <5> QED BY <3>3, <4>1, <5>1
      <4>2. CASE b # c
        BY <1>2, <1>3, <3>3, <4>2 DEF PacketsFit
      <4> QED BY <4>1, <4>2
    <3> QED BY <3>2, <3>3
  <2>2. lost' \subseteq Sockets /\ \A s \in lost' : conn'[s].of # NoClient
    BY <1>2, <1>3 DEF PacketsFit, Types
  <2>3. \A v \in Servers : /\ server'[v].instance \in 0 .. MaxRuns
                           /\ server'[v].runs => server'[v].instance # 0
    BY <1>2, <1>3 DEF PacketsFit
  <2>4. lookups' \subseteq Clients \X Servers
    BY <1>2, <1>3 DEF PacketsFit
  <2> QED BY <2>1, <2>2, <2>3, <2>4 DEF PacketsFit
<1>5. ASSUME NEW s \in Sockets PROVE QueueFits(s)'
  <2>1. QueueFits(s)
    BY DEF Sessions
  <2>2. CASE s \notin OwnSockets(c)
    <3>1. conn'[s] = conn[s] /\ toServer'[s] = toServer[s]
      BY <1>1, <1>2, <2>2
    <3> QED BY <2>1, <3>1 DEF QueueFits, Up
  <2>3. CASE s \in OwnSockets(c)
    <3>1. conn'[s].link = "down"
      BY <1>2, <2>3 DEF Types
    <3>2. toServer'[s] \in Queues
      <4>1. CASE ~Up(s)
        BY <1>1, <2>1, <4>1 DEF QueueFits
      <4>2. CASE Up(s) /\ says /\ s = client[c].sock
        <5>1. toServer'[s] = toServer[s] \o <<"offline">> \o <<"lost">>
          BY <1>1, <2>3, <4>2
        <5>2. toServer'[s] \in {<<"offline", "lost">>, <<"online", "offline", "lost">>}
          BY <2>1, <4>2, <5>1, Said DEF QueueFits
        <5> QED BY <5>2 DEF Queues
      <4>3. CASE Up(s) /\ ~(says /\ s = client[c].sock)
        <5>1. toServer'[s] = toServer[s] \o <<>> \o <<"lost">>
          BY <1>1, <2>3, <4>3
        <5>2. toServer'[s] \in {<<"lost">>, <<"online", "lost">>}
          BY <2>1, <4>3, <5>1, Said DEF QueueFits
        <5> QED BY <5>2 DEF Queues
      <4> QED BY <4>1, <4>2, <4>3
    <3> QED BY <3>1, <3>2 DEF QueueFits, Up
  <2> QED BY <2>2, <2>3
<1>6. ASSUME NEW s \in Sockets, NEW b \in Clients \ {c}, Uses(b, s) PROVE Tame(s)
  <2>1. conn[s].of = b
    BY <1>6, UsesOwn
  <2>2. s \notin OwnSockets(c)
    BY <2>1 DEF OwnSockets
  <2>3. conn'[s] = conn[s] /\ toServer'[s] = toServer[s]
    BY <1>1, <1>2, <2>2
  <2> QED BY <1>2, <2>3, UntouchedIsTame
<1>7. ClientFits(c)' /\ SockFits(c)' /\ CallsFit(c)'
  <2>1. /\ client'[c].sock = NoSocket /\ client'[c].calls = <<>> /\ client'[c] \in ClientStates
        /\ ~client'[c].runs /\ ~client'[c].timer
    <3>1. <<>> \in Seq([sock : Sockets, declared : Declarations])
      OBVIOUS
    <3> QED BY <1>3, <3>1 DEF Ended, ClientStates
  <2>2. Len(client'[c].calls) <= MaxCalls /\ DOMAIN client'[c].calls = {}
    BY <2>1, MSSessionAssumption
  <2> QED BY <2>1, <2>2 DEF ClientFits, SockFits, CallsFit
<1> QED BY <1>2, <1>4, <1>5, <1>6, <1>7, ClientStep

\* The innermost call gets its connection: nothing has been said over it, and now the client
\* says that it is there.
LEMMA ServerConnectedKeepsSessions ==
  ASSUME Records, Records', Sessions, NEW c \in Clients, ServerConnected(c)
  PROVE  Sessions'
<1> USE DEF Records
<1>1. ClientFits(c) /\ CallsFit(c) /\ SockFits(c) /\ DOMAIN client = Clients /\ PacketsFit
  BY DEF Sessions
<1>2. PICK calls \in Seq([sock : Sockets, declared : Declarations]) : calls = client[c].calls
  BY <1>1 DEF ClientFits, ClientStates
<1>3. calls # <<>> /\ Len(calls) <= MaxCalls /\ Len(calls) \in DOMAIN calls
  <2>1. calls # <<>> /\ Len(calls) <= MaxCalls
    BY <1>1, <1>2 DEF ServerConnected, ClientFits
  <2> QED BY <2>1, EmptySeq
<1>4. PICK call \in [sock : Sockets, declared : Declarations] : call = calls[Len(calls)]
  BY <1>1, <1>2, <1>3, CallsHaveSockets
<1>5. PICK s \in Sockets : s = call.sock
  OBVIOUS
<1>6. PICK left \in Seq([sock : Sockets, declared : Declarations]) :
        /\ left = SubSeq(calls, 1, Len(calls) - 1) /\ Len(left) <= MaxCalls
        /\ \A i \in DOMAIN left : i \in DOMAIN calls /\ i # Len(calls) /\ left[i] = calls[i]
  BY <1>3, CallsLeft
<1> DEFINE now == [client[c] EXCEPT !.calls = left, !.sock = s, !.known = call.declared,
                                    !.timer = FALSE, !.gaveUp = FALSE]
<1>7. /\ client' = [client EXCEPT ![c] = now] /\ Up(s)
      /\ toServer' = [toServer EXCEPT ![s] = Append(@, "online")]
      /\ UNCHANGED <<server, conn, lost, lookups, declares>>
  BY <1>1, <1>2, <1>4, <1>5, <1>6 DEF ServerConnected
<1>8. /\ now \in ClientStates /\ now.calls = left /\ now.sock = s /\ ~now.timer
      /\ now.runs = client[c].runs
  BY <1>1, <1>5 DEF ClientFits, ClientStates
<1> HIDE DEF now
<1>9. client[c].runs /\ client'[c] = now
  BY <1>1, <1>2, <1>3, <1>7 DEF ClientFits
<1>10. conn[s].of = c /\ toServer[s] = <<>>
  <2>1. conn[s].of = c /\ (conn[s].link # "down" => toServer[s] = <<>>)
    BY <1>1, <1>2, <1>3, <1>4, <1>5 DEF CallsFit
  <2> QED BY <1>7, <2>1 DEF Up
<1>11. toServer'[s] = <<"online">> /\ \A t \in Sockets \ {s} : toServer'[t] = toServer[t]
  <2>1. toServer'[s] = Append(<<>>, "online")
    BY <1>7, <1>10 DEF Types
  <2> QED BY <1>7, <2>1, Said DEF Types
<1>12. PacketsFit'
  <2>1. \A b \in Clients : client'[b].runs = client[b].runs
    BY <1>1, <1>7, <1>8
  <2> QED BY <1>1, <1>7, <2>1 DEF PacketsFit
<1>13. ASSUME NEW t \in Sockets PROVE QueueFits(t)'
  <2>1. QueueFits(t) /\ conn'[t] = conn[t]
    BY <1>7 DEF Sessions
  <2>2. CASE t = s
    <3>1. conn'[t].link = "up" /\ toServer'[t] = <<"online">>
      BY <1>7, <1>11, <2>2 DEF Up
    <3> QED BY <3>1 DEF QueueFits, Queues, Up
  <2>3. CASE t # s
    BY <1>11, <2>1, <2>3 DEF QueueFits, Up
  <2> QED BY <2>2, <2>3
<1>14. ASSUME NEW t \in Sockets, t # s PROVE Tame(t)
  BY <1>7, <1>11, <1>14, UntouchedIsTame
<1>15. \A t \in Sockets, b \in Clients \ {c} : Uses(b, t) => Tame(t)
  BY <1>10, <1>14, UsesOwn
<1>16. ClientFits(c)'
  BY <1>6, <1>8, <1>9 DEF ClientFits
<1>17. SockFits(c)'
  <2>1. conn'[s].of = c /\ conn'[s].link = "up"
    BY <1>7, <1>10 DEF Up
  <2>2. client'[c].sock = s
    BY <1>8, <1>9
  <2> QED BY <1>11, <2>1, <2>2 DEF SockFits, Up
<1>18. CallsFit(c)'
  <2>1. ASSUME NEW i \in DOMAIN client'[c].calls
        PROVE  /\ i \in DOMAIN client[c].calls /\ client'[c].calls[i] = client[c].calls[i]
               /\ client[c].calls[i].sock \in Sockets
               /\ client[c].calls[i].sock # client'[c].sock
               /\ Tame(client[c].calls[i].sock)
    <3>1. /\ i \in DOMAIN client[c].calls /\ i # Len(calls)
          /\ client'[c].calls[i] = client[c].calls[i]
      BY <1>2, <1>6, <1>8, <1>9
    <3>2. PICK t \in Sockets : t = client[c].calls[i].sock
      BY <1>1, <3>1, CallsHaveSockets
    <3>3. t # s
      BY <1>1, <1>2, <1>3, <1>4, <1>5, <3>1, <3>2 DEF CallsFit
    <3>4. Tame(t)
      BY <1>14, <3>3
    <3> QED BY <1>8, <1>9, <3>1, <3>2, <3>3, <3>4
  <2> QED BY <1>1, <2>1, CallsStayFit
<1> QED BY <1>7, <1>12, <1>13, <1>15, <1>16, <1>17, <1>18, ClientStep

\* A client leaves its server for another: it asks for a connection over a socket that nobody
\* uses, and what was said over the one that it leaves ends with the loss.
LEMMA ServerFoundKeepsSessions ==
  ASSUME Records, Records', Sessions, NEW c \in Clients, NEW d \in Declarations,
         ServerFound(c, d)
  PROVE  Sessions'
<1> USE DEF Records
<1>1. ClientFits(c) /\ CallsFit(c) /\ SockFits(c) /\ DOMAIN client = Clients /\ PacketsFit
  BY DEF Sessions
<1>2. /\ declares' = [declares EXCEPT ![c][d] = @ - 1] /\ declares[c][d] > 0
      /\ UNCHANGED <<server, lost, lookups>>
  BY DEF ServerFound
<1>3. /\ declares' \in [Clients -> [Declarations -> 0 .. MaxCopies]]
      /\ \A b \in Clients, e \in Declarations : declares'[b][e] > 0 => client[b].runs
      /\ client[c].runs
  <2>1. /\ declares \in [Clients -> [Declarations -> 0 .. MaxCopies]]
        /\ \A b \in Clients, e \in Declarations : declares[b][e] > 0 => client[b].runs
    BY <1>1 DEF PacketsFit
  <2>2. declares[c][d] - 1 \in 0 .. MaxCopies
    BY <1>2, <2>1, MSSessionAssumption
  <2>3. declares' \in [Clients -> [Declarations -> 0 .. MaxCopies]]
    BY <1>2, <2>1, <2>2
  <2>4. ASSUME NEW b \in Clients, NEW e \in Declarations, declares'[b][e] > 0
        PROVE  declares[b][e] > 0
    BY <1>2, <2>1, <2>4
  <2> QED BY <1>2, <2>1, <2>3, <2>4
<1>4. CASE UNCHANGED <<client, conn, toServer>>
  <2>1. PacketsFit'
    BY <1>1, <1>2, <1>3, <1>4 DEF PacketsFit
  <2> QED BY <1>2, <1>4, <2>1, PacketsKeepSessions
<1>5. CASE ~(Served(c) /\ client[c].known = d)
  <2>1. PICK s \in Sockets :
          /\ Unused(s)
          /\ client' = [client EXCEPT
               ![c].calls = Append(@, [sock |-> s, declared |-> d]),
               ![c].sock = NoSocket,
               ![c].known = <<>>]
          /\ conn' = [t \in Sockets |->
               IF t = s THEN [link |-> "connecting", of |-> c, at |-> d[1]]
               ELSE IF t = client[c].sock THEN [conn[t] EXCEPT !.link = "down"]
               ELSE conn[t]]
          /\ toServer' = [t \in Sockets |->
               IF t = client[c].sock /\ Up(t) THEN Append(toServer[t], "lost")
               ELSE toServer[t]]
    BY <1>5 DEF ServerFound
  <2>2. Len(client[c].calls) < MaxCalls
    BY <1>5 DEF ServerFound
  <2>3. PICK calls \in Seq([sock : Sockets, declared : Declarations]) : calls = client[c].calls
    BY <1>1 DEF ClientFits, ClientStates
  <2>4. PICK call \in [sock : Sockets, declared : Declarations] :
          call = [sock |-> s, declared |-> d] /\ call.sock = s
    <3>1. [sock |-> s, declared |-> d] \in [sock : Sockets, declared : Declarations]
      OBVIOUS
    <3>2. [sock |-> s, declared |-> d].sock = s
      OBVIOUS
    <3> QED BY <3>1, <3>2
  <2>5. PICK more \in Seq([sock : Sockets, declared : Declarations]) :
          /\ more = Append(calls, call) /\ Len(more) <= MaxCalls
          /\ DOMAIN more = DOMAIN calls \cup {Len(calls) + 1} /\ more[Len(calls) + 1] = call
          /\ \A i \in DOMAIN calls : more[i] = calls[i] /\ i # Len(calls) + 1
    <3>1. /\ Append(calls, call) \in Seq([sock : Sockets, declared : Declarations])
          /\ Len(Append(calls, call)) = Len(calls) + 1
          /\ \A i \in 1 .. Len(calls) : Append(calls, call)[i] = calls[i]
          /\ Append(calls, call)[Len(calls) + 1] = call
      BY AppendProperties
    <3>2. Len(calls) \in Nat /\ Len(calls) + 1 <= MaxCalls /\ DOMAIN calls = 1 .. Len(calls)
      BY <2>2, <2>3, MSSessionAssumption
    <3>3. DOMAIN Append(calls, call) = 1 .. Len(calls) + 1
      BY <3>1
    <3>4. /\ DOMAIN Append(calls, call) = DOMAIN calls \cup {Len(calls) + 1}
          /\ \A i \in DOMAIN calls : i # Len(calls) + 1
      BY <3>2, <3>3
    <3>5. Len(Append(calls, call)) <= MaxCalls
      BY <3>1, <3>2
    <3>6. \A i \in DOMAIN calls : Append(calls, call)[i] = calls[i]
      BY <3>1, <3>2
    <3>7. PICK more \in Seq([sock : Sockets, declared : Declarations]) : more = Append(calls, call)
      BY <3>1
    <3> QED BY <3>1, <3>4, <3>5, <3>6, <3>7
  <2> DEFINE now == [client[c] EXCEPT !.calls = more, !.sock = NoSocket, !.known = <<>>]
  <2>6. client' = [client EXCEPT ![c] = now]
    BY <1>1, <2>1, <2>3, <2>4, <2>5
  <2>7. /\ now \in ClientStates /\ now.calls = more /\ now.sock = NoSocket
        /\ now.runs = client[c].runs
    BY <1>1 DEF ClientFits, ClientStates
  <2> HIDE DEF now
  <2>8. client'[c] = now
    BY <1>1, <2>6
  <2>9. PICK old \in Sockets \cup {NoSocket} : old = client[c].sock
    BY <1>1 DEF ClientFits, ClientStates
  <2>10. /\ toServer[s] = <<>> /\ s # old
         /\ \A b \in Clients :
              client[b].sock # s /\ \A i \in 1 .. Len(client[b].calls) : client[b].calls[i].sock # s
    BY <2>1, <2>9 DEF Unused
  <2>11. /\ conn'[s] = [link |-> "connecting", of |-> c, at |-> d[1]] /\ toServer'[s] = <<>>
         /\ \A t \in Sockets \ {s, old} : conn'[t] = conn[t] /\ toServer'[t] = toServer[t]
    BY <2>1, <2>9, <2>10
  <2>12. ASSUME old \in Sockets
         PROVE  /\ conn[old].of = c /\ conn'[old].of = c /\ conn'[old].link = "down"
                /\ toServer'[old] \in Queues
    <3>1. conn[old].of = c /\ QueueFits(old)
      BY <1>1, <2>9, <2>12, MSSessionAssumption DEF SockFits, Sessions
    <3>2. conn'[old].of = c /\ conn'[old].link = "down"
      BY <2>1, <2>9, <2>10, <2>12, <3>1 DEF Types
    <3>3. toServer'[old] \in Queues
      <4>1. CASE Up(old)
        <5>1. toServer'[old] = Append(toServer[old], "lost")
          BY <2>1, <2>9, <2>12, <4>1
        <5>2. toServer'[old] \in {<<"lost">>, <<"online", "lost">>}
          BY <3>1, <4>1, <5>1, Said DEF QueueFits
        <5> QED BY <5>2 DEF Queues
      <4>2. CASE ~Up(old)
        BY <2>1, <2>9, <2>12, <3>1, <4>2 DEF QueueFits
      <4> QED BY <4>1, <4>2
    <3> QED BY <3>1, <3>2, <3>3
  <2>13. PacketsFit'
    <3>1. \A b \in Clients : client'[b].runs = client[b].runs
      BY <1>1, <2>6, <2>7
    <3>2. \A t \in lost : conn'[t].of # NoClient
      <4>1. ASSUME NEW t \in lost PROVE conn'[t].of # NoClient
        <5>1. t \in Sockets /\ conn[t].of # NoClient /\ c # NoClient
          BY <1>1, MSSessionAssumption DEF PacketsFit
        <5>2. t \in {s, old} => conn'[t].of = c
          BY <2>11, <2>12, <5>1
        <5> QED BY <2>11, <5>1, <5>2
      <4> QED BY <4>1
    <3> QED BY <1>1, <1>2, <1>3, <3>1, <3>2 DEF PacketsFit
  <2>14. ASSUME NEW t \in Sockets PROVE QueueFits(t)'
    <3>1. CASE t = s
      BY <2>11, <3>1 DEF QueueFits, Queues, Up
    <3>2. CASE t = old
      BY <2>12, <3>2 DEF QueueFits, Up
    <3>3. CASE t \notin {s, old}
      <4>1. QueueFits(t) /\ conn'[t] = conn[t] /\ toServer'[t] = toServer[t]
        BY <2>11, <3>3 DEF Sessions
      <4> QED BY <4>1 DEF QueueFits, Up
    <3> QED BY <3>1, <3>2, <3>3
  <2>15. ASSUME NEW t \in Sockets \ {s, old} PROVE Tame(t)
    BY <1>2, <2>11, UntouchedIsTame
  <2>16. ASSUME NEW t \in Sockets, NEW b \in Clients \ {c}, Uses(b, t) PROVE Tame(t)
    <3>1. conn[t].of = b
      BY <2>16, UsesOwn
    <3>2. t # old
      BY <2>12, <3>1
    <3>3. t # s
      <4>1. PICK theirs \in Seq([sock : Sockets, declared : Declarations]) :
              theirs = client[b].calls
        BY DEF Sessions, ClientFits, ClientStates
      <4>2. DOMAIN theirs = 1 .. Len(theirs)
        OBVIOUS
      <4> QED BY <2>10, <2>16, <4>1, <4>2 DEF Uses
    <3> QED BY <2>15, <3>2, <3>3
  <2>17. ClientFits(c)' /\ SockFits(c)'
    BY <1>3, <2>5, <2>7, <2>8 DEF ClientFits, SockFits
  <2>18. CallsFit(c)'
    <3>1. ASSUME NEW i \in DOMAIN calls
          PROVE  /\ calls[i].sock \in Sockets /\ calls[i].sock # s
                 /\ conn'[calls[i].sock].of = c
                 /\ conn'[calls[i].sock].link # "down" => toServer'[calls[i].sock] = <<>>
      <4>1. PICK t \in Sockets : t = calls[i].sock /\ t # old
        BY <1>1, <2>3, <2>9, CallsHaveSockets
      <4>2. t # s
        <5>1. DOMAIN calls = 1 .. Len(calls)
          OBVIOUS
        <5> QED BY <2>3, <2>10, <4>1, <5>1
      <4>3. conn'[t] = conn[t] /\ toServer'[t] = toServer[t]
        BY <2>11, <4>1, <4>2
      <4>4. conn[t].of = c /\ (conn[t].link # "down" => toServer[t] = <<>>)
        BY <1>1, <2>3, <4>1 DEF CallsFit
      <4> QED BY <4>1, <4>2, <4>3, <4>4
    <3>2. \A i, j \in DOMAIN calls : calls[i].sock = calls[j].sock => i = j
      BY <1>1, <2>3 DEF CallsFit
    <3>3. ASSUME NEW i \in DOMAIN more
          PROVE  /\ conn'[more[i].sock].of = c /\ more[i].sock # NoSocket
                 /\ conn'[more[i].sock].link # "down" => toServer'[more[i].sock] = <<>>
      <4>1. CASE i \in DOMAIN calls
        BY <2>5, <3>1, <4>1, MSSessionAssumption
      <4>2. CASE i = Len(calls) + 1
        <5>1. more[i].sock = s
          BY <2>4, <2>5, <4>2
        <5> QED BY <2>11, <5>1, MSSessionAssumption
      <4> QED BY <2>5, <4>1, <4>2
    <3>4. ASSUME NEW i \in DOMAIN more, NEW j \in DOMAIN more, more[i].sock = more[j].sock
          PROVE  i = j
      BY <2>4, <2>5, <3>1, <3>2, <3>4
    <3> QED BY <2>7, <2>8, <3>3, <3>4 DEF CallsFit
  <2> QED BY <1>2, <2>6, <2>13, <2>14, <2>16, <2>17, <2>18, ClientStep
<1> QED BY <1>4, <1>5 DEF ServerFound

\* UDP packets that arrive or are lost.
LEMMA PacketStepsKeepSessions ==
  ASSUME Records, Records', Sessions, NEW c \in Clients,
         \/ \E v \in Servers : LookedUp(c, v) \/ LoseLookup(c, v)
         \/ \E d \in Declarations : LoseDeclaration(c, d)
  PROVE  Sessions'
<1>1. PacketsFit
  BY DEF Sessions
<1>2. ASSUME NEW v \in Servers, LookedUp(c, v) PROVE Sessions'
  <2>1. /\ UNCHANGED <<server, client, conn, toServer, lost>> /\ lookups' \subseteq lookups
        /\ server[v].runs
    BY <1>2 DEF LookedUp
  <2>2. PICK d \in Declarations : d = <<v, server[v].instance>>
    <3>1. PICK n \in 1 .. MaxRuns : n = server[v].instance
      BY <1>1, <2>1, MSSessionAssumption DEF PacketsFit
    <3> QED BY <3>1 DEF Declarations
  <2>3. declares' = Declared({c}, d, 1)
    BY <1>2, <2>2 DEF LookedUp
  <2>4. PacketsFit'
    BY <1>1, <2>1, <2>3, DeclaredFits DEF PacketsFit
  <2> QED BY <2>1, <2>4, PacketsKeepSessions
<1>3. ASSUME NEW v \in Servers, LoseLookup(c, v) PROVE Sessions'
  <2>1. PacketsFit'
    BY <1>1, <1>3 DEF LoseLookup, PacketsFit
  <2> QED BY <1>3, <2>1, PacketsKeepSessions DEF LoseLookup
<1>4. ASSUME NEW d \in Declarations, LoseDeclaration(c, d) PROVE Sessions'
  <2>1. /\ declares' = [declares EXCEPT ![c][d] = @ - 1] /\ declares[c][d] > 0
        /\ UNCHANGED <<server, client, conn, toServer, lost, lookups>>
    BY <1>4 DEF LoseDeclaration
  <2>2. /\ declares \in [Clients -> [Declarations -> 0 .. MaxCopies]]
        /\ \A b \in Clients, e \in Declarations : declares[b][e] > 0 => client[b].runs
    BY <1>1 DEF PacketsFit
  <2>3. declares[c][d] - 1 \in 0 .. MaxCopies
    BY <2>1, <2>2, MSSessionAssumption
  <2>4. declares' \in [Clients -> [Declarations -> 0 .. MaxCopies]]
    BY <2>1, <2>2, <2>3
  <2>5. ASSUME NEW b \in Clients, NEW e \in Declarations, declares'[b][e] > 0
        PROVE  declares[b][e] > 0
    BY <2>1, <2>2, <2>5
  <2>6. PacketsFit'
    BY <1>1, <2>1, <2>2, <2>4, <2>5 DEF PacketsFit
  <2> QED BY <2>1, <2>6, PacketsKeepSessions
<1> QED BY <1>2, <1>3, <1>4

-----------------------------------------------------------------------------
\* With the records that are true, what the clients and the connections are to each other is
\* an inductive invariant.
THEOREM SessionsHold == Spec => []Sessions
<1>1. Init => Sessions
  <2> SUFFICES ASSUME Init PROVE Sessions
    OBVIOUS
  <2>1. PacketsFit
    <3>1. [d \in Declarations |-> 0] \in [Declarations -> 0 .. MaxCopies]
      BY MSSessionAssumption
    <3> QED BY <3>1, MSSessionAssumption DEF Init, PacketsFit
  <2>2. \A s \in Sockets : QueueFits(s)
    BY DEF Init, QueueFits, Queues, Up
  <2>3. ASSUME NEW c \in Clients PROVE ClientFits(c) /\ SockFits(c) /\ CallsFit(c)
    <3>1. client[c] = Ended /\ <<>> \in Seq([sock : Sockets, declared : Declarations])
      BY DEF Init
    <3>2. /\ client[c].sock = NoSocket /\ client[c].calls = <<>> /\ client[c] \in ClientStates
          /\ ~client[c].runs /\ ~client[c].timer
      BY <3>1 DEF Ended, ClientStates
    <3>3. Len(client[c].calls) <= MaxCalls /\ DOMAIN client[c].calls = {}
      BY <3>2, MSSessionAssumption
    <3> QED BY <3>2, <3>3 DEF ClientFits, SockFits, CallsFit
  <2> QED BY <2>1, <2>2, <2>3 DEF Init, Sessions
<1>2. Records /\ Records' /\ Sessions /\ [Next]_vars => Sessions'
  <2> SUFFICES ASSUME Records, Records', Sessions, [Next]_vars PROVE Sessions'
    OBVIOUS
  <2>1. ASSUME NEW s \in Sockets, Connected(s) \/ NotConnected(s) \/ Break(s) \/ Handle(s)
        PROVE  Sessions'
    BY <2>1, NetworkKeepsSessions, HandlersKeepSessions
  <2>2. ASSUME NEW s \in Sockets, PeerDisconnected(s)
        PROVE  Sessions'
    <3>1. PICK c \in Clients : conn[s].of = c
      BY <2>2 DEF PeerDisconnected, Sessions, PacketsFit, Records, Types
    <3> QED BY <2>2, <3>1, QuietStepsKeepSessions
  <2>3. ASSUME NEW v \in Servers, SendServerOnline(v) \/ StartServer(v) \/ EndServer(v)
        PROVE  Sessions'
    BY <2>3, ServerKeepsSessions
  <2>4. ASSUME NEW c \in Clients,
               \/ StartClient(c) \/ CheckHasAnyServerBeenFound(c) \/ ServerNotConnected(c)
        PROVE  Sessions'
    BY <2>4, QuietStepsKeepSessions
  <2>5. ASSUME NEW c \in Clients, EndClient(c) PROVE Sessions'
    BY <2>5, EndClientKeepsSessions
  <2>6. ASSUME NEW c \in Clients, ServerConnected(c) PROVE Sessions'
    BY <2>6, ServerConnectedKeepsSessions
  <2>7. ASSUME NEW c \in Clients,
               \/ \E v \in Servers : LookedUp(c, v) \/ LoseLookup(c, v)
               \/ \E d \in Declarations : LoseDeclaration(c, d)
        PROVE  Sessions'
    BY <2>7, PacketStepsKeepSessions
  <2>8. ASSUME NEW c \in Clients, NEW d \in Declarations, ServerFound(c, d) PROVE Sessions'
    BY <2>8, ServerFoundKeepsSessions
  <2>9. CASE UNCHANGED vars
    <3>1. UNCHANGED <<server, client, conn, toServer, lost, lookups, declares>>
      BY <2>9 DEF vars
    <3>2. PacketsFit'
      BY <3>1 DEF Sessions, PacketsFit
    <3> QED BY <3>1, <3>2, PacketsKeepSessions
  <2> QED BY <2>1, <2>2, <2>3, <2>4, <2>5, <2>6, <2>7, <2>8, <2>9 DEF Next
<1> QED BY <1>1, <1>2, RecordsHold, PTL DEF Spec

\* A client that takes itself for connected is recorded by its server, or about to be, as long
\* as the connection works.
THEOREM ServedAreRecorded == Spec => []ServedIsRecorded
<1>1. Records /\ Sessions => ServedIsRecorded
  <2> SUFFICES ASSUME Sessions, NEW c \in Clients, Served(c)
               PROVE  \/ server[conn[client[c].sock].at].records[client[c].sock] = c
                      \/ \E i \in DOMAIN toServer[client[c].sock] :
                           toServer[client[c].sock][i] = "online"
    BY DEF ServedIsRecorded
  <2>1. PICK s : s = client[c].sock
    OBVIOUS
  <2>2. server[conn[s].at].records[s] = c \/ toServer[s] = <<"online">>
    BY <2>1 DEF Sessions, SockFits, Served
  <2>3. 1 \in DOMAIN <<"online">> /\ <<"online">>[1] = "online"
    OBVIOUS
  <2>4. \/ server[conn[s].at].records[s] = c
        \/ \E i \in DOMAIN toServer[s] : toServer[s][i] = "online"
    BY <2>2, <2>3
  <2> QED BY <2>1, <2>4
<1> QED BY <1>1, RecordsHold, SessionsHold, PTL

\* The state is what the members of the two programs allow.
THEOREM TypesCorrect == Spec => []TypeOK
<1>1. Records /\ Sessions => TypeOK
  <2> SUFFICES ASSUME Records, Sessions PROVE TypeOK
    OBVIOUS
  <2>1. PacketsFit /\ \A s \in Sockets : toServer[s] \in Queues
    BY DEF Sessions, QueueFits
  <2>2. \A v \in Servers :
          /\ server[v].runs \in BOOLEAN /\ server[v].instance \in 0 .. MaxRuns
          /\ server[v].records \in [Sockets -> Clients \cup {NoClient}]
    BY <2>1 DEF PacketsFit, Records, Types
  <2>3. \A c \in Clients :
          /\ client[c].sock \in Sockets \cup {NoSocket}
          /\ client[c].known \in Declarations \cup {<<>>}
          /\ Len(client[c].calls) <= MaxCalls
          /\ client[c].timer => client[c].runs
    BY DEF Sessions, ClientFits, ClientStates
  <2> QED BY <2>1, <2>2, <2>3 DEF TypeOK, PacketsFit, Records, Types
<1> QED BY <1>1, RecordsHold, SessionsHold, PTL
=============================================================================
