------------------------- MODULE UDTTransportProofs -------------------------
(***************************************************************************)
(* Theorems on UDTTransport, for any sockets and streams.                  *)
(***************************************************************************)
EXTENDS UDTTransport, SequenceProofs

\* The thread counts for as long as it is in waitForIO(), it runs in a round only while there
\* is an epoll, and there is one from listen() until the count is 0 after m_listening is.
LifeCycle ==
  /\ phase \in {"new", "listening", "closing", "closed"}
  /\ listening \in BOOLEAN /\ (listening <=> phase = "listening")
  /\ epoll \in BOOLEAN /\ (epoll <=> phase \in {"listening", "closing"})
  /\ io \in Outside \cup Within
  /\ count = IF io \in Within THEN 1 ELSE 0
  /\ io # "idle" => phase # "new"
  /\ io \in Within \ {"check"} => epoll

\* The library and the application's closeSocket() leave the life cycle alone.
LEMMA LibraryLeavesLifeCycle ==
  ASSUME NEW s \in Sockets, LifeCycle, Library(s) \/ Drop(s)
  PROVE  LifeCycle'
<1>1. UNCHANGED <<owner, count, io>>
  BY DEF Library, Connect, Arrive, Shutdown, Expire, Fill, Acknowledge, Collect, RemoveSocket, Drop
<1> QED BY <1>1 DEF LifeCycle, owner

\* No step of the thread but its first and its last changes what the life cycle is about.
LEMMA ThreadKeepsLifeCycle ==
  ASSUME LifeCycle, WaitForIO
  PROVE  LifeCycle'
<1> USE DEF LifeCycle, owner, Outside, Within, Goes
<1>1. CASE Enter BY <1>1 DEF Enter
<1>2. CASE Check
  <2>1. CASE listening BY <1>2, <2>1 DEF Check
  <2>2. CASE ~listening BY <1>2, <2>2 DEF Check
  <2> QED BY <2>1, <2>2
<1>3. CASE Accept BY <1>3 DEF Accept
<1>4. CASE Add BY <1>4 DEF Add
<1>5. CASE Wait BY <1>5 DEF Wait
<1>6. CASE ServeRead
  <2>1. /\ UNCHANGED <<owner, count>>
        /\ io = "serve" /\ io' \in {"receive", "serve"}
    BY <1>6 DEF ServeRead, Lose
  <2> QED BY <2>1
<1>7. CASE ServeWrite
  <2>1. /\ UNCHANGED <<owner, count>>
        /\ io = "serve" /\ io' = "serve"
    BY <1>7 DEF ServeWrite, Lose
  <2> QED BY <2>1
<1>8. CASE ServedAll BY <1>8 DEF ServedAll
<1>9. CASE Receive
  <2>1. /\ UNCHANGED <<owner, count>>
        /\ io = "receive" /\ io' \in {"look", "serve"}
    BY <1>9 DEF Receive
  <2> QED BY <2>1
<1>10. CASE LookUp BY <1>10 DEF LookUp
<1>11. CASE Parse BY <1>11 DEF Parse
<1> QED
  BY <1>1, <1>2, <1>3, <1>4, <1>5, <1>6, <1>7, <1>8, <1>9, <1>10, <1>11 DEF WaitForIO

\* The life cycle of the epoll and the thread of waitForIO() is an inductive invariant.
THEOREM LifeCycleHolds == Spec => []LifeCycle
<1>1. Init => LifeCycle
  BY DEF Init, LifeCycle, Outside, Within
<1>2. LifeCycle /\ [Next]_vars => LifeCycle'
  <2> SUFFICES ASSUME LifeCycle, [Next]_vars PROVE LifeCycle'
    OBVIOUS
  <2> USE DEF LifeCycle, owner, Outside, Within
  <2>1. CASE Listen BY <2>1 DEF Listen
  <2>2. CASE StartWaiting BY <2>2 DEF StartWaiting
  <2>3. CASE Close BY <2>3 DEF Close
  <2>4. CASE Closed
    <3>1. /\ phase = "closing" /\ phase' = "closed"
          /\ epoll' = FALSE
          /\ UNCHANGED <<listening, count, io>>
          /\ count = 0
      BY <2>4 DEF Closed, Release
    <3>2. io \notin Within
      BY <3>1
    <3> QED BY <3>1, <3>2
  <2>5. CASE WaitForIO BY <2>5, ThreadKeepsLifeCycle
  <2>6. CASE \E s \in Sockets : Library(s) \/ Drop(s) BY <2>6, LibraryLeavesLifeCycle
  <2>7. CASE UNCHANGED vars BY <2>7 DEF vars
  <2> QED BY <2>1, <2>2, <2>3, <2>4, <2>5, <2>6, <2>7 DEF Next
<1> QED BY <1>1, <1>2, PTL DEF Spec

\* waitForIO() uses no epoll and no listening socket that close() has released.
THEOREM NothingIsUsedAfterRelease == Spec => []NoUseAfterRelease
<1>1. LifeCycle => NoUseAfterRelease
  BY DEF LifeCycle, NoUseAfterRelease
<1> QED BY <1>1, LifeCycleHolds, PTL

-----------------------------------------------------------------------------
(* What is signalled of a socket                                           *)

Numbers == Nat \ {0}

\* The types of what becomes a signal.
Streams ==
  /\ status \in [Sockets -> States]
  /\ came \in [Sockets -> Nat] /\ taken \in [Sockets -> Nat]
  /\ cache \in [Sockets -> Seq(Numbers) \cup {NoCache}]
  /\ hand \in Seq(Numbers)
  /\ peer \in Sockets \cup {NoSocket}
  /\ signals \in [Sockets -> Seq(Int)]

IsLost(s) == \E i \in DOMAIN signals[s] : signals[s][i] = Disconnected

\* A socket is signalled when it gets into the epoll, out of which all others come; the loss
\* of one is signalled by the step that closes it, or after that, and blocks only of one that
\* was connected when its turn came and that nobody but the thread could have signalled lost.
Order ==
  /\ reads \cup writes \subseteq watched
  /\ watched \cup readfds \cup writefds \subseteq { s \in Sockets : signals[s] # <<>> }
  /\ \A s \in Sockets :
       /\ status[s] \in {"none", "queued"} => signals[s] = <<>>
       /\ IsLost(s) => status[s] \in {"closed", "removed"}
  /\ io = "add" => peer \in Sockets /\ signals[peer] = <<>>
                 /\ status[peer] \notin {"none", "queued"}
  /\ io \in {"receive", "look", "parse"} =>
       peer \in Sockets /\ signals[peer] # <<>> /\ ~IsLost(peer)

Ordered == Streams /\ Order /\ LossIsLast

\* Whole blocks are a number of blocks, and numbered from 1.
LEMMA BlocksAreNumbers ==
  ASSUME NEW units \in Seq(Numbers)
  PROVE  /\ WholeBlocks(units) \in Nat
         /\ WholeBlocks(units) * Parts <= Len(units)
         /\ \A u \in Numbers : BlockOf(u) \in Numbers
  BY UDTTransportAssumption DEF WholeBlocks, BlockOf, Numbers

\* What the library, the application and the rest of the event loop do signals nothing.
LEMMA OthersKeepOrder ==
  ASSUME Ordered, UNCHANGED <<io, hand, peer, signals>>,
         came' \in [Sockets -> Nat], UNCHANGED taken,
         cache' \in [Sockets -> Seq(Numbers) \cup {NoCache}],
         status' \in [Sockets -> States],
         reads' \cup writes' \subseteq watched',
         watched' \cup readfds' \cup writefds' \subseteq watched \cup readfds \cup writefds,
         \A s \in Sockets :
           /\ status'[s] \in {"none", "queued"} => status[s] \in {"none", "queued"}
           /\ status[s] \in {"closed", "removed"} => status'[s] \in {"closed", "removed"}
  PROVE  Ordered'
<1>1. Streams' BY DEF Ordered, Streams
<1>2. Order' BY DEF Ordered, Order, Streams, IsLost
<1>3. LossIsLast' BY DEF Ordered, LossIsLast
<1> QED BY <1>1, <1>2, <1>3 DEF Ordered

LEMMA LibraryKeepsOrder ==
  ASSUME Ordered, NEW s \in Sockets, Library(s)
  PROVE  Ordered'
<1> USE DEF Ordered, Streams, Order, round, atHand, States
<1>1. CASE Connect(s)
  <2>1. UNCHANGED <<io, hand, peer, signals, came, taken, cache, watched, reads, writes,
                    readfds, writefds>>
    BY <1>1 DEF Connect
  <2>2. status[s] = "none" /\ status' = [status EXCEPT ![s] = "queued"]
    BY <1>1 DEF Connect
  <2> QED BY <2>1, <2>2, OthersKeepOrder
<1>2. CASE Arrive(s)
  <2>1. UNCHANGED <<io, hand, peer, signals, status, taken, cache, watched, writes, readfds,
                    writefds>>
    BY <1>2 DEF Arrive
  <2>2. came' \in [Sockets -> Nat] /\ reads' \subseteq watched
    BY <1>2 DEF Arrive, Ready
  <2> QED BY <2>1, <2>2, OthersKeepOrder
<1>3. CASE Shutdown(s)
  <2>1. UNCHANGED <<io, hand, peer, signals, came, taken, cache, watched, reads, writes,
                    readfds, writefds>>
    BY <1>3 DEF Shutdown
  <2>2. status[s] = "connected" /\ status' = [status EXCEPT ![s] = "broken"]
    BY <1>3 DEF Shutdown
  <2> QED BY <2>1, <2>2, OthersKeepOrder
<1>4. CASE Expire(s)
  <2>1. UNCHANGED <<io, hand, peer, signals, came, taken, cache, watched, readfds, writefds>>
    BY <1>4 DEF Expire
  <2>2. status[s] = "connected" /\ status' = [status EXCEPT ![s] = "broken"]
    BY <1>4 DEF Expire
  <2>3. reads' \cup writes' \subseteq watched
    BY <1>4 DEF Expire, Ready
  <2> QED BY <2>1, <2>2, <2>3, OthersKeepOrder
<1>5. CASE Fill(s) \/ Acknowledge(s)
  <2>1. UNCHANGED <<io, hand, peer, signals, came, taken, cache, status, watched, reads,
                    readfds, writefds>>
    BY <1>5 DEF Fill, Acknowledge
  <2>2. writes' \subseteq watched
    BY <1>5 DEF Fill, Acknowledge, Ready
  <2> QED BY <2>1, <2>2, OthersKeepOrder
<1>6. CASE Collect(s)
  <2>1. UNCHANGED <<io, hand, peer, signals, came, taken, cache, watched, reads, writes,
                    readfds, writefds>>
    BY <1>6 DEF Collect
  <2>2. status[s] = "broken" /\ status' = [status EXCEPT ![s] = "closed"]
    BY <1>6 DEF Collect
  <2> QED BY <2>1, <2>2, OthersKeepOrder
<1>7. CASE RemoveSocket(s)
  <2>1. UNCHANGED <<io, hand, peer, signals, came, taken, cache, readfds, writefds>>
    BY <1>7 DEF RemoveSocket
  <2>2. status' = [status EXCEPT ![s] = "removed"]
    BY <1>7 DEF RemoveSocket
  <2>3. /\ watched' = watched \ {s} /\ reads' = reads \ {s} /\ writes' = writes \ {s}
    BY <1>7 DEF RemoveSocket
  <2> QED BY <2>1, <2>2, <2>3, OthersKeepOrder
<1> QED BY <1>1, <1>2, <1>3, <1>4, <1>5, <1>6, <1>7 DEF Library

\* What closeSocket() does, whoever calls it.
LEMMA ClosedSockets ==
  ASSUME Ordered, NEW s \in Sockets, CloseSocket(s)
  PROVE  /\ status' \in [Sockets -> States]
         /\ cache' \in [Sockets -> Seq(Numbers) \cup {NoCache}]
         /\ reads' \cup writes' \subseteq watched' /\ watched' \subseteq watched
         /\ \A t \in Sockets :
              /\ status'[t] \in {"none", "queued"} => status[t] \in {"none", "queued"}
              /\ status[t] \in {"closed", "removed"} => status'[t] \in {"closed", "removed"}
         /\ status[s] \in {"broken", "closed"} => status'[s] = "closed"
  BY DEF CloseSocket, Located, Ordered, Streams, Order, States

\* So may the event loop do whatever it does.
LEMMA OwnerKeepsOrder ==
  ASSUME Ordered,
         \/ Listen \/ StartWaiting \/ Close \/ Closed
         \/ \E s \in Sockets : Drop(s)
  PROVE  Ordered'
<1> USE DEF Ordered, Streams, Order, round, atHand, library
<1>1. CASE Listen \/ Close
  <2>1. UNCHANGED <<io, hand, peer, signals, came, taken, cache, status, watched, reads, writes,
                    readfds, writefds>>
    BY <1>1 DEF Listen, Close
  <2> QED BY <2>1, OthersKeepOrder
<1>2. CASE StartWaiting
  <2>1. UNCHANGED <<hand, peer, signals, came, taken, cache, status, watched, reads, writes,
                    readfds, writefds>> /\ io' = "handed"
    BY <1>2 DEF StartWaiting
  <2> QED BY <2>1 DEF LossIsLast, IsLost
<1>3. CASE Closed
  <2>1. UNCHANGED <<io, hand, peer, signals, came, taken, status, readfds, writefds>>
    BY <1>3 DEF Closed, Release
  <2>2. /\ watched' = {} /\ reads' = {} /\ writes' = {}
        /\ cache' = [s \in Sockets |-> NoCache]
    BY <1>3 DEF Closed, Release
  <2> QED BY <2>1, <2>2, OthersKeepOrder
<1>4. ASSUME NEW s \in Sockets, Drop(s) PROVE Ordered'
  <2>1. UNCHANGED <<io, hand, peer, signals, came, taken, readfds, writefds>> /\ CloseSocket(s)
    BY <1>4 DEF Drop
  <2> QED BY <2>1, ClosedSockets, OthersKeepOrder
<1> QED BY <1>1, <1>2, <1>3, <1>4

\* What is received is a sequence of the units that come next.
LEMMA NextUnits ==
  ASSUME NEW first \in Nat, NEW n \in Nat
  PROVE  [i \in 1 .. n |-> first + i] \in Seq(Numbers)
<1>1. \A i \in 1 .. n : first + i \in Numbers
  BY DEF Numbers
<1> QED BY <1>1

-----------------------------------------------------------------------------
(* The thread's steps                                                      *)

\* Those that signal nothing.
LEMMA SilentSteps ==
  ASSUME Ordered,
         \/ Enter \/ Check \/ Accept \/ Wait \/ ServedAll \/ Receive \/ LookUp
  PROVE  Ordered'
<1> USE DEF Ordered, Streams, Order, round, atHand, library, owner
<1>1. CASE Enter \/ Check \/ ServedAll
  <2>1. UNCHANGED <<hand, peer, signals, came, taken, cache, status, watched, reads, writes,
                    readfds, writefds>>
    BY <1>1 DEF Enter, Check, ServedAll
  <2>2. io' \in {"check", "accept", "ended"}
    BY <1>1 DEF Enter, Check, ServedAll, Goes
  <2> QED BY <2>1, <2>2 DEF LossIsLast, IsLost
<1>2. CASE Wait
  <2>1. UNCHANGED <<hand, peer, signals, came, taken, cache, status, watched, reads, writes>>
    BY <1>2 DEF Wait
  <2>2. io' = "serve" /\ readfds' \cup writefds' \subseteq watched
    BY <1>2 DEF Wait, Goes
  <2> QED BY <2>1, <2>2 DEF LossIsLast, IsLost
<1>3. CASE Accept
  <2>1. UNCHANGED <<hand, signals, came, taken, cache, watched, reads, writes, readfds,
                    writefds>>
    BY <1>3 DEF Accept
  <2>2. ASSUME NEW s \in Sockets, status[s] = "queued", peer' = s, io' = "add",
               status' = [status EXCEPT ![s] = "connected"]
        PROVE  Ordered'
    <3>1. signals[s] = <<>> /\ ~IsLost(s)
      BY <2>2 DEF IsLost
    <3>2. Streams' BY <2>1, <2>2 DEF States
    <3>3. Order' BY <2>1, <2>2, <3>1 DEF IsLost
    <3> QED BY <2>1, <3>2, <3>3 DEF LossIsLast
  <2>3. ASSUME io' = "wait", UNCHANGED <<status, peer>> PROVE Ordered'
    BY <2>1, <2>3 DEF LossIsLast, IsLost
  <2> QED BY <1>3, <2>2, <2>3 DEF Accept
<1>4. CASE Receive
  <2>1. UNCHANGED <<signals, came, cache, status, watched, writes, readfds, writefds>>
    BY <1>4 DEF Receive
  <2>2. io = "receive" /\ peer \in Sockets
    BY <1>4 DEF Receive
  <2>3. ASSUME NEW n \in (taken[peer] + 1) .. came[peer],
               hand' = [i \in 1 .. n - taken[peer] |-> taken[peer] + i],
               taken' = [taken EXCEPT ![peer] = n],
               reads' = IF n = came[peer] THEN reads \ {peer} ELSE reads,
               io' = "look", peer' = peer
        PROVE  Ordered'
    <3>1. taken[peer] \in Nat /\ came[peer] \in Nat /\ n \in Nat /\ n - taken[peer] \in Nat
      BY <2>2, <2>3
    <3>2. hand' \in Seq(Numbers)
      BY <2>3, <3>1, NextUnits
    <3>3. Streams' BY <2>1, <2>3, <3>1, <3>2
    <3>4. Order' BY <2>1, <2>2, <2>3 DEF IsLost
    <3>5. LossIsLast' BY <2>1 DEF LossIsLast
    <3> QED BY <3>3, <3>4, <3>5
  <2>4. ASSUME io' = "serve", peer' = NoSocket, UNCHANGED <<hand, taken, reads>>
        PROVE  Ordered'
    BY <2>1, <2>4 DEF LossIsLast, IsLost
  <2> QED BY <1>4, <2>3, <2>4 DEF Receive
<1>5. CASE LookUp
  <2>1. UNCHANGED <<peer, signals, came, taken, status, watched, reads, writes, readfds,
                    writefds>>
    BY <1>5 DEF LookUp
  <2>2. io = "look" /\ io' = "parse" /\ peer \in Sockets
    BY <1>5 DEF LookUp, Goes
  <2>3. CASE cache[peer] = NoCache
    <3>1. found' = FALSE /\ hand' = hand
      BY <1>5, <2>3 DEF LookUp
    <3>2. cache' \in [Sockets -> Seq(Numbers) \cup {NoCache}]
      BY <1>5, <2>2, <3>1 DEF LookUp
    <3> QED BY <2>1, <2>2, <3>1, <3>2 DEF LossIsLast, IsLost
  <2>4. CASE cache[peer] # NoCache
    <3>1. found' = TRUE /\ hand' = cache[peer] \o hand
      BY <1>5, <2>4 DEF LookUp
    <3>2. cache[peer] \in Seq(Numbers)
      BY <2>2, <2>4
    <3>3. hand' \in Seq(Numbers)
      BY <3>1, <3>2
    <3>4. cache' \in [Sockets -> Seq(Numbers) \cup {NoCache}]
      BY <1>5, <2>2, <3>1 DEF LookUp
    <3> QED BY <2>1, <2>2, <3>3, <3>4 DEF LossIsLast, IsLost
  <2> QED BY <2>3, <2>4
<1> QED BY <1>1, <1>2, <1>3, <1>4, <1>5

\* A socket that gets into the epoll is signalled for the first time.
LEMMA AddKeepsOrder ==
  ASSUME Ordered, Add
  PROVE  Ordered'
<1> USE DEF Ordered, Streams, Order, round, owner
<1>1. /\ io = "add" /\ io' = "wait" /\ peer \in Sockets /\ signals[peer] = <<>>
      /\ UNCHANGED <<hand, came, taken, cache, status, readfds, writefds>>
      /\ peer' = NoSocket
  BY DEF Add, Goes
<1>2. CASE Located(peer)
  <2>1. /\ watched' = watched \cup {peer}
        /\ reads' \cup writes' \subseteq watched'
        /\ signals' = [signals EXCEPT ![peer] = <<Connected>>]
    BY <1>1, <1>2 DEF Add, Signal, Connected
  <2>2. Streams' BY <1>1, <2>1 DEF Connected
  <2>3. \A s \in Sockets : signals'[s] = IF s = peer THEN <<Connected>> ELSE signals[s]
    BY <1>1, <2>1
  <2>4. \A s \in Sockets : IsLost(s)' => IsLost(s)
    <3>1. ASSUME NEW s \in Sockets, s = peer PROVE ~IsLost(s)'
      <4>1. signals'[s] = <<Connected>> BY <2>3, <3>1
      <4> QED BY <4>1 DEF IsLost, Connected, Disconnected
    <3>2. ASSUME NEW s \in Sockets, s # peer PROVE IsLost(s)' = IsLost(s)
      <4>1. signals'[s] = signals[s] BY <2>3, <3>2
      <4> QED BY <4>1 DEF IsLost
    <3> QED BY <3>1, <3>2
  <2>5. Order' BY <1>1, <1>2, <2>1, <2>3, <2>4 DEF Located
  <2>6. ASSUME NEW s \in Sockets, NEW i \in DOMAIN signals'[s]
        PROVE  /\ (signals'[s][i] = Connected) = (i = 1)
               /\ signals'[s][i] = Disconnected =>
                    \A j \in i .. Len(signals'[s]) : signals'[s][j] = Disconnected
    <3>1. CASE s = peer BY <2>3, <2>6, <3>1 DEF Connected, Disconnected
    <3>2. CASE s # peer
      <4>1. signals'[s] = signals[s] BY <2>3, <3>2
      <4> QED BY <2>6, <4>1 DEF LossIsLast
    <3> QED BY <3>1, <3>2
  <2>7. LossIsLast' BY <2>6 DEF LossIsLast
  <2> QED BY <2>2, <2>5, <2>7
<1>3. CASE ~Located(peer)
  <2>1. UNCHANGED <<watched, reads, writes, signals>>
    BY <1>3 DEF Add
  <2>2. Streams' /\ Order' BY <1>1, <2>1 DEF IsLost
  <2>3. LossIsLast' BY <2>1 DEF LossIsLast
  <2> QED BY <2>2, <2>3
<1> QED BY <1>2, <1>3

\* A socket that is no longer connected is closed, and signalled lost if it was not removed.
LEMMA LoseKeepsOrder ==
  ASSUME Ordered, NEW s \in Sockets, s \in readfds \cup writefds, Lose(s, "serve"),
         UNCHANGED <<hand, came, taken>>,
         readfds' \subseteq readfds, writefds' \subseteq writefds
  PROVE  Ordered'
<1> USE DEF Ordered, Streams, Order
<1>1. /\ CloseSocket(s) /\ io' = "serve" /\ peer' = peer
      /\ signals' = IF status[s] \in {"broken", "closed"} THEN Signal(s, Disconnected)
                    ELSE signals
  BY DEF Lose
<1>2. s \in Sockets /\ signals[s] # <<>> /\ signals[s] \in Seq(Int)
  OBVIOUS
<1>3. /\ status' \in [Sockets -> States]
      /\ cache' \in [Sockets -> Seq(Numbers) \cup {NoCache}]
      /\ reads' \cup writes' \subseteq watched' /\ watched' \subseteq watched
      /\ \A t \in Sockets :
           /\ status'[t] \in {"none", "queued"} => status[t] \in {"none", "queued"}
           /\ status[t] \in {"closed", "removed"} => status'[t] \in {"closed", "removed"}
      /\ status[s] \in {"broken", "closed"} => status'[s] = "closed"
  BY <1>1, ClosedSockets
<1>4. CASE status[s] \in {"broken", "closed"}
  <2>1. signals' = [signals EXCEPT ![s] = Append(@, Disconnected)]
    BY <1>1, <1>4 DEF Signal
  <2>2. status'[s] = "closed"
    BY <1>4, <1>3
  <2>3. Append(signals[s], Disconnected) \in Seq(Int)
    BY <1>2 DEF Disconnected
  <2>4. signals' \in [Sockets -> Seq(Int)]
    <3>1. PICK told \in Seq(Int) : signals' = [signals EXCEPT ![s] = told]
      BY <2>3, <2>1
    <3> QED BY <3>1
  <2>5. Streams' BY <1>1, <1>3, <2>4
  <2>6. /\ signals'[s] = Append(signals[s], Disconnected)
        /\ \A t \in Sockets \ {s} : signals'[t] = signals[t]
    BY <1>2, <2>1
  <2>7. signals'[s] # <<>>
    <3>1. Len(signals'[s]) = Len(signals[s]) + 1 /\ Len(signals[s]) \in Nat
      BY <1>2, <2>6
    <3> QED BY <3>1
  <2>8. \A t \in Sockets \ {s} : IsLost(t)' = IsLost(t)
    BY <2>6 DEF IsLost
  <2>9. Order' BY <1>1, <1>2, <1>3, <2>2, <2>6, <2>8, <2>7
  <2>10. ASSUME NEW t \in Sockets, NEW i \in DOMAIN signals'[t]
        PROVE  /\ (signals'[t][i] = Connected) = (i = 1)
               /\ signals'[t][i] = Disconnected =>
                    \A j \in i .. Len(signals'[t]) : signals'[t][j] = Disconnected
    <3>1. CASE t # s
      <4>1. signals'[t] = signals[t] BY <2>6, <3>1
      <4> QED BY <2>10, <4>1 DEF LossIsLast
    <3>2. CASE t = s
      <4>1. Len(signals'[s]) = Len(signals[s]) + 1 /\ Len(signals[s]) > 0
        BY <1>2, <2>6
      <4>2. \A j \in 1 .. Len(signals[s]) : signals'[s][j] = signals[s][j]
        BY <2>6
      <4>3. signals'[s][Len(signals[s]) + 1] = Disconnected
        BY <2>6
      <4>4. i \in 1 .. Len(signals[s]) + 1 /\ Len(signals[s]) \in Nat
        BY <1>2, <2>6, <2>10, <3>2
      <4>5. DOMAIN signals[s] = 1 .. Len(signals[s])
        BY <1>2
      <4>6. CASE i = Len(signals[s]) + 1
        BY <3>2, <4>1, <4>3, <4>4, <4>6 DEF Connected, Disconnected
      <4>7. CASE i \in 1 .. Len(signals[s])
        <5>1. signals'[s][i] = signals[s][i] /\ i \in DOMAIN signals[s]
          BY <4>2, <4>5, <4>7
        <5>2. (signals[s][i] = Connected) = (i = 1)
          BY <1>2, <5>1 DEF LossIsLast
        <5>3. ASSUME signals[s][i] = Disconnected, NEW j \in i .. Len(signals[s]) + 1
              PROVE  signals'[s][j] = Disconnected
          <6>1. CASE j = Len(signals[s]) + 1 BY <4>3, <6>1
          <6>2. CASE j \in i .. Len(signals[s])
            <7>1. signals[s][j] = Disconnected BY <1>2, <5>1, <5>3, <6>2 DEF LossIsLast
            <7>2. j \in 1 .. Len(signals[s]) BY <4>4, <4>7, <6>2
            <7> QED BY <4>2, <7>1, <7>2
          <6> QED BY <4>4, <5>3, <6>1, <6>2
        <5> QED BY <3>2, <4>1, <5>1, <5>2, <5>3
      <4> QED BY <4>4, <4>6, <4>7
    <3> QED BY <3>1, <3>2
  <2>11. LossIsLast' BY <2>10 DEF LossIsLast
  <2> QED BY <2>5, <2>9, <2>11
<1>5. CASE status[s] \notin {"broken", "closed"}
  <2>1. signals' = signals BY <1>1, <1>5
  <2>2. Streams' BY <1>1, <1>3, <2>1
  <2>3. Order' BY <1>1, <1>3, <2>1 DEF IsLost
  <2>4. LossIsLast' BY <2>1 DEF LossIsLast
  <2> QED BY <2>2, <2>3, <2>4
<1> QED BY <1>4, <1>5

LEMMA ServeKeepsOrder ==
  ASSUME Ordered, ServeRead \/ ServeWrite
  PROVE  Ordered'
<1> USE DEF round
<1>1. CASE ServeRead
  <2>1. PICK s \in readfds :
          /\ readfds' = readfds \ {s}
          /\ IF status[s] = "connected"
             THEN /\ peer' = s
                  /\ io' = "receive"
                  /\ UNCHANGED <<status, watched, reads, writes, cache, signals>>
             ELSE Lose(s, "serve")
    BY <1>1 DEF ServeRead
  <2>2. UNCHANGED <<writefds, hand, came, taken>> /\ s \in Sockets
    BY <1>1 DEF ServeRead, Ordered, Order
  <2>3. CASE status[s] = "connected"
    <3>1. signals[s] # <<>> /\ ~IsLost(s)
      BY <2>1, <2>2, <2>3 DEF Ordered, Order
    <3>2. Streams' /\ Order'
      BY <2>1, <2>2, <2>3, <3>1 DEF Ordered, Streams, Order, IsLost
    <3>3. LossIsLast'
      BY <2>1, <2>3 DEF Ordered, LossIsLast
    <3> QED BY <3>2, <3>3 DEF Ordered
  <2>4. CASE status[s] # "connected"
    BY <2>1, <2>2, <2>4, LoseKeepsOrder
  <2> QED BY <2>3, <2>4
<1>2. CASE ServeWrite
  <2>1. PICK s \in writefds :
          /\ writefds' = writefds \ {s}
          /\ IF status[s] = "connected"
             THEN UNCHANGED <<io, peer, status, watched, reads, writes, cache, signals>>
             ELSE Lose(s, "serve")
    BY <1>2 DEF ServeWrite
  <2>2. UNCHANGED <<readfds, hand, came, taken>> /\ s \in Sockets
    BY <1>2 DEF ServeWrite, Ordered, Order
  <2>3. CASE status[s] = "connected"
    <3>1. Streams' /\ Order'
      BY <2>1, <2>2, <2>3 DEF Ordered, Streams, Order, IsLost
    <3>2. LossIsLast'
      BY <2>1, <2>3 DEF Ordered, LossIsLast
    <3> QED BY <3>1, <3>2 DEF Ordered
  <2>4. CASE status[s] # "connected"
    BY <2>1, <2>2, <2>4, LoseKeepsOrder
  <2> QED BY <2>3, <2>4
<1> QED BY <1>1, <1>2

\* Blocks numbered in order make a sequence.
LEMMA BlocksInARow ==
  ASSUME NEW first, NEW n \in Nat,
         \A i \in 1 .. n : first + i - 1 \in Numbers
  PROVE  [i \in 1 .. n |-> first + i - 1] \in Seq(Numbers)
  OBVIOUS

\* Blocks are signalled of a connection that is signalled and not lost.
LEMMA ParseKeepsOrder ==
  ASSUME Ordered, Parse
  PROVE  Ordered'
<1> DEFINE n == WholeBlocks(hand)
           rest == SubSeq(hand, n * Parts + 1, Len(hand))
           blocks == [i \in 1 .. n |-> BlockOf(hand[1]) + i - 1]
<1> USE DEF Ordered, Streams, Order, round, library, owner
<1>1. /\ io = "parse" /\ io' = "serve" /\ peer \in Sockets /\ signals[peer] # <<>>
      /\ signals[peer] \in Seq(Int) /\ hand' = <<>> /\ peer' = NoSocket /\ ~IsLost(peer)
      /\ UNCHANGED <<came, taken, status, watched, reads, writes, readfds, writefds>>
  BY DEF Parse, Goes
<1>2. signals' = [signals EXCEPT ![peer] = @ \o blocks] /\ cache' = Keep(rest)
  BY DEF Parse
<1>3. n \in Nat /\ n * Parts <= Len(hand) /\ \A u \in Numbers : BlockOf(u) \in Numbers
  BY BlocksAreNumbers
<1>4. blocks \in Seq(Numbers)
  <2>1. \A i \in 1 .. n : BlockOf(hand[1]) + i - 1 \in Numbers
    <3>1. CASE n = 0 BY <3>1
    <3>2. CASE n > 0
      <4>1. hand # <<>> BY <3>2 DEF WholeBlocks
      <4>2. hand[1] \in Numbers BY <4>1
      <4>3. BlockOf(hand[1]) \in Numbers BY <1>3, <4>2
      <4> QED BY <1>3, <4>3 DEF Numbers
    <3> QED BY <1>3, <3>1, <3>2
  <2> QED BY <1>3, <2>1, BlocksInARow
<1>5. n * Parts \in Nat
  BY <1>3, UDTTransportAssumption
<1>6. rest \in Seq(Numbers)
  BY <1>3, <1>5
<1> HIDE DEF blocks, rest, n
<1>7. cache' \in [Sockets -> Seq(Numbers) \cup {NoCache}]
  <2>1. ASSUME cache[peer] # NoCache PROVE cache[peer] \o rest \in Seq(Numbers)
    <3>1. cache[peer] \in Seq(Numbers) BY <1>1, <2>1
    <3> QED BY <1>6, <3>1
  <2>2. PICK left \in Seq(Numbers) \cup {NoCache} : cache' = [cache EXCEPT ![peer] = left]
    BY <1>1, <1>2, <1>6, <2>1 DEF Keep
  <2> QED BY <2>2
<1>8. /\ signals[peer] \o blocks \in Seq(Int)
      /\ Len(signals[peer] \o blocks) = Len(signals[peer]) + Len(blocks)
      /\ Len(signals[peer]) \in Nat \ {0} /\ Len(blocks) \in Nat
      /\ \A i \in 1 .. Len(signals[peer]) : (signals[peer] \o blocks)[i] = signals[peer][i]
      /\ \A i \in (Len(signals[peer]) + 1) .. (Len(signals[peer]) + Len(blocks)) :
           (signals[peer] \o blocks)[i] \in Numbers
  <2>1. blocks \in Seq(Int) BY <1>4 DEF Numbers
  <2>2. \A i \in 1 .. Len(blocks) : blocks[i] \in Numbers BY <1>4
  <2> QED BY <1>1, <2>1, <2>2
<1>9. /\ signals' \in [Sockets -> Seq(Int)]
      /\ signals'[peer] = signals[peer] \o blocks
      /\ \A s \in Sockets : s # peer => signals'[s] = signals[s]
  <2>1. PICK told \in Seq(Int) : told = signals[peer] \o blocks
                                 /\ signals' = [signals EXCEPT ![peer] = told]
    BY <1>2, <1>8
  <2> QED BY <1>1, <2>1
<1>10. \A i \in DOMAIN signals[peer] : signals[peer][i] # Disconnected
  BY <1>1 DEF IsLost
<1>11. \A i \in DOMAIN signals'[peer] :
         /\ (signals'[peer][i] = Connected) = (i = 1)
         /\ signals'[peer][i] # Disconnected
  <2> TAKE i \in DOMAIN signals'[peer]
  <2>1. i \in 1 .. Len(signals[peer]) + Len(blocks)
    BY <1>8, <1>9
  <2>2. CASE i \in 1 .. Len(signals[peer])
    <3>1. i \in DOMAIN signals[peer] /\ signals'[peer][i] = signals[peer][i]
      BY <1>1, <1>8, <1>9, <2>2
    <3> QED BY <1>1, <1>10, <3>1 DEF LossIsLast
  <2>3. CASE i \in (Len(signals[peer]) + 1) .. (Len(signals[peer]) + Len(blocks))
    <3>1. signals'[peer][i] \in Numbers BY <1>8, <1>9, <2>3
    <3>2. i # 1 BY <1>8, <2>3
    <3> QED BY <3>1, <3>2 DEF Numbers, Connected, Disconnected
  <2> QED BY <1>8, <2>1, <2>2, <2>3
<1>12. \A s \in Sockets : IsLost(s)' => IsLost(s)
  <2>1. ASSUME NEW s \in Sockets, s = peer PROVE ~IsLost(s)'
    BY <1>11, <2>1 DEF IsLost
  <2>2. ASSUME NEW s \in Sockets, s # peer PROVE IsLost(s)' = IsLost(s)
    <3>1. signals'[s] = signals[s] BY <1>9, <2>2
    <3> QED BY <3>1 DEF IsLost
  <2> QED BY <2>1, <2>2
<1>13. signals'[peer] # <<>> /\ status[peer] \notin {"none", "queued"}
  <2>1. Len(signals'[peer]) # 0 BY <1>8, <1>9
  <2>2. status[peer] \notin {"none", "queued"} BY <1>1
  <2> QED BY <2>1, <2>2
<1>14. Streams'
  <2>1. hand' \in Seq(Numbers) BY <1>1
  <2> QED BY <1>1, <1>7, <1>9, <2>1
<1>15. Order'
  BY <1>1, <1>9, <1>12, <1>13
<1>16. LossIsLast'
  <2> SUFFICES ASSUME NEW s \in Sockets, NEW i \in DOMAIN signals'[s]
               PROVE  /\ (signals'[s][i] = Connected) = (i = 1)
                      /\ signals'[s][i] = Disconnected =>
                           \A j \in i .. Len(signals'[s]) : signals'[s][j] = Disconnected
    BY DEF LossIsLast
  <2>1. CASE s = peer BY <1>11, <2>1
  <2>2. CASE s # peer
    <3>1. signals'[s] = signals[s] BY <1>9, <2>2
    <3> QED BY <3>1 DEF LossIsLast
  <2> QED BY <2>1, <2>2
<1> QED BY <1>14, <1>15, <1>16

\* The order in which the thread signals what becomes of a socket is an inductive invariant.
THEOREM OrderHolds == Spec => []Ordered
<1>1. Init => Ordered
  <2> SUFFICES ASSUME Init PROVE Ordered
    OBVIOUS
  <2>1. Streams BY DEF Init, Streams, States, NoCache
  <2>2. Order BY DEF Init, Order, IsLost
  <2>3. LossIsLast BY DEF Init, LossIsLast
  <2> QED BY <2>1, <2>2, <2>3 DEF Ordered
<1>2. Ordered /\ [Next]_vars => Ordered'
  <2> SUFFICES ASSUME Ordered, [Next]_vars PROVE Ordered'
    OBVIOUS
  <2>1. CASE WaitForIO
    BY <2>1, SilentSteps, AddKeepsOrder, ServeKeepsOrder, ParseKeepsOrder DEF WaitForIO
  <2>2. CASE \/ Listen \/ StartWaiting \/ Close \/ Closed
             \/ \E s \in Sockets : Drop(s)
    BY <2>2, OwnerKeepsOrder
  <2>3. CASE \E s \in Sockets : Library(s) BY <2>3, LibraryKeepsOrder
  <2>4. CASE UNCHANGED vars
    <3>1. UNCHANGED <<io, hand, peer, signals, came, taken, cache, status, watched, reads,
                      writes, readfds, writefds>>
      BY <2>4 DEF vars, round, atHand, library
    <3> QED BY <3>1, OthersKeepOrder DEF Ordered, Streams, Order
  <2> QED BY <2>1, <2>2, <2>3, <2>4 DEF Next
<1> QED BY <1>1, <1>2, PTL DEF Spec

\* A loss is the last that is signalled of a socket, and its connection the first.
THEOREM LossesAreLast == Spec => []LossIsLast
<1>1. Ordered => LossIsLast
  BY DEF Ordered
<1> QED BY <1>1, OrderHolds, PTL

-----------------------------------------------------------------------------
(* The stream of a connection                                              *)

\* units are the last Len(units) of the first n of a stream.
UpTo(units, n) == \A i \in 1 .. Len(units) : units[i] = n - Len(units) + i

Held(s)        == IF peer = s THEN Len(hand) ELSE 0
CachedUnits(s) == IF cache[s] = NoCache THEN 0 ELSE Len(cache[s])

\* The thread reads from s, or may yet do so.
Reading(s) == peer = s /\ io \in {"receive", "look", "parse"}
Lasting(s) == phase # "closed" /\ status[s] \in {"none", "queued", "connected"}

StreamTypes ==
  /\ came \in [Sockets -> 0 .. MaxUnits] /\ taken \in [Sockets -> 0 .. MaxUnits]
  /\ \A s \in Sockets : taken[s] <= came[s]
  /\ cache \in [Sockets -> Positions \cup {NoCache}]
  /\ hand \in Positions /\ found \in BOOLEAN
  /\ signals \in [Sockets -> Seq(Signals)]
  /\ both \in BOOLEAN /\ dropped \subseteq Sockets

\* What is at hand is what was read last, with the cached data before it once that is found;
\* what was found is no longer in the cache.
AtHand ==
  /\ io \notin {"look", "parse"} => hand = <<>>
  /\ io \in {"look", "parse"} => UpTo(hand, taken[peer])
  /\ io = "parse" =>
       IF found THEN cache[peer] = <<>> \/ (cache[peer] = NoCache /\ peer \in dropped)
       ELSE cache[peer] = NoCache

\* What is cached of a stream was read just before what is at hand, and makes up no block.
Kept(s) == cache[s] # NoCache => UpTo(cache[s], taken[s] - Held(s)) /\ WholeBlocks(cache[s]) = 0

\* Every unit that was read is in a block that was signalled, in the cache or at hand.
Accounted(s) ==
  /\ BlocksSignalled(s) = [i \in 1 .. Len(BlocksSignalled(s)) |-> i]
  /\ Lasting(s) \/ Reading(s) =>
       taken[s] = Parts * Len(BlocksSignalled(s)) + CachedUnits(s) + Held(s)

Streamed ==
  /\ StreamTypes
  /\ AtHand
  /\ \A s \in Sockets : Kept(s)
  /\ \A s \in Sockets \ dropped : Accounted(s)

\* A sequence of units before another.
LEMMA UpToConcat ==
  ASSUME NEW q \in Positions, NEW r \in Positions, NEW n \in Nat,
         UpTo(r, n), UpTo(q, n - Len(r))
  PROVE  q \o r \in Positions /\ UpTo(q \o r, n)
<1>1. PICK c : c = q \o r
  OBVIOUS
<1>2. /\ c \in Positions /\ Len(q) \in Nat /\ Len(r) \in Nat /\ Len(c) = Len(q) + Len(r)
      /\ \A i \in 1 .. Len(c) : \/ i \in 1 .. Len(q) /\ c[i] = q[i]
                                \/ i - Len(q) \in 1 .. Len(r) /\ c[i] = r[i - Len(q)]
  BY <1>1, ConcatFacts DEF Positions
<1>3. ASSUME NEW i \in 1 .. Len(c) PROVE c[i] = n - Len(c) + i
  <2>1. CASE i \in 1 .. Len(q) /\ c[i] = q[i]
    <3>1. q[i] = n - Len(r) - Len(q) + i
      BY <2>1 DEF UpTo
    <3> QED BY <1>2, <2>1, <3>1
  <2>2. CASE i - Len(q) \in 1 .. Len(r) /\ c[i] = r[i - Len(q)]
    <3>1. r[i - Len(q)] = n - Len(r) + (i - Len(q))
      BY <2>2 DEF UpTo
    <3> QED BY <1>2, <2>2, <3>1
  <2> QED BY <1>2, <2>1, <2>2
<1>4. UpTo(c, n)
  BY <1>3 DEF UpTo
<1> QED BY <1>1, <1>2, <1>4

LEMMA SubSeqFacts ==
  ASSUME NEW S, NEW q \in Seq(S), NEW m \in Nat, m <= Len(q)
  PROVE  SubSeq(q, m + 1, Len(q)) \in Seq(S) /\ Len(SubSeq(q, m + 1, Len(q))) = Len(q) - m
OBVIOUS

\* What is left of a sequence of units when some in front are taken away.
LEMMA UpToRest ==
  ASSUME NEW q \in Positions, NEW n \in Nat, NEW m \in Nat, m <= Len(q), UpTo(q, n)
  PROVE  /\ SubSeq(q, m + 1, Len(q)) \in Positions
         /\ Len(SubSeq(q, m + 1, Len(q))) = Len(q) - m
         /\ UpTo(SubSeq(q, m + 1, Len(q)), n)
<1>1. PICK rest : rest = SubSeq(q, m + 1, Len(q))
  OBVIOUS
<1>2. /\ rest \in Positions /\ Len(q) \in Nat /\ Len(rest) = Len(q) - m
      /\ \A i \in 1 .. Len(rest) : i + m \in 1 .. Len(q) /\ rest[i] = q[i + m]
  <2>1. Len(q) \in Nat
    BY DEF Positions
  <2>2. rest \in Positions
    <3>1. SubSeq(q, m + 1, Len(q)) \in Seq(1 .. MaxUnits)
      BY SubSeqFacts DEF Positions
    <3> QED BY <1>1, <3>1 DEF Positions
  <2>3. Len(rest) = Len(q) - m
    <3>1. Len(SubSeq(q, m + 1, Len(q))) = Len(q) - m
      BY <2>1 DEF Positions
    <3> QED BY <1>1, <3>1
  <2>4. ASSUME NEW i \in 1 .. Len(rest) PROVE i + m \in 1 .. Len(q) /\ rest[i] = q[i + m]
    <3>1. i + m \in 1 .. Len(q)
      BY <2>1, <2>3
    <3> QED BY <1>1, <2>1, <2>3, <3>1 DEF Positions
  <2> QED BY <2>1, <2>2, <2>3, <2>4
<1>3. \A i \in 1 .. Len(rest) : rest[i] = n - Len(rest) + i
  <2> TAKE i \in 1 .. Len(rest)
  <2>1. q[i + m] = n - Len(q) + (i + m)
    BY <1>2 DEF UpTo
  <2> QED BY <1>2, <2>1
<1> QED BY <1>1, <1>2, <1>3 DEF UpTo

\* Division by the size of a block.
LEMMA Divided ==
  ASSUME NEW a \in Nat
  PROVE  /\ a \div Parts \in Nat /\ a % Parts \in Nat /\ a % Parts < Parts
         /\ a = Parts * (a \div Parts) + (a % Parts)
BY UDTTransportAssumption

LEMMA DividedOnce ==
  ASSUME NEW b \in Nat, NEW c \in Nat, c < Parts
  PROVE  (Parts * b + c) \div Parts = b /\ (Parts * b + c) % Parts = c
BY UDTTransportAssumption

\* The units that are left when the whole blocks are taken away make up no block.
LEMMA RestIsNoBlock ==
  ASSUME NEW q \in Positions
  PROVE  /\ WholeBlocks(q) \in Nat /\ WholeBlocks(q) * Parts \in Nat
         /\ WholeBlocks(q) * Parts <= Len(q)
         /\ WholeBlocks(SubSeq(q, WholeBlocks(q) * Parts + 1, Len(q))) = 0
<1> DEFINE k == WholeBlocks(q)
           rest == SubSeq(q, k * Parts + 1, Len(q))
<1>0. Len(q) \in Nat /\ Parts \in Nat \ {0}
  BY UDTTransportAssumption DEF Positions
<1>1. CASE q # <<>> /\ q[1] % Parts = 1 % Parts
  <2>1. k = Len(q) \div Parts
    BY <1>1 DEF WholeBlocks
  <2>2. k \in Nat /\ Len(q) % Parts \in Nat /\ Len(q) % Parts < Parts
        /\ Len(q) = Parts * k + (Len(q) % Parts)
    BY <1>0, <2>1, Divided
  <2>3. k * Parts = Parts * k /\ k * Parts \in Nat /\ k * Parts <= Len(q)
        /\ Len(q) - k * Parts = Len(q) % Parts
    <3> HIDE DEF k
    <3>1. k * Parts = Parts * k /\ k * Parts \in Nat
      BY <1>0, <2>2
    <3> DEFINE m == k * Parts
               c == Len(q) % Parts
    <3>2. m \in Nat /\ c \in Nat
      BY <2>2, <3>1
    <3>3. Len(q) = m + c
      BY <2>2, <3>1
    <3>4. m <= Len(q) /\ Len(q) - m = c
      <4> HIDE DEF m, c
      <4> QED BY <3>2, <3>3
    <3> QED BY <3>1, <3>4
  <2>4. Len(rest) = Len(q) % Parts
    <3> HIDE DEF k
    <3>1. PICK m \in Nat : m = k * Parts
      BY <2>3
    <3>2. m <= Len(q) /\ Len(q) - m = Len(q) % Parts
      BY <2>3, <3>1, Zenon
    <3>3. Len(SubSeq(q, m + 1, Len(q))) = Len(q) - m
      BY <3>2 DEF Positions
    <3> QED BY <3>1, <3>2, <3>3
  <2>5. Len(rest) \div Parts = 0
    <3>1. (Parts * 0 + (Len(q) % Parts)) \div Parts = 0
      <4> DEFINE c == Len(q) % Parts
      <4>1. c \in Nat /\ c < Parts
        BY <2>2
      <4>2. (Parts * 0 + c) \div Parts = 0
        <5> HIDE DEF c
        <5> QED BY <4>1, DividedOnce
      <4> QED BY <4>2
    <3>2. Parts * 0 + (Len(q) % Parts) = Len(q) % Parts
      BY <1>0, <2>2
    <3> QED BY <2>4, <3>1, <3>2
  <2>6. WholeBlocks(rest) = 0
    <3> HIDE DEF rest
    <3> QED BY <2>5 DEF WholeBlocks
  <2> HIDE DEF k, rest
  <2>7. WholeBlocks(SubSeq(q, k * Parts + 1, Len(q))) = 0
    BY <2>6 DEF rest
  <2> QED BY <2>2, <2>3, <2>7, Zenon DEF k
<1>2. CASE ~(q # <<>> /\ q[1] % Parts = 1 % Parts)
  <2>1. k = 0
    BY <1>2 DEF WholeBlocks
  <2>2. k * Parts = 0
    <3> HIDE DEF k
    <3> QED BY <1>0, <2>1
  <2>3. rest = q
    <3>1. rest = SubSeq(q, 1, Len(q))
      <4> HIDE DEF k
      <4>1. k * Parts + 1 = 1
        BY <2>2
      <4> QED BY <4>1
    <3> HIDE DEF rest
    <3> QED BY <3>1 DEF Positions
  <2>4. WholeBlocks(rest) = 0
    <3> HIDE DEF rest
    <3> QED BY <2>1, <2>3
  <2> QED BY <1>0, <2>1, <2>2, <2>4
<1> QED BY <1>1, <1>2

\* No block that is signalled begins after the units that a peer may send.
LEMMA BlocksAtHand ==
  ASSUME NEW q \in Positions, NEW n \in 0 .. MaxUnits, UpTo(q, n),
         NEW i \in 1 .. WholeBlocks(q)
  PROVE  BlockOf(q[1]) + i - 1 \in 1 .. MaxUnits
<1>0. Parts \in Nat \ {0} /\ MaxUnits \in Nat /\ Len(q) \in Nat
  BY UDTTransportAssumption DEF Positions
<1>1. WholeBlocks(q) \in Nat /\ WholeBlocks(q) * Parts <= Len(q)
  BY RestIsNoBlock
<1>2. q # <<>>
  BY <1>1 DEF WholeBlocks
<1>3. q[1] \in 1 .. MaxUnits /\ q[1] = n - Len(q) + 1
  BY <1>0, <1>2 DEF Positions, UpTo
<1>4. PICK b \in Nat : b = (q[1] - 1) \div Parts /\ Parts * b <= q[1] - 1
  <2>1. PICK a \in Nat : a = q[1] - 1
    BY <1>0, <1>3
  <2>2. PICK b \in Nat : b = a \div Parts /\ Parts * b <= a
    <3>1. /\ a \div Parts \in Nat /\ a % Parts \in Nat
          /\ a = Parts * (a \div Parts) + (a % Parts)
      BY Divided
    <3>2. PICK b \in Nat : b = a \div Parts
      BY <3>1
    <3>3. PICK c \in Nat : c = a % Parts
      BY <3>1
    <3>4. Parts * b \in Nat /\ a = Parts * b + c
      BY <1>0, <3>1, <3>2, <3>3
    <3> QED BY <3>2, <3>4
  <2> QED BY <2>1, <2>2
<1>5. BlockOf(q[1]) = b + 1
  BY <1>4 DEF BlockOf
<1>6. i \in Nat \ {0} /\ Parts * i <= WholeBlocks(q) * Parts
  BY <1>0, <1>1
<1>7. Parts * b + Parts * i <= MaxUnits
  <2>1. Parts * b \in Nat /\ Parts * i \in Nat /\ WholeBlocks(q) * Parts \in Nat
    BY <1>0, <1>1, <1>4, <1>6
  <2> QED BY <1>0, <1>1, <1>3, <1>4, <1>6, <2>1
<1>8. b + i <= Parts * b + Parts * i
  <2>1. b <= Parts * b /\ i <= Parts * i
    BY <1>0, <1>4, <1>6
  <2>2. Parts * b \in Nat /\ Parts * i \in Nat
    BY <1>0, <1>4, <1>6
  <2> QED BY <1>4, <1>6, <2>1, <2>2
<1>9. b + i \in 1 .. MaxUnits
  <2>1. Parts * b \in Nat /\ Parts * i \in Nat
    BY <1>0, <1>4, <1>6
  <2> QED BY <1>0, <1>4, <1>6, <1>7, <1>8, <2>1
<1> QED BY <1>4, <1>5, <1>6, <1>9

\* What is at hand after b whole blocks begins with the next one, and all of it is parsed.
LEMMA BlocksGoOn ==
  ASSUME NEW q \in Positions, NEW b \in Nat, UpTo(q, Parts * b + Len(q))
  PROVE  /\ WholeBlocks(q) = Len(q) \div Parts
         /\ q # <<>> => BlockOf(q[1]) = b + 1
<1>0. Parts \in Nat \ {0} /\ Len(q) \in Nat /\ Parts * b \in Nat
  BY UDTTransportAssumption DEF Positions
<1>1. CASE q = <<>>
  <2>1. Len(q) = 0 /\ WholeBlocks(q) = 0
    BY <1>1 DEF WholeBlocks
  <2>2. (Parts * 0 + 0) \div Parts = 0
    BY <1>0, DividedOnce
  <2> QED BY <1>0, <1>1, <2>1, <2>2
<1>2. CASE q # <<>>
  <2>1. q[1] = Parts * b + 1
    BY <1>0, <1>2 DEF UpTo, Positions
  <2>2. q[1] % Parts = 1 % Parts
    <3>1. CASE Parts = 1
      <4>1. (Parts * (b + 1) + 0) % Parts = 0 /\ (Parts * 1 + 0) % Parts = 0
        BY <1>0, DividedOnce
      <4>2. Parts * (b + 1) + 0 = q[1] /\ Parts * 1 + 0 = 1
        BY <1>0, <2>1, <3>1
      <4> QED BY <4>1, <4>2
    <3>2. CASE Parts # 1
      <4>0. 1 \in Nat /\ 0 \in Nat /\ 1 < Parts
        BY <1>0, <3>2
      <4>1. (Parts * b + 1) % Parts = 1 /\ (Parts * 0 + 1) % Parts = 1
        BY <4>0, DividedOnce
      <4>2. Parts * 0 + 1 = 1
        BY <1>0
      <4> QED BY <2>1, <4>1, <4>2
    <3> QED BY <3>1, <3>2
  <2>3. (q[1] - 1) \div Parts = b
    <3>1. (Parts * b + 0) \div Parts = b
      BY <1>0, DividedOnce
    <3>2. q[1] - 1 = Parts * b + 0
      BY <1>0, <2>1
    <3> QED BY <3>1, <3>2
  <2> QED BY <1>2, <2>2, <2>3 DEF WholeBlocks, BlockOf
<1> QED BY <1>1, <1>2

\* More blocks in order.
LEMMA MoreInARow ==
  ASSUME NEW p \in Seq(Int), NEW n \in Nat, p = [i \in 1 .. Len(p) |-> i]
  PROVE  LET all == p \o [i \in 1 .. n |-> Len(p) + 1 + i - 1]
         IN  Len(all) = Len(p) + n /\ all = [i \in 1 .. Len(all) |-> i]
<1>1. PICK r : r = [i \in 1 .. n |-> Len(p) + 1 + i - 1]
  OBVIOUS
<1>2. Len(p) \in Nat /\ r \in Seq(Int) /\ Len(r) = n /\ \A i \in 1 .. n : r[i] = Len(p) + i
  BY <1>1
<1>3. PICK all : all = p \o r
  OBVIOUS
<1>4. /\ all \in Seq(Int) /\ Len(all) = Len(p) + n
      /\ \A i \in 1 .. Len(all) : \/ i \in 1 .. Len(p) /\ all[i] = p[i]
                                  \/ i - Len(p) \in 1 .. n /\ all[i] = r[i - Len(p)]
  <2>1. p \in Seq(Int) /\ r \in Seq(Int)
    BY <1>2
  <2>2. /\ p \o r \in Seq(Int) /\ Len(p \o r) = Len(p) + Len(r)
        /\ \A i \in 1 .. Len(p \o r) :
             \/ i \in 1 .. Len(p) /\ (p \o r)[i] = p[i]
             \/ i - Len(p) \in 1 .. Len(r) /\ (p \o r)[i] = r[i - Len(p)]
    BY <2>1, ConcatFacts
  <2> QED BY <1>2, <1>3, <2>2
<1>5. \A i \in 1 .. Len(p) : p[i] = i
  OBVIOUS
<1>6. \A i \in 1 .. Len(all) : all[i] = i
  <2> TAKE i \in 1 .. Len(all)
  <2>1. CASE i \in 1 .. Len(p) /\ all[i] = p[i]
    BY <1>5, <2>1
  <2>2. CASE i - Len(p) \in 1 .. n /\ all[i] = r[i - Len(p)]
    <3>1. r[i - Len(p)] = Len(p) + (i - Len(p)) /\ i \in Int
      BY <1>2, <1>4, <2>2
    <3> QED BY <1>2, <2>2, <3>1
  <2> QED BY <1>4, <2>1, <2>2
<1>7. all = [i \in 1 .. Len(all) |-> i]
  BY <1>4, <1>6
<1> QED BY <1>1, <1>3, <1>4, <1>7

-----------------------------------------------------------------------------
(* Steps that take nothing from a stream                                   *)

\* What they may do: a cache is dropped only when the event loop closes the socket, or when
\* nothing is read from it any more.
Quiet ==
  /\ UNCHANGED <<hand, found, taken>>
  /\ \/ UNCHANGED <<io, peer>>
     \/ io \notin {"look", "parse"} /\ io' \notin {"look", "parse"}
  /\ came' \in [Sockets -> 0 .. MaxUnits] /\ \A s \in Sockets : came[s] <= came'[s]
  /\ signals' \in [Sockets -> Seq(Signals)]
  /\ \A s \in Sockets : BlocksSignalled(s)' = BlocksSignalled(s)
  /\ both' \in BOOLEAN /\ dropped' \subseteq Sockets /\ dropped \subseteq dropped'
  /\ cache' \in [Sockets -> Positions \cup {NoCache}]
  /\ \A s \in Sockets :
       \/ cache'[s] = cache[s]
       \/ cache'[s] = NoCache /\ (s \in dropped' \/ ~(Lasting(s)' \/ Reading(s)'))
  /\ \A s \in Sockets : Lasting(s)' \/ Reading(s)' => Lasting(s) \/ Reading(s)

LEMMA QuietKeepsStreamed ==
  ASSUME Ordered, Streamed, Quiet
  PROVE  Streamed'
<1>1. StreamTypes'
  BY DEF Streamed, StreamTypes, Quiet
<1>2. AtHand'
  <2>1. CASE io \notin {"look", "parse"} /\ io' \notin {"look", "parse"}
    BY <2>1 DEF Streamed, AtHand, Quiet
  <2>2. CASE io \in {"look", "parse"} /\ UNCHANGED <<io, peer>>
    <3>1. peer \in Sockets
      BY <2>2 DEF Ordered, Order
    <3>2. PICK p \in Sockets : p = peer
      BY <3>1
    <3>3. cache'[peer] = cache[peer] \/ (cache'[peer] = NoCache /\ peer \in dropped')
      <4>1. Reading(p)'
        BY <2>2, <3>2 DEF Reading
      <4>2. cache'[p] = cache[p] \/ (cache'[p] = NoCache /\ p \in dropped')
        BY <4>1 DEF Quiet
      <4> QED BY <3>2, <4>2
    <3>4. peer \in dropped => peer \in dropped'
      BY DEF Quiet
    <3>5. UpTo(hand, taken[peer])
      BY <2>2 DEF Streamed, AtHand
    <3>6. UpTo(hand, taken[peer])'
      BY <2>2, <3>5 DEF Quiet, UpTo
    <3>7. io = "parse" =>
            IF found THEN cache[peer] = <<>> \/ (cache[peer] = NoCache /\ peer \in dropped)
            ELSE cache[peer] = NoCache
      BY DEF Streamed, AtHand
    <3>8. found' = found
      BY DEF Quiet
    <3> QED BY <2>2, <3>3, <3>4, <3>6, <3>7, <3>8 DEF AtHand
  <2>3. CASE io \notin {"look", "parse"} /\ UNCHANGED <<io, peer>>
    BY <2>3 DEF Streamed, AtHand, Quiet
  <2> QED BY <2>1, <2>2, <2>3 DEF Quiet
<1>3. \A s \in Sockets : Held(s)' = Held(s)
  <2>1. CASE UNCHANGED <<io, peer>>
    BY <2>1 DEF Held, Quiet
  <2>2. CASE io \notin {"look", "parse"} /\ io' \notin {"look", "parse"}
    <3>1. hand = <<>> /\ hand' = <<>>
      BY <2>2 DEF Streamed, AtHand, Quiet
    <3>2. Len(hand) = 0 /\ Len(hand') = 0
      BY <3>1
    <3> QED BY <3>2 DEF Held
  <2> QED BY <2>1, <2>2 DEF Quiet
<1>4. ASSUME NEW s \in Sockets PROVE Kept(s)'
  <2>1. CASE cache'[s] = cache[s]
    <3>1. Kept(s) /\ Held(s)' = Held(s) /\ taken' = taken
      BY <1>3 DEF Streamed, Quiet
    <3> QED BY <2>1, <3>1 DEF Kept, UpTo, WholeBlocks
  <2>2. CASE cache'[s] = NoCache
    BY <2>2 DEF Kept
  <2> QED BY <2>1, <2>2 DEF Quiet
<1>5. ASSUME NEW s \in Sockets \ dropped' PROVE Accounted(s)'
  <2>1. Accounted(s) /\ BlocksSignalled(s)' = BlocksSignalled(s) /\ taken' = taken
    BY DEF Streamed, Quiet
  <2>2. BlocksSignalled(s)' = [i \in 1 .. Len(BlocksSignalled(s)') |-> i]
    BY <2>1 DEF Accounted
  <2>3. ASSUME Lasting(s)' \/ Reading(s)'
        PROVE  taken'[s] = Parts * Len(BlocksSignalled(s)') + CachedUnits(s)' + Held(s)'
    <3>1. cache'[s] = cache[s] /\ (Lasting(s) \/ Reading(s))
      BY <2>3 DEF Quiet
    <3>2. CachedUnits(s)' = CachedUnits(s)
      BY <3>1 DEF CachedUnits
    <3>3. taken[s] = Parts * Len(BlocksSignalled(s)) + CachedUnits(s) + Held(s)
      BY <2>1, <3>1 DEF Accounted
    <3>4. Held(s)' = Held(s)
      BY <1>3
    <3> QED BY <2>1, <3>2, <3>3, <3>4, Zenon
  <2> QED BY <2>2, <2>3 DEF Accounted
<1> QED BY <1>1, <1>2, <1>4, <1>5 DEF Streamed

\* Most leave the signals and the cached data alone, too.
Silent ==
  /\ UNCHANGED <<hand, found, taken, signals, cache>>
  /\ \/ UNCHANGED <<io, peer>>
     \/ io \notin {"look", "parse"} /\ io' \notin {"look", "parse"}
  /\ came' \in [Sockets -> 0 .. MaxUnits] /\ \A s \in Sockets : came[s] <= came'[s]
  /\ both' \in BOOLEAN /\ dropped' = dropped
  /\ \A s \in Sockets : Lasting(s)' \/ Reading(s)' => Lasting(s) \/ Reading(s)

LEMMA SilentIsQuiet ==
  ASSUME Streamed, Silent
  PROVE  Quiet
<1>1. \A s \in Sockets : BlocksSignalled(s)' = BlocksSignalled(s)
  BY DEF Silent, BlocksSignalled
<1>2. /\ signals' \in [Sockets -> Seq(Signals)] /\ dropped' \subseteq Sockets
      /\ cache' \in [Sockets -> Positions \cup {NoCache}]
  BY DEF Silent, Streamed, StreamTypes
<1>3. \A s \in Sockets : cache'[s] = cache[s]
  BY DEF Silent
<1> QED BY <1>1, <1>2, <1>3 DEF Silent, Quiet

\* A connection and its loss are no blocks.
LEMMA NoBlock ==
  ASSUME Streamed, NEW t \in Sockets, NEW what \in {Connected, Disconnected},
         signals' = Signal(t, what)
  PROVE  /\ signals' \in [Sockets -> Seq(Signals)]
         /\ \A s \in Sockets : BlocksSignalled(s)' = BlocksSignalled(s)
<1>1. what \in Signals /\ what \notin 1 .. MaxUnits
  BY UDTTransportAssumption DEF Signals, Connected, Disconnected
<1>2. signals \in [Sockets -> Seq(Signals)] /\ signals[t] \in Seq(Signals)
  BY DEF Streamed, StreamTypes
<1>3. Append(signals[t], what) \in Seq(Signals)
  BY <1>1, <1>2
<1>4. signals' = [signals EXCEPT ![t] = Append(signals[t], what)]
  BY DEF Signal
<1>5. signals' \in [Sockets -> Seq(Signals)]
  BY <1>2, <1>3, <1>4
<1>6. Selected(Append(signals[t], what), 1 .. MaxUnits) = Selected(signals[t], 1 .. MaxUnits)
  BY <1>1, <1>2, SelectedAppend
<1>7. ASSUME NEW s \in Sockets PROVE BlocksSignalled(s)' = BlocksSignalled(s)
  <2>1. CASE s = t
    <3>1. signals'[s] = Append(signals[t], what)
      BY <1>2, <1>4, <2>1
    <3> QED BY <1>6, <2>1, <3>1 DEF BlocksSignalled
  <2>2. CASE s # t
    <3>1. signals'[s] = signals[s]
      BY <1>2, <1>4, <2>2
    <3> QED BY <3>1 DEF BlocksSignalled
  <2> QED BY <2>1, <2>2
<1> QED BY <1>5, <1>7

LEMMA LibraryKeepsStreamed ==
  ASSUME Ordered, Streamed, NEW t \in Sockets, Library(t)
  PROVE  Streamed'
<1>1. UNCHANGED <<phase, io, peer, hand, found, taken, signals, cache, both, dropped>>
  BY DEF Library, Connect, Arrive, Shutdown, Expire, Fill, Acknowledge, Collect, RemoveSocket,
         owner, atHand, round
<1>2. came' \in [Sockets -> 0 .. MaxUnits] /\ \A s \in Sockets : came[s] <= came'[s]
  <2>0. came \in [Sockets -> 0 .. MaxUnits] /\ MaxUnits \in Nat
    BY UDTTransportAssumption DEF Streamed, StreamTypes
  <2>1. CASE Arrive(t)
    BY <2>0, <2>1 DEF Arrive
  <2>2. CASE ~Arrive(t)
    <3>1. came' = came
      BY <2>2 DEF Library, Connect, Shutdown, Expire, Fill, Acknowledge, Collect, RemoveSocket
    <3> QED BY <2>0, <3>1
  <2> QED BY <2>1, <2>2
<1>3. status \in [Sockets -> States]
  BY DEF Ordered, Streams
<1>4. ASSUME NEW s \in Sockets, status'[s] \in {"none", "queued", "connected"}
      PROVE  status[s] \in {"none", "queued", "connected"}
  <2>1. \/ status' = status
        \/ \E new \in {"queued", "broken", "closed", "removed"} :
             /\ status' = [status EXCEPT ![t] = new]
             /\ new = "queued" => status[t] = "none"
    BY DEF Library, Connect, Arrive, Shutdown, Expire, Fill, Acknowledge, Collect, RemoveSocket
  <2>2. CASE status' = status
    BY <1>4, <2>2
  <2>3. ASSUME NEW new \in {"queued", "broken", "closed", "removed"},
               status' = [status EXCEPT ![t] = new], new = "queued" => status[t] = "none"
        PROVE  status[s] \in {"none", "queued", "connected"}
    BY <1>3, <1>4, <2>3
  <2> QED BY <2>1, <2>2, <2>3
<1>5. \A s \in Sockets : Lasting(s)' \/ Reading(s)' => Lasting(s) \/ Reading(s)
  BY <1>1, <1>4 DEF Lasting, Reading
<1>6. both' \in BOOLEAN
  BY <1>1 DEF Streamed, StreamTypes
<1>7. Silent
  BY <1>1, <1>2, <1>5, <1>6 DEF Silent
<1> QED BY <1>7, SilentIsQuiet, QuietKeepsStreamed

\* closeSocket() drops what is cached of one socket.
LEMMA ClosedCache ==
  ASSUME Ordered, Streamed, NEW t \in Sockets, CloseSocket(t)
  PROVE  /\ cache' \in [Sockets -> Positions \cup {NoCache}]
         /\ cache'[t] = NoCache /\ \A s \in Sockets \ {t} : cache'[s] = cache[s]
         /\ \A s \in Sockets : status'[s] \in {"none", "queued", "connected"} =>
              status'[s] = status[s]
         /\ status'[t] # "connected"
<1>1. cache \in [Sockets -> Positions \cup {NoCache}] /\ status \in [Sockets -> States]
  BY DEF Ordered, Streams, Streamed, StreamTypes
<1>2. /\ cache' = [cache EXCEPT ![t] = NoCache]
      /\ status' = [status EXCEPT ![t] = IF Located(t) THEN "closed" ELSE status[t]]
  BY DEF CloseSocket
<1>3. cache' \in [Sockets -> Positions \cup {NoCache}]
  BY <1>1, <1>2
<1>4. cache'[t] = NoCache /\ \A s \in Sockets \ {t} : cache'[s] = cache[s]
  BY <1>1, <1>2
<1>5. \A s \in Sockets : status'[s] = IF s = t /\ Located(t) THEN "closed" ELSE status[s]
  BY <1>1, <1>2
<1> QED BY <1>3, <1>4, <1>5 DEF Located

LEMMA OwnerKeepsStreamed ==
  ASSUME LifeCycle, Ordered, Streamed,
         \/ Listen \/ StartWaiting \/ Close \/ Closed
         \/ \E s \in Sockets : Drop(s)
  PROVE  Streamed'
<1>0. /\ came \in [Sockets -> 0 .. MaxUnits] /\ \A s \in Sockets : came[s] <= came[s]
      /\ both \in BOOLEAN /\ signals \in [Sockets -> Seq(Signals)] /\ dropped \subseteq Sockets
  <2>1. came \in [Sockets -> 0 .. MaxUnits]
    BY DEF Streamed, StreamTypes
  <2>2. \A s \in Sockets : came[s] <= came[s]
    BY <2>1, UDTTransportAssumption
  <2> QED BY <2>1, <2>2 DEF Streamed, StreamTypes
<1>1. CASE Listen \/ StartWaiting \/ Close
  <2>1. UNCHANGED <<peer, hand, found, taken, came, signals, cache, both, dropped, status>>
    BY <1>1 DEF Listen, StartWaiting, Close, atHand, round, library
  <2>2. \/ io' = io
        \/ io \notin {"look", "parse"} /\ io' \notin {"look", "parse"}
    BY <1>1 DEF Listen, StartWaiting, Close
  <2>3. phase' # "closed" => phase # "closed"
    BY <1>1 DEF Listen, StartWaiting, Close
  <2>4. \A s \in Sockets : Reading(s)' => Reading(s)
    BY <1>1, <2>1 DEF Reading, Listen, StartWaiting, Close
  <2>5. \A s \in Sockets : Lasting(s)' \/ Reading(s)' => Lasting(s) \/ Reading(s)
    BY <2>1, <2>3, <2>4 DEF Lasting
  <2>6. Silent
    BY <1>0, <2>1, <2>2, <2>5 DEF Silent
  <2> QED BY <2>6, SilentIsQuiet, QuietKeepsStreamed
<1>2. CASE Closed
  <2>1. /\ UNCHANGED <<io, peer, hand, found, taken, came, signals, both, dropped, status>>
        /\ phase' = "closed" /\ cache' = [s \in Sockets |-> NoCache] /\ count = 0
    BY <1>2 DEF Closed, Release, atHand, round
  <2>2. io \notin {"receive", "look", "parse"}
    BY <2>1 DEF LifeCycle, Within, Outside
  <2>3. \A s \in Sockets : ~Lasting(s)' /\ ~Reading(s)'
    BY <2>1, <2>2 DEF Lasting, Reading
  <2>4. \A s \in Sockets : cache'[s] = NoCache
    BY <2>1
  <2>5. cache' \in [Sockets -> Positions \cup {NoCache}]
    BY <2>1
  <2>6. \A s \in Sockets : BlocksSignalled(s)' = BlocksSignalled(s)
    BY <2>1 DEF BlocksSignalled
  <2>7. Quiet
    BY <1>0, <2>1, <2>3, <2>4, <2>5, <2>6 DEF Quiet
  <2> QED BY <2>7, QuietKeepsStreamed
<1>3. ASSUME NEW t \in Sockets, Drop(t) PROVE Streamed'
  <2>1. /\ UNCHANGED <<phase, io, peer, hand, found, taken, came, signals, both>>
        /\ dropped' = dropped \cup {t} /\ CloseSocket(t)
    BY <1>3 DEF Drop, owner, atHand, round
  <2>2. /\ cache' \in [Sockets -> Positions \cup {NoCache}]
        /\ cache'[t] = NoCache /\ \A s \in Sockets \ {t} : cache'[s] = cache[s]
        /\ \A s \in Sockets : status'[s] \in {"none", "queued", "connected"} =>
              status'[s] = status[s]
    BY <2>1, ClosedCache
  <2>3. \A s \in Sockets : Lasting(s)' \/ Reading(s)' => Lasting(s) \/ Reading(s)
    BY <2>1, <2>2 DEF Lasting, Reading
  <2>4. \A s \in Sockets : BlocksSignalled(s)' = BlocksSignalled(s)
    BY <2>1 DEF BlocksSignalled
  <2>5. \A s \in Sockets :
          \/ cache'[s] = cache[s]
          \/ cache'[s] = NoCache /\ (s \in dropped' \/ ~(Lasting(s)' \/ Reading(s)'))
    BY <2>1, <2>2
  <2>6. Quiet
    BY <1>0, <2>1, <2>2, <2>3, <2>4, <2>5 DEF Quiet
  <2> QED BY <2>6, QuietKeepsStreamed
<1> QED BY <1>1, <1>2, <1>3

LEMMA StreamFacts ==
  ASSUME Streamed
  PROVE  /\ came \in [Sockets -> 0 .. MaxUnits] /\ \A s \in Sockets : came[s] <= came[s]
         /\ both \in BOOLEAN /\ signals \in [Sockets -> Seq(Signals)] /\ dropped \subseteq Sockets
         /\ cache \in [Sockets -> Positions \cup {NoCache}]
<1>1. came \in [Sockets -> 0 .. MaxUnits]
  BY DEF Streamed, StreamTypes
<1>2. \A s \in Sockets : came[s] <= came[s]
  BY <1>1, UDTTransportAssumption
<1> QED BY <1>1, <1>2 DEF Streamed, StreamTypes

\* The steps of the thread that signal nothing and read nothing.
LEMMA SilentThread ==
  ASSUME LifeCycle, Ordered, Streamed, Enter \/ Check \/ Accept \/ Wait \/ ServedAll
  PROVE  Streamed'
<1>1. UNCHANGED <<phase, hand, found, taken, came, signals, cache, dropped>>
  BY DEF Enter, Check, Accept, Wait, ServedAll, owner, atHand, library
<1>2. io \notin {"look", "parse"} /\ io' \notin {"receive", "look", "parse"}
  BY DEF Enter, Check, Accept, Wait, ServedAll, Goes
<1>3. both' \in BOOLEAN
  <2>1. CASE Wait
    BY <2>1, StreamFacts DEF Wait
  <2>2. CASE ~Wait
    BY <2>2, StreamFacts DEF Enter, Check, Accept, ServedAll, round
  <2> QED BY <2>1, <2>2
<1>4. status \in [Sockets -> States]
  BY DEF Ordered, Streams
<1>5. ASSUME NEW s \in Sockets, status'[s] \in {"none", "queued", "connected"}
      PROVE  status[s] \in {"none", "queued", "connected"}
  <2>1. \/ status' = status
        \/ \E t \in Sockets : status[t] = "queued" /\ status' = [status EXCEPT ![t] = "connected"]
    BY DEF Enter, Check, Accept, Wait, ServedAll, library
  <2> QED BY <1>4, <1>5, <2>1
<1>6. \A s \in Sockets : Lasting(s)' \/ Reading(s)' => Lasting(s) \/ Reading(s)
  BY <1>1, <1>2, <1>5 DEF Lasting, Reading
<1>7. Silent
  BY <1>1, <1>2, <1>3, <1>6, StreamFacts DEF Silent
<1> QED BY <1>7, SilentIsQuiet, QuietKeepsStreamed

LEMMA AddKeepsStreamed ==
  ASSUME LifeCycle, Ordered, Streamed, Add
  PROVE  Streamed'
<1>1. /\ UNCHANGED <<phase, hand, found, taken, came, status, cache, both, dropped>>
      /\ io = "add" /\ io' = "wait" /\ peer \in Sockets
  BY DEF Add, owner, round, Goes, Ordered, Order
<1>2. /\ signals' \in [Sockets -> Seq(Signals)]
      /\ \A s \in Sockets : BlocksSignalled(s)' = BlocksSignalled(s)
  <2>1. CASE signals' = Signal(peer, Connected)
    <3>1. PICK t \in Sockets : t = peer
      BY <1>1
    <3>2. signals' = Signal(t, Connected)
      BY <2>1, <3>1
    <3> QED BY <3>2, NoBlock
  <2>2. CASE signals' = signals
    BY <2>2, StreamFacts DEF BlocksSignalled
  <2> QED BY <2>1, <2>2 DEF Add
<1>3. \A s \in Sockets : Lasting(s)' \/ Reading(s)' => Lasting(s) \/ Reading(s)
  BY <1>1 DEF Lasting, Reading
<1>4. \A s \in Sockets : cache'[s] = cache[s]
  BY <1>1
<1>5. Quiet
  BY <1>1, <1>2, <1>3, <1>4, StreamFacts DEF Quiet
<1> QED BY <1>5, QuietKeepsStreamed

\* A socket that was lost is closed: nothing is read from it any more.
LEMMA LoseKeepsStreamed ==
  ASSUME Ordered, Streamed, NEW t \in Sockets, Lose(t, "serve"), io = "serve",
         signals[t] # <<>>, status[t] # "connected",
         UNCHANGED <<phase, hand, found, taken, came, both, dropped>>
  PROVE  Streamed'
<1>1. /\ CloseSocket(t) /\ io' = "serve" /\ peer' = peer
      /\ \/ signals' = Signal(t, Disconnected)
         \/ signals' = signals
  BY DEF Lose
<1>2. /\ cache' \in [Sockets -> Positions \cup {NoCache}]
      /\ cache'[t] = NoCache /\ \A s \in Sockets \ {t} : cache'[s] = cache[s]
      /\ \A s \in Sockets : status'[s] \in {"none", "queued", "connected"} =>
           status'[s] = status[s]
  BY <1>1, ClosedCache
<1>3. status[t] \notin {"none", "queued", "connected"}
  BY DEF Ordered, Order
<1>4. /\ signals' \in [Sockets -> Seq(Signals)]
      /\ \A s \in Sockets : BlocksSignalled(s)' = BlocksSignalled(s)
  <2>1. CASE signals' = Signal(t, Disconnected)
    BY <2>1, NoBlock
  <2>2. CASE signals' = signals
    BY <2>2, StreamFacts DEF BlocksSignalled
  <2> QED BY <1>1, <2>1, <2>2
<1>5. \A s \in Sockets : Lasting(s)' \/ Reading(s)' => Lasting(s) \/ Reading(s)
  BY <1>1, <1>2 DEF Lasting, Reading
<1>6. ~(Lasting(t)' \/ Reading(t)')
  BY <1>1, <1>2, <1>3 DEF Lasting, Reading
<1>7. \A s \in Sockets :
        \/ cache'[s] = cache[s]
        \/ cache'[s] = NoCache /\ (s \in dropped' \/ ~(Lasting(s)' \/ Reading(s)'))
  <2> TAKE s \in Sockets
  <2>1. CASE s = t
    BY <1>2, <1>6, <2>1
  <2>2. CASE s # t
    BY <1>2, <2>2
  <2> QED BY <2>1, <2>2
<1>8. Quiet
  BY <1>1, <1>2, <1>4, <1>5, <1>7, StreamFacts DEF Quiet
<1> QED BY <1>8, QuietKeepsStreamed

LEMMA ServeKeepsStreamed ==
  ASSUME LifeCycle, Ordered, Streamed, ServeRead \/ ServeWrite
  PROVE  Streamed'
<1>1. /\ UNCHANGED <<phase, hand, found, taken, came, both, dropped>>
      /\ io = "serve"
  BY DEF ServeRead, ServeWrite, owner
<1>2. PICK t \in readfds \cup writefds :
        IF status[t] = "connected"
        THEN /\ UNCHANGED <<status, signals, cache>>
             /\ \/ peer' = t /\ io' = "receive"
                \/ UNCHANGED <<io, peer>>
        ELSE Lose(t, "serve")
  <2>1. CASE ServeRead
    BY <2>1 DEF ServeRead
  <2>2. CASE ServeWrite
    BY <2>2 DEF ServeWrite
  <2> QED BY <2>1, <2>2
<1>3. t \in Sockets /\ signals[t] # <<>>
  BY DEF Ordered, Order
<1>4. CASE status[t] = "connected"
  <2>1. /\ UNCHANGED <<status, signals, cache>>
        /\ \/ peer' = t /\ io' = "receive"
           \/ UNCHANGED <<io, peer>>
    BY <1>2, <1>4
  <2>2. phase # "closed"
    BY <1>1 DEF LifeCycle, Within
  <2>3. \A s \in Sockets : Lasting(s)' \/ Reading(s)' => Lasting(s) \/ Reading(s)
    BY <1>1, <1>4, <2>1, <2>2 DEF Lasting, Reading
  <2>4. Silent
    BY <1>1, <2>1, <2>3, StreamFacts DEF Silent
  <2> QED BY <2>4, SilentIsQuiet, QuietKeepsStreamed
<1>5. CASE status[t] # "connected"
  <2>1. Lose(t, "serve")
    BY <1>2, <1>5
  <2> QED BY <1>1, <1>3, <1>5, <2>1, LoseKeepsStreamed
<1> QED BY <1>4, <1>5

-----------------------------------------------------------------------------
(* Reading                                                                 *)

LEMMA UnitsInARow ==
  ASSUME NEW first \in Nat, NEW last \in first .. MaxUnits
  PROVE  LET units == [i \in 1 .. last - first |-> first + i]
         IN  units \in Positions /\ Len(units) = last - first /\ UpTo(units, last)
<1>0. MaxUnits \in Nat /\ last \in Nat /\ last - first \in Nat
  BY UDTTransportAssumption
<1>1. PICK units : units = [i \in 1 .. last - first |-> first + i]
  OBVIOUS
<1>2. \A i \in 1 .. last - first : first + i \in 1 .. MaxUnits
  BY <1>0
<1>3. units \in Positions
  BY <1>0, <1>1, <1>2 DEF Positions
<1>4. Len(units) = last - first
  BY <1>0, <1>1
<1>5. \A i \in 1 .. Len(units) : units[i] = last - Len(units) + i
  BY <1>0, <1>1, <1>4
<1> QED BY <1>1, <1>3, <1>4, <1>5 DEF UpTo

LEMMA ReceiveKeepsStreamed ==
  ASSUME LifeCycle, Ordered, Streamed, Receive
  PROVE  Streamed'
<1>1. /\ UNCHANGED <<phase, found, status, came, signals, cache, both, dropped>>
      /\ io = "receive" /\ peer \in Sockets
  BY DEF Receive, owner, round, Ordered, Order
<1>2. hand = <<>> /\ Len(hand) = 0
  BY <1>1 DEF Streamed, AtHand
<1>3. CASE io' = "serve" /\ peer' = NoSocket /\ UNCHANGED <<hand, taken, reads>>
  <2>1. \A s \in Sockets : Lasting(s)' \/ Reading(s)' => Lasting(s) \/ Reading(s)
    BY <1>1, <1>3 DEF Lasting, Reading
  <2>2. Silent
    BY <1>1, <1>3, <2>1, StreamFacts DEF Silent
  <2> QED BY <2>2, SilentIsQuiet, QuietKeepsStreamed
<1>4. ASSUME NEW n \in (taken[peer] + 1) .. came[peer],
             hand' = [i \in 1 .. n - taken[peer] |-> taken[peer] + i],
             taken' = [taken EXCEPT ![peer] = n],
             io' = "look", peer' = peer
      PROVE  Streamed'
  <2>1. PICK p \in Sockets : p = peer
    BY <1>1
  <2>2. /\ taken \in [Sockets -> 0 .. MaxUnits] /\ came \in [Sockets -> 0 .. MaxUnits]
        /\ \A s \in Sockets : taken[s] <= came[s]
    BY DEF Streamed, StreamTypes
  <2>3. /\ taken[p] \in Nat /\ n \in taken[p] .. MaxUnits /\ n <= came[p]
        /\ n \in 0 .. MaxUnits
    BY <1>4, <2>1, <2>2, UDTTransportAssumption
  <2>4. hand' \in Positions /\ Len(hand') = n - taken[p] /\ UpTo(hand', n)
    <3>1. hand' = [i \in 1 .. n - taken[p] |-> taken[p] + i]
      BY <1>4, <2>1
    <3> QED BY <2>3, <3>1, UnitsInARow
  <2>5. /\ taken' \in [Sockets -> 0 .. MaxUnits] /\ taken'[p] = n
        /\ \A s \in Sockets \ {p} : taken'[s] = taken[s]
    BY <1>4, <2>1, <2>2, <2>3
  <2>6. StreamTypes'
    <3>1. \A s \in Sockets : taken'[s] <= came'[s]
      BY <1>1, <2>2, <2>3, <2>5
    <3> QED BY <1>1, <2>2, <2>4, <2>5, <3>1 DEF Streamed, StreamTypes
  <2>7. AtHand'
    <3>1. taken'[peer'] = n
      BY <1>4, <2>1, <2>5
    <3>2. UpTo(hand', taken'[peer'])
      BY <2>4, <3>1
    <3> QED BY <1>4, <3>2 DEF AtHand, UpTo
  <2>8. /\ \A s \in Sockets : Held(s) = 0
        /\ Held(p)' = n - taken[p] /\ \A s \in Sockets \ {p} : Held(s)' = 0
    BY <1>2, <1>4, <2>1, <2>4 DEF Held
  <2>9. \A s \in Sockets : taken'[s] - Held(s)' = taken[s] - Held(s)
    <3> TAKE s \in Sockets
    <3>1. CASE s = p
      BY <2>3, <2>5, <2>8, <3>1
    <3>2. CASE s # p
      BY <2>5, <2>8, <3>2
    <3> QED BY <3>1, <3>2
  <2>10. ASSUME NEW s \in Sockets PROVE Kept(s)'
    <3>1. Kept(s) /\ cache' = cache /\ taken'[s] - Held(s)' = taken[s] - Held(s)
      BY <1>1, <2>9 DEF Streamed
    <3> QED BY <3>1 DEF Kept, UpTo, WholeBlocks
  <2>11. ASSUME NEW s \in Sockets \ dropped' PROVE Accounted(s)'
    <3>1. Accounted(s) /\ BlocksSignalled(s)' = BlocksSignalled(s)
      BY <1>1 DEF Streamed, BlocksSignalled
    <3>2. CachedUnits(s)' = CachedUnits(s)
      BY <1>1 DEF CachedUnits
    <3>3. BlocksSignalled(s)' = [i \in 1 .. Len(BlocksSignalled(s)') |-> i]
      BY <3>1 DEF Accounted
    <3>4. ASSUME Lasting(s)' \/ Reading(s)'
          PROVE  taken'[s] = Parts * Len(BlocksSignalled(s)') + CachedUnits(s)' + Held(s)'
      <4>1. Lasting(s) \/ Reading(s)
        BY <1>1, <1>4, <3>4 DEF Lasting, Reading
      <4>2. taken[s] = Parts * Len(BlocksSignalled(s)) + CachedUnits(s) + Held(s)
        BY <3>1, <4>1 DEF Accounted
      <4> DEFINE known == Parts * Len(BlocksSignalled(s)) + CachedUnits(s)
      <4>3. known \in Int
        <5>1. Len(BlocksSignalled(s)) \in Nat
          BY SelectedProperties DEF BlocksSignalled, Streamed, StreamTypes
        <5>2. CachedUnits(s) \in Nat
          BY StreamFacts DEF CachedUnits, Positions
        <5> QED BY <5>1, <5>2, UDTTransportAssumption
      <4>4. taken'[s] = known + Held(s)'
        <5> HIDE DEF known
        <5>1. taken[s] = known + 0
          BY <2>8, <4>2 DEF known
        <5>2. CASE s = p
          BY <2>3, <2>5, <2>8, <4>3, <5>1, <5>2
        <5>3. CASE s # p
          BY <2>5, <2>8, <4>3, <5>1, <5>3
        <5> QED BY <5>2, <5>3
      <4> QED BY <3>1, <3>2, <4>4
    <3> QED BY <3>3, <3>4 DEF Accounted
  <2> QED BY <2>6, <2>7, <2>10, <2>11 DEF Streamed
<1> QED BY <1>3, <1>4 DEF Receive

\* What is cached goes before what was received.
LEMMA LookUpKeepsStreamed ==
  ASSUME LifeCycle, Ordered, Streamed, LookUp
  PROVE  Streamed'
<1>1. /\ UNCHANGED <<phase, peer, status, came, taken, signals, both, dropped>>
      /\ io = "look" /\ io' = "parse" /\ peer \in Sockets
  BY DEF LookUp, owner, round, library, Goes, Ordered, Order
<1>2. PICK p \in Sockets : p = peer
  BY <1>1
<1>3. /\ hand \in Positions /\ Len(hand) \in Nat /\ UpTo(hand, taken[p]) /\ taken[p] \in Nat
      /\ cache \in [Sockets -> Positions \cup {NoCache}]
  <2>1. taken[p] \in Nat
    BY UDTTransportAssumption DEF Streamed, StreamTypes
  <2> QED BY <1>1, <1>2, <2>1 DEF Streamed, StreamTypes, AtHand, Positions
<1>4. CASE cache[p] = NoCache
  <2>1. found' = FALSE /\ hand' = hand /\ cache' = cache
    <3>1. found' = FALSE
      BY <1>2, <1>4 DEF LookUp
    <3>2. cache' = [cache EXCEPT ![p] = cache[p]]
      BY <1>2, <3>1 DEF LookUp
    <3>3. cache' = cache
      BY <1>3, <3>2
    <3> QED BY <3>1, <3>3 DEF LookUp
  <2>2. StreamTypes'
    BY <1>1, <2>1 DEF Streamed, StreamTypes
  <2>3. AtHand'
    BY <1>1, <1>2, <1>3, <1>4, <2>1 DEF AtHand, UpTo
  <2>4. ASSUME NEW s \in Sockets PROVE Kept(s)'
    <3>1. Kept(s)
      BY DEF Streamed
    <3> QED BY <1>1, <2>1, <3>1 DEF Kept, UpTo, WholeBlocks, Held
  <2>5. ASSUME NEW s \in Sockets \ dropped' PROVE Accounted(s)'
    <3>1. Accounted(s)
      BY <1>1 DEF Streamed
    <3>2. Lasting(s)' \/ Reading(s)' => Lasting(s) \/ Reading(s)
      BY <1>1 DEF Lasting, Reading
    <3> QED BY <1>1, <2>1, <3>1, <3>2 DEF Accounted, BlocksSignalled, CachedUnits, Held
  <2> QED BY <2>2, <2>3, <2>4, <2>5 DEF Streamed
<1>5. CASE cache[p] # NoCache
  <2>1. /\ found' = TRUE /\ hand' = cache[p] \o hand /\ cache' = [cache EXCEPT ![p] = <<>>]
    BY <1>2, <1>5 DEF LookUp
  <2>2. cache[p] \in Positions /\ Len(cache[p]) \in Nat
    BY <1>3, <1>5 DEF Positions
  <2>3. UpTo(cache[p], taken[p] - Len(hand))
    <3>1. Kept(p)
      BY DEF Streamed
    <3>2. Held(p) = Len(hand)
      BY <1>2 DEF Held
    <3> QED BY <1>5, <3>1, <3>2 DEF Kept
  <2>4. cache[p] \o hand \in Positions /\ UpTo(cache[p] \o hand, taken[p])
    BY <1>3, <2>2, <2>3, UpToConcat
  <2>5. Len(hand') = Len(cache[p]) + Len(hand)
    <3>1. Len(cache[p] \o hand) = Len(cache[p]) + Len(hand)
      BY <1>3, <2>2, ConcatFacts DEF Positions
    <3> QED BY <2>1, <3>1
  <2>6. <<>> \in Positions /\ Len(<<>>) = 0 /\ <<>> # NoCache
    BY DEF Positions, NoCache
  <2>7. /\ cache' \in [Sockets -> Positions \cup {NoCache}] /\ cache'[p] = <<>>
        /\ \A s \in Sockets \ {p} : cache'[s] = cache[s]
    BY <1>3, <2>1, <2>6
  <2>8. StreamTypes'
    BY <1>1, <2>1, <2>4, <2>7 DEF Streamed, StreamTypes
  <2>9. AtHand'
    <3>1. UpTo(hand', taken'[peer'])
      BY <1>1, <1>2, <2>1, <2>4
    <3>2. cache'[peer'] = <<>>
      BY <1>1, <1>2, <2>7
    <3>3. UpTo(hand, taken[peer])'
      BY <3>1 DEF UpTo
    <3> QED BY <1>1, <2>1, <3>2, <3>3 DEF AtHand
  <2>10. ASSUME NEW s \in Sockets PROVE Kept(s)'
    <3>1. CASE s = p
      <4>1. UpTo(cache'[s], taken'[s] - Held(s)') /\ WholeBlocks(cache'[s]) = 0
        BY <2>6, <2>7, <3>1 DEF UpTo, WholeBlocks
      <4> QED BY <4>1 DEF Kept, UpTo, WholeBlocks
    <3>2. CASE s # p
      <4>1. Kept(s) /\ cache'[s] = cache[s] /\ Held(s) = 0 /\ Held(s)' = 0
        BY <1>1, <1>2, <2>7, <3>2 DEF Streamed, Held
      <4> QED BY <1>1, <4>1 DEF Kept, UpTo, WholeBlocks
    <3> QED BY <3>1, <3>2
  <2>11. ASSUME NEW s \in Sockets \ dropped' PROVE Accounted(s)'
    <3>1. Accounted(s) /\ BlocksSignalled(s)' = BlocksSignalled(s) /\ taken' = taken
      BY <1>1 DEF Streamed, BlocksSignalled
    <3>2. Lasting(s)' \/ Reading(s)' => Lasting(s) \/ Reading(s)
      BY <1>1 DEF Lasting, Reading
    <3>3. BlocksSignalled(s)' = [i \in 1 .. Len(BlocksSignalled(s)') |-> i]
      BY <3>1 DEF Accounted
    <3>4. ASSUME Lasting(s)' \/ Reading(s)'
          PROVE  taken'[s] = Parts * Len(BlocksSignalled(s)') + CachedUnits(s)' + Held(s)'
      <4>1. taken[s] = Parts * Len(BlocksSignalled(s)) + CachedUnits(s) + Held(s)
        BY <3>1, <3>2, <3>4 DEF Accounted
      <4>2. CASE s # p
        <5>1. CachedUnits(s)' = CachedUnits(s) /\ Held(s)' = Held(s)
          BY <1>1, <1>2, <2>7, <4>2 DEF CachedUnits, Held
        <5> QED BY <3>1, <4>1, <5>1, Zenon
      <4>3. CASE s = p
        <5> DEFINE signalled == Parts * Len(BlocksSignalled(s))
        <5>1. signalled \in Int
          <6>1. Len(BlocksSignalled(s)) \in Nat
            BY SelectedProperties DEF BlocksSignalled, Streamed, StreamTypes
          <6> QED BY <6>1, UDTTransportAssumption
        <5>2. /\ CachedUnits(s) = Len(cache[p]) /\ Held(s) = Len(hand)
              /\ CachedUnits(s)' = 0 /\ Held(s)' = Len(hand')
          BY <1>1, <1>2, <1>5, <2>6, <2>7, <4>3 DEF CachedUnits, Held
        <5>3. taken[s] = signalled + CachedUnits(s)' + Held(s)'
          <6> HIDE DEF signalled
          <6>1. taken[s] = signalled + CachedUnits(s) + Held(s)
            BY <4>1 DEF signalled
          <6> QED BY <1>3, <2>2, <2>5, <5>1, <5>2, <6>1
        <5> QED BY <3>1, <5>3
      <4> QED BY <4>2, <4>3
    <3> QED BY <3>3, <3>4 DEF Accounted
  <2> QED BY <2>8, <2>9, <2>10, <2>11 DEF Streamed
<1> QED BY <1>4, <1>5

\* Whole blocks are signalled of what is at hand, and the rest of it is kept.
LEMMA ParseKeepsStreamed ==
  ASSUME LifeCycle, Ordered, Streamed, Parse
  PROVE  Streamed'
<1> DEFINE n == WholeBlocks(hand)
           rest == SubSeq(hand, n * Parts + 1, Len(hand))
           blocks == [i \in 1 .. n |-> BlockOf(hand[1]) + i - 1]
<1>1. /\ UNCHANGED <<phase, status, came, taken, both, dropped>>
      /\ io = "parse" /\ io' = "serve" /\ peer' = NoSocket /\ hand' = <<>> /\ found' = FALSE
      /\ peer \in Sockets
  BY DEF Parse, owner, round, library, Goes, Ordered, Order
<1>2. PICK p \in Sockets : p = peer
  BY <1>1
<1>3. /\ hand \in Positions /\ Len(hand) \in Nat /\ UpTo(hand, taken[p])
      /\ taken[p] \in 0 .. MaxUnits /\ taken[p] \in Nat
      /\ cache \in [Sockets -> Positions \cup {NoCache}]
      /\ signals \in [Sockets -> Seq(Signals)] /\ Parts \in Nat \ {0}
  <2>1. taken[p] \in 0 .. MaxUnits
    BY DEF Streamed, StreamTypes
  <2>2. hand \in Positions /\ UpTo(hand, taken[p])
    BY <1>1, <1>2 DEF Streamed, StreamTypes, AtHand
  <2> QED BY <2>1, <2>2, UDTTransportAssumption DEF Streamed, StreamTypes, Positions
<1>4. /\ n \in Nat /\ n * Parts \in Nat /\ n * Parts <= Len(hand) /\ WholeBlocks(rest) = 0
  BY <1>3, RestIsNoBlock
<1>5. rest \in Positions /\ Len(rest) = Len(hand) - n * Parts /\ UpTo(rest, taken[p])
  <2> HIDE DEF n
  <2> QED BY <1>3, <1>4, UpToRest
<1>6. \A i \in 1 .. n : blocks[i] \in 1 .. MaxUnits
  BY <1>3, BlocksAtHand
<1>7. /\ blocks \in Seq(Signals) /\ Len(blocks) = n
      /\ \A i \in 1 .. Len(blocks) : blocks[i] \in 1 .. MaxUnits
  <2>1. blocks \in [1 .. n -> 1 .. MaxUnits] /\ blocks \in [1 .. n -> Signals]
    BY <1>6 DEF Signals
  <2>2. Len(blocks) = n
    BY <1>4
  <2> HIDE DEF blocks, n
  <2> QED BY <1>4, <1>6, <2>1, <2>2
<1>8. signals' = [signals EXCEPT ![p] = signals[p] \o blocks] /\ cache' = Keep(rest)
  BY <1>2 DEF Parse
<1>9. WholeBlocks(hand) = n
  OBVIOUS
<1>10. \/ found = FALSE /\ cache[p] = NoCache
       \/ found = TRUE /\ cache[p] = <<>>
       \/ found = TRUE /\ cache[p] = NoCache /\ p \in dropped
  <2>1. found \in BOOLEAN
    BY DEF Streamed, StreamTypes
  <2> QED BY <1>1, <1>2, <2>1 DEF Streamed, AtHand
<1> HIDE DEF n, rest, blocks
<1>11. /\ cache' \in [Sockets -> Positions \cup {NoCache}]
       /\ cache'[p] = rest \/ (cache'[p] = NoCache /\ p \in dropped)
       /\ \A s \in Sockets \ {p} : cache'[s] = cache[s]
  <2>1. \E left \in {rest, NoCache} :
          /\ cache' = [cache EXCEPT ![p] = left]
          /\ left = NoCache => p \in dropped \/ rest = NoCache
    <3>1. CASE found = FALSE
      <4>1. cache' = [cache EXCEPT ![p] = rest]
        BY <1>2, <1>8, <3>1 DEF Keep
      <4> QED BY <4>1
    <3>2. CASE found = TRUE /\ cache[p] = <<>>
      <4>1. <<>> \o rest = rest
        BY <1>5 DEF Positions
      <4>2. <<>> # NoCache
        BY DEF NoCache
      <4>3. cache' = [cache EXCEPT ![p] = cache[p] \o rest]
        BY <1>2, <1>8, <3>2, <4>2 DEF Keep
      <4> QED BY <3>2, <4>1, <4>3
    <3>3. CASE found = TRUE /\ cache[p] = NoCache /\ p \in dropped
      <4>1. cache' = [cache EXCEPT ![p] = NoCache]
        BY <1>2, <1>8, <3>3 DEF Keep
      <4> QED BY <3>3, <4>1
    <3> QED BY <1>10, <3>1, <3>2, <3>3
  <2>2. PICK left \in {rest, NoCache} :
          /\ cache' = [cache EXCEPT ![p] = left]
          /\ left = NoCache => p \in dropped \/ rest = NoCache
    BY <2>1
  <2> QED BY <1>3, <1>5, <2>2
<1>12. /\ signals' \in [Sockets -> Seq(Signals)] /\ signals'[p] = signals[p] \o blocks
       /\ \A s \in Sockets \ {p} : signals'[s] = signals[s]
  <2>1. signals[p] \o blocks \in Seq(Signals)
    BY <1>3, <1>7, ConcatFacts
  <2> QED BY <1>3, <1>8, <2>1
<1>13. <<>> \in Positions /\ Len(<<>>) = 0
  BY DEF Positions
<1>14. StreamTypes'
  BY <1>1, <1>11, <1>12, <1>13 DEF Streamed, StreamTypes
<1>15. AtHand'
  BY <1>1 DEF AtHand
<1>16. \A s \in Sockets : Held(s)' = 0 /\ (s # p => Held(s) = 0) /\ Held(p) = Len(hand)
  BY <1>1, <1>2, <1>13 DEF Held
<1>17. ASSUME NEW s \in Sockets PROVE Kept(s)'
  <2>1. CASE s = p
    <3>1. CASE cache'[p] = rest
      <4>1. UpTo(cache'[s], taken'[s] - Held(s)') /\ WholeBlocks(cache'[s]) = 0
        <5>1. taken'[s] - Held(s)' = taken[p]
          BY <1>1, <1>3, <1>16, <2>1
        <5> QED BY <1>4, <1>5, <2>1, <3>1, <5>1
      <4> QED BY <4>1 DEF Kept, UpTo, WholeBlocks
    <3>2. CASE cache'[p] = NoCache
      BY <2>1, <3>2 DEF Kept
    <3> QED BY <1>11, <3>1, <3>2
  <2>2. CASE s # p
    <3>1. Kept(s) /\ cache'[s] = cache[s] /\ taken'[s] - Held(s)' = taken[s] - Held(s)
      BY <1>1, <1>11, <1>16, <2>2 DEF Streamed
    <3> QED BY <3>1 DEF Kept, UpTo, WholeBlocks
  <2> QED BY <2>1, <2>2
<1>18. ASSUME NEW s \in Sockets \ dropped', s # p PROVE Accounted(s)'
  <2>1. Accounted(s)
    BY <1>1 DEF Streamed
  <2>2. BlocksSignalled(s)' = BlocksSignalled(s)
    BY <1>12, <1>18 DEF BlocksSignalled
  <2>3. CachedUnits(s)' = CachedUnits(s) /\ Held(s)' = Held(s)
    BY <1>11, <1>16, <1>18 DEF CachedUnits
  <2>4. Lasting(s)' \/ Reading(s)' => Lasting(s) \/ Reading(s)
    BY <1>1 DEF Lasting, Reading
  <2>5. BlocksSignalled(s)' = [i \in 1 .. Len(BlocksSignalled(s)') |-> i]
    BY <2>1, <2>2 DEF Accounted
  <2>6. ASSUME Lasting(s)' \/ Reading(s)'
        PROVE  taken'[s] = Parts * Len(BlocksSignalled(s)') + CachedUnits(s)' + Held(s)'
    <3>1. taken[s] = Parts * Len(BlocksSignalled(s)) + CachedUnits(s) + Held(s)
      BY <2>1, <2>4, <2>6 DEF Accounted
    <3>2. taken' = taken
      BY <1>1
    <3> QED BY <2>2, <2>3, <3>1, <3>2, Zenon
  <2> QED BY <2>5, <2>6 DEF Accounted
<1>19. ASSUME p \notin dropped' PROVE Accounted(p)'
  <2> DEFINE b == Len(BlocksSignalled(p))
  <2>1. BlocksSignalled(p) \in Seq(Signals) /\ b \in Nat
    BY <1>3, SelectedProperties DEF BlocksSignalled
  <2>2. BlocksSignalled(p) \in Seq(Int)
    BY <2>1, UDTTransportAssumption DEF Signals, Connected, Disconnected
  <2>3. Accounted(p) /\ Reading(p)
    BY <1>1, <1>2, <1>19 DEF Streamed, Reading
  <2>4. BlocksSignalled(p) = [i \in 1 .. Len(BlocksSignalled(p)) |-> i]
    BY <2>3 DEF Accounted
  <2>5. CachedUnits(p) = 0
    <3>1. cache[p] = NoCache \/ cache[p] = <<>>
      BY <1>10
    <3> QED BY <1>13, <3>1 DEF CachedUnits
  <2>6. taken[p] = Parts * b + Len(hand) /\ Parts * b \in Nat
    <3>1. taken[p] = Parts * b + CachedUnits(p) + Held(p)
      BY <2>3 DEF Accounted
    <3>2. Parts * b \in Nat
      BY <1>3, <2>1
    <3> HIDE DEF b
    <3> QED BY <1>3, <1>16, <2>5, <3>1, <3>2
  <2>7. hand # <<>> => BlockOf(hand[1]) = b + 1
    <3>1. UpTo(hand, Parts * b + Len(hand))
      BY <1>3, <2>6
    <3> HIDE DEF b
    <3> QED BY <1>3, <2>1, <3>1, BlocksGoOn
  <2>8. blocks = [i \in 1 .. n |-> b + 1 + i - 1]
    <3>1. CASE hand # <<>>
      <4> HIDE DEF b
      <4> QED BY <2>7, <3>1 DEF blocks
    <3>2. CASE hand = <<>>
      <4>1. n = 0
        BY <3>2 DEF n, WholeBlocks
      <4> HIDE DEF b
      <4> QED BY <4>1 DEF blocks
    <3> QED BY <3>1, <3>2
  <2>9. BlocksSignalled(p)' = BlocksSignalled(p) \o blocks
    <3>1. Selected(signals[p] \o blocks, 1 .. MaxUnits)
            = Selected(signals[p], 1 .. MaxUnits) \o blocks
      <4>1. signals[p] \in Seq(Signals)
        BY <1>3
      <4>2. blocks \in Seq(Signals)
        BY <1>7
      <4>3. PICK numbers : numbers = 1 .. MaxUnits
        OBVIOUS
      <4>4. \A i \in 1 .. Len(blocks) : blocks[i] \in numbers
        BY <1>7, <4>3
      <4>5. Selected(signals[p] \o blocks, numbers) = Selected(signals[p], numbers) \o blocks
        BY <4>1, <4>2, <4>4, SelectedConcat
      <4> QED BY <4>3, <4>5
    <3> QED BY <1>12, <3>1 DEF BlocksSignalled
  <2>10. /\ Len(BlocksSignalled(p)') = b + n
         /\ BlocksSignalled(p)' = [i \in 1 .. Len(BlocksSignalled(p)') |-> i]
    BY <1>4, <2>2, <2>4, <2>8, <2>9, MoreInARow
  <2>11. CachedUnits(p)' = Len(hand) - n * Parts
    <3>1. cache'[p] = rest /\ rest # NoCache
      <4>1. rest # NoCache
        BY <1>5, UDTTransportAssumption DEF Positions, NoCache
      <4> QED BY <1>1, <1>11, <1>19, <4>1
    <3> QED BY <1>5, <3>1 DEF CachedUnits
  <2>12. taken'[p] = Parts * (b + n) + CachedUnits(p)' + Held(p)'
    <3> HIDE DEF b
    <3>1. Parts * (b + n) = Parts * b + n * Parts
      BY <1>3, <1>4, <2>1
    <3>2. taken'[p] = taken[p]
      BY <1>1
    <3>3. Parts * b + n * Parts + (Len(hand) - n * Parts) + 0 = Parts * b + Len(hand)
      BY <1>3, <1>4, <2>6
    <3> QED BY <1>16, <2>6, <2>11, <3>1, <3>2, <3>3
  <2>13. taken'[p] = Parts * Len(BlocksSignalled(p)') + CachedUnits(p)' + Held(p)'
    <3> HIDE DEF b
    <3> QED BY <2>10, <2>12
  <2> QED BY <2>10, <2>13 DEF Accounted
<1>20. \A s \in Sockets \ dropped' : Accounted(s)'
  BY <1>18, <1>19
<1> QED BY <1>14, <1>15, <1>17, <1>20 DEF Streamed

-----------------------------------------------------------------------------
\* Where the units of a stream are is an inductive invariant, once it is known what the
\* thread may be doing and what was signalled.
THEOREM StreamsHold == Spec => []Streamed
<1>1. Init => Streamed
  <2> SUFFICES ASSUME Init PROVE Streamed
    OBVIOUS
  <2>1. MaxUnits \in Nat
    BY UDTTransportAssumption
  <2>2. StreamTypes
    <3>1. <<>> \in Positions /\ <<>> \in Seq(Signals) /\ 0 \in 0 .. MaxUnits
      BY <2>1 DEF Positions
    <3>2. /\ came = [s \in Sockets |-> 0] /\ taken = [s \in Sockets |-> 0]
          /\ cache = [s \in Sockets |-> NoCache] /\ signals = [s \in Sockets |-> <<>>]
          /\ hand = <<>> /\ found = FALSE /\ both = FALSE /\ dropped = {}
      BY DEF Init
    <3>3. came \in [Sockets -> 0 .. MaxUnits] /\ taken \in [Sockets -> 0 .. MaxUnits]
      BY <2>1, <3>2
    <3>4. \A s \in Sockets : taken[s] <= came[s]
      BY <3>2
    <3>5. cache \in [Sockets -> Positions \cup {NoCache}] /\ signals \in [Sockets -> Seq(Signals)]
      BY <3>1, <3>2
    <3> QED BY <3>1, <3>2, <3>3, <3>4, <3>5 DEF StreamTypes
  <2>3. AtHand
    BY DEF Init, AtHand
  <2>4. \A s \in Sockets : Kept(s)
    BY DEF Init, Kept
  <2>5. ASSUME NEW s \in Sockets PROVE Accounted(s)
    <3>1. BlocksSignalled(s) = <<>>
      BY SelectedEmpty DEF Init, BlocksSignalled
    <3>2. CachedUnits(s) = 0 /\ Held(s) = 0 /\ taken[s] = 0
      BY DEF Init, CachedUnits, Held
    <3>3. Len(BlocksSignalled(s)) = 0
      BY <3>1
    <3>4. BlocksSignalled(s) = [i \in 1 .. Len(BlocksSignalled(s)) |-> i]
      BY <3>1, <3>3
    <3> QED BY <3>2, <3>3, <3>4, UDTTransportAssumption DEF Accounted
  <2> QED BY <2>2, <2>3, <2>4, <2>5 DEF Streamed
<1>2. LifeCycle /\ Ordered /\ Streamed /\ [Next]_vars => Streamed'
  <2> SUFFICES ASSUME LifeCycle, Ordered, Streamed, [Next]_vars PROVE Streamed'
    OBVIOUS
  <2>1. CASE WaitForIO
    BY <2>1, SilentThread, AddKeepsStreamed, ServeKeepsStreamed, ReceiveKeepsStreamed,
       LookUpKeepsStreamed, ParseKeepsStreamed DEF WaitForIO
  <2>2. CASE \/ Listen \/ StartWaiting \/ Close \/ Closed
             \/ \E s \in Sockets : Drop(s)
    BY <2>2, OwnerKeepsStreamed
  <2>3. CASE \E s \in Sockets : Library(s)
    BY <2>3, LibraryKeepsStreamed
  <2>4. CASE UNCHANGED vars
    <3>1. UNCHANGED <<phase, io, peer, hand, found, taken, came, status, signals, cache, both,
                      dropped>>
      BY <2>4 DEF vars, owner, round, atHand, library
    <3>2. Silent
      BY <3>1, StreamFacts DEF Silent, Lasting, Reading
    <3> QED BY <3>2, SilentIsQuiet, QuietKeepsStreamed
  <2> QED BY <2>1, <2>2, <2>3, <2>4 DEF Next
<1> QED BY <1>1, <1>2, LifeCycleHolds, OrderHolds, PTL DEF Spec

\* The blocks of a connection are signalled in order, each once and none left out, however
\* its stream is cut into pieces, and no unit of it that was read is lost.
THEOREM BlocksAreInOrder == Spec => []BlocksInOrder
<1>1. LifeCycle /\ Streamed => BlocksInOrder
  <2> SUFFICES ASSUME LifeCycle, Streamed, NEW s \in Sockets \ dropped
               PROVE  /\ BlocksSignalled(s) = [i \in 1 .. Len(BlocksSignalled(s)) |-> i]
                      /\ status[s] = "connected" /\ epoll =>
                           taken[s] = Parts * Len(BlocksSignalled(s))
                                      + (IF cache[s] = NoCache THEN 0 ELSE Len(cache[s]))
                                      + (IF peer = s THEN Len(hand) ELSE 0)
    BY DEF BlocksInOrder
  <2>1. Accounted(s)
    BY DEF Streamed
  <2>2. status[s] = "connected" /\ epoll => Lasting(s)
    BY DEF LifeCycle, Lasting
  <2> QED BY <2>1, <2>2 DEF Accounted, CachedUnits, Held
<1> QED BY <1>1, LifeCycleHolds, StreamsHold, PTL

\* The members of UDTProtocolBase and the library's sets hold what they are meant to; what
\* is ready is watched, and what is cached makes up no block.
THEOREM TypesCorrect == Spec => []TypeOK
<1>1. LifeCycle /\ Ordered /\ Streamed => TypeOK
  <2> SUFFICES ASSUME LifeCycle, Ordered, Streamed PROVE TypeOK
    OBVIOUS
  <2>1. /\ phase \in {"new", "listening", "closing", "closed"}
        /\ listening = (phase = "listening") /\ epoll \in BOOLEAN
        /\ io \in Outside \cup Within
    BY DEF LifeCycle
  <2>2. count \in {0, 1}
    BY DEF LifeCycle
  <2>3. /\ readfds \subseteq Sockets /\ writefds \subseteq Sockets
        /\ peer \in Sockets \cup {NoSocket} /\ status \in [Sockets -> States]
        /\ watched \subseteq Sockets /\ reads \cup writes \subseteq watched
    BY DEF Ordered, Streams, Order
  <2>4. /\ both \in BOOLEAN /\ hand \in Positions /\ found \in BOOLEAN /\ dropped \subseteq Sockets
        /\ \A s \in Sockets : signals[s] \in Seq(Signals)
    BY DEF Streamed, StreamTypes
  <2>5. \A s \in Sockets : 0 <= taken[s] /\ taken[s] <= came[s] /\ came[s] <= MaxUnits
    BY UDTTransportAssumption DEF Streamed, StreamTypes
  <2>6. \A s \in Sockets :
          cache[s] = NoCache \/ (cache[s] \in Positions /\ WholeBlocks(cache[s]) = 0)
    BY DEF Streamed, StreamTypes, Kept
  <2> QED BY <2>1, <2>2, <2>3, <2>4, <2>5, <2>6 DEF TypeOK
<1> QED BY <1>1, LifeCycleHolds, OrderHolds, StreamsHold, PTL
=============================================================================
