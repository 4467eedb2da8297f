---------------------------- MODULE UDTTransport ----------------------------
(***************************************************************************)
(* UDTProtocolBase: connections over UDT, served by one thread.            *)
(*                                                                         *)
(* A thread of the pool runs waitForIO(): it accepts connections, waits in *)
(* turn for sockets to be read, and for sockets to be read or written, and *)
(* serves what it got, a socket at a time.  It puts the blocks of a stream *)
(* together again and signals connections, blocks and losses, which the    *)
(* event loop handles in that order.  The event loop may close a socket at *)
(* any moment, and the whole once.  Peers connect, send and go away; the   *)
(* UDT library's own thread breaks, closes and removes sockets.            *)
(*                                                                         *)
(* A stream is a sequence of units, numbered from 1; a block is Parts of   *)
(* them, the first of which holds its size.                                *)
(***************************************************************************)
EXTENDS Integers, Sequences, FiniteSets, Selection

CONSTANTS
  Sockets,
  Parts,    \* units of a block
  MaxUnits  \* bound on the units that a peer sends

ASSUME UDTTransportAssumption ==
  /\ Parts \in Nat \ {0}
  /\ MaxUnits \in Nat

VARIABLES
  phase,      \* the event loop: "new", "listening", "closing", "closed"
  listening,  \* m_listening
  epoll,      \* there is an epoll, and a listening socket
  count,      \* m_threadCount
  io,         \* where the thread is in waitForIO()
  both,       \* waitForSocketReadyToRead: wait for sockets to write, too
  readfds, writefds, \* what is left to serve of this round
  peer,       \* the socket that the thread has at hand, or NoSocket
  hand,       \* units received from it
  found,      \* whether its cached data was found
  status,     \* getsockstate() of a socket, "queued" until it is accepted
  watched,    \* sockets in the epoll
  reads, writes, \* those of them that are ready
  came, taken,   \* units of a socket's stream that arrived, and that were read
  cache,      \* m_cachedDataInfoHash: units kept for a socket, or NoCache
  signals,    \* signals[s]: what was signalled of s
  dropped     \* history: sockets that the event loop has closed

owner   == <<phase, listening, epoll>>
round   == <<both, readfds, writefds>>
atHand  == <<peer, hand, found>>
library == <<status, watched, reads, writes, came, taken>>
vars == <<owner, count, io, round, atHand, library, cache, signals, dropped>>

NoSocket == "no socket"
NoCache == <<0>>

States == {"none", "queued", "connected", "broken", "closed", "removed"}

\* waitForIO() outside of a round, and within one.
Outside == {"idle", "handed", "ended"}
Within  == {"check", "accept", "add", "wait", "serve", "receive", "look", "parse"}

\* What is signalled of a socket: these, and the numbers of blocks.
Connected == 0
Disconnected == -1

Signal(s, what) == [signals EXCEPT ![s] = Append(@, what)]

-----------------------------------------------------------------------------
(* Sockets of the library                                                  *)

\* locate(): neither closed nor removed.
Located(s) == status[s] \in {"connected", "broken"}

\* update_events() for a socket that the epoll watches.
Ready(set, s) == IF s \in watched THEN set \cup {s} ELSE set

\* newConnection(); acceptNewConnection() takes it from the queue.
Connect(s) ==
  /\ epoll /\ status[s] = "none"
  /\ status' = [status EXCEPT ![s] = "queued"]
  /\ UNCHANGED <<owner, count, io, round, atHand, watched, reads, writes, came, taken, cache,
                 signals, dropped>>

\* A peer's data arrives.
Arrive(s) ==
  /\ status[s] \in {"queued", "connected"} /\ came[s] < MaxUnits
  /\ came' = [came EXCEPT ![s] = @ + 1]
  /\ reads' = Ready(reads, s)
  /\ UNCHANGED <<owner, count, io, round, atHand, status, watched, writes, taken, cache,
                 signals, dropped>>

\* The peer's shutdown breaks the connection and updates no events.
Shutdown(s) ==
  /\ status[s] = "connected"
  /\ status' = [status EXCEPT ![s] = "broken"]
  /\ UNCHANGED <<owner, count, io, round, atHand, watched, reads, writes, came, taken, cache,
                 signals, dropped>>

\* checkTimers(): nothing was heard of the peer.
Expire(s) ==
  /\ status[s] = "connected"
  /\ status' = [status EXCEPT ![s] = "broken"]
  /\ reads' = Ready(reads, s)
  /\ writes' = Ready(writes, s)
  /\ UNCHANGED <<owner, count, io, round, atHand, watched, came, taken, cache, signals,
                 dropped>>

\* The buffer for sending is full, and has room again when the peer acknowledges.
Fill(s) ==
  /\ status[s] = "connected" /\ s \in writes
  /\ writes' = writes \ {s}
  /\ UNCHANGED <<owner, count, io, round, atHand, status, watched, reads, came, taken, cache,
                 signals, dropped>>

Acknowledge(s) ==
  /\ status[s] = "connected" /\ s \notin writes
  /\ writes' = Ready(writes, s)
  /\ UNCHANGED <<owner, count, io, round, atHand, status, watched, reads, came, taken, cache,
                 signals, dropped>>

\* checkBrokenSockets(): a broken socket is closed by the library.
Collect(s) ==
  /\ status[s] = "broken"
  /\ status' = [status EXCEPT ![s] = "closed"]
  /\ UNCHANGED <<owner, count, io, round, atHand, watched, reads, writes, came, taken, cache,
                 signals, dropped>>

\* removeSocket(): more than a second after it was closed, in which the thread comes round
\* if it runs and the epoll has the socket ready; a queue goes with its listening socket.
RemoveSocket(s) ==
  /\ \/ status[s] = "closed" /\ (io \in Outside \/ s \notin reads \cup writes)
     \/ status[s] = "queued" /\ ~epoll
  /\ status' = [status EXCEPT ![s] = "removed"]
  /\ watched' = watched \ {s}
  /\ reads' = reads \ {s}
  /\ writes' = writes \ {s}
  /\ UNCHANGED <<owner, count, io, round, atHand, came, taken, cache, signals, dropped>>

Library(s) ==
  \/ Connect(s) \/ Arrive(s) \/ Shutdown(s) \/ Expire(s) \/ Fill(s) \/ Acknowledge(s)
  \/ Collect(s) \/ RemoveSocket(s)

\* closeSocket(), under m_epollMutex: the library's close(), out of the epoll, and the
\* cached data dropped.
CloseSocket(s) ==
  /\ status' = [status EXCEPT ![s] = IF Located(s) THEN "closed" ELSE @]
  /\ watched' = watched \ {s}
  /\ reads' = reads \ {s}
  /\ writes' = writes \ {s}
  /\ cache' = [cache EXCEPT ![s] = NoCache]

-----------------------------------------------------------------------------
(* The event loop                                                          *)

\* listen().
Listen ==
  /\ phase = "new"
  /\ phase' = "listening"
  /\ listening' = TRUE
  /\ epoll' = TRUE
  /\ UNCHANGED <<count, io, round, atHand, library, cache, signals, dropped>>

\* startWaitingForIOInOneThread(): the pool gets the function to run.
StartWaiting ==
  /\ phase = "listening" /\ io = "idle"
  /\ io' = "handed"
  /\ UNCHANGED <<owner, count, round, atHand, library, cache, signals, dropped>>

\* The application closes a socket that it knows of, maybe in an event that close() has
\* processed while it waits.
Drop(s) ==
  /\ phase \in {"listening", "closing"} /\ signals[s] # <<>>
  /\ CloseSocket(s)
  /\ dropped' = dropped \cup {s}
  /\ UNCHANGED <<owner, count, io, round, atHand, came, taken, signals>>

\* close(): until the threads are gone ...
Close ==
  /\ phase = "listening"
  /\ phase' = "closing"
  /\ listening' = FALSE
  /\ UNCHANGED <<epoll, count, io, round, atHand, library, cache, signals, dropped>>

\* ... and then the listening socket and the epoll, with all that is cached.
Release ==
  /\ phase' = "closed"
  /\ epoll' = FALSE
  /\ watched' = {} /\ reads' = {} /\ writes' = {}
  /\ cache' = [s \in Sockets |-> NoCache]
  /\ UNCHANGED <<listening, count, io, round, atHand, status, came, taken, signals, dropped>>

\* Mutant: the threads are not waited for.
CloseAtOnce == phase = "closing" /\ Release

Closed == phase = "closing" /\ count = 0 /\ Release

-----------------------------------------------------------------------------
(* waitForIO()                                                             *)

Goes(from, to) == io = from /\ io' = to

\* The thread counts itself when it runs, and again when it leaves.
Enter ==
  /\ Goes("handed", "check")
  /\ count' = count + 1
  /\ UNCHANGED <<owner, round, atHand, library, cache, signals, dropped>>

\* Mutant: the thread leaves the count whenever it comes round.
CheckLeaving ==
  /\ io = "check"
  /\ io' = IF listening THEN "accept" ELSE "ended"
  /\ count' = count - 1
  /\ UNCHANGED <<owner, round, atHand, library, cache, signals, dropped>>

Check ==
  /\ io = "check"
  /\ IF listening THEN io' = "accept" /\ UNCHANGED count
     ELSE io' = "ended" /\ count' = count - 1
  /\ UNCHANGED <<owner, round, atHand, library, cache, signals, dropped>>

\* acceptNewConnection(): accept() ...
Accept ==
  /\ io = "accept"
  /\ IF \E s \in Sockets : status[s] = "queued"
     THEN \E s \in Sockets :
            /\ status[s] = "queued"
            /\ status' = [status EXCEPT ![s] = "connected"]
            /\ peer' = s
            /\ io' = "add"
     ELSE io' = "wait" /\ UNCHANGED <<status, peer>>
  /\ UNCHANGED <<owner, count, round, hand, found, watched, reads, writes, came, taken, cache,
                 signals, dropped>>

\* ... and the epoll: addEPoll() updates no events of a socket that is broken by then.
Add ==
  /\ Goes("add", "wait")
  /\ IF Located(peer)
     THEN /\ watched' = watched \cup {peer}
          /\ reads' = IF status[peer] = "connected" /\ came[peer] > taken[peer]
                      THEN reads \cup {peer} ELSE reads
          /\ writes' = IF status[peer] = "connected" THEN writes \cup {peer} ELSE writes
          /\ signals' = Signal(peer, Connected)
     ELSE UNCHANGED <<watched, reads, writes, signals>>
  /\ peer' = NoSocket
  /\ UNCHANGED <<owner, count, round, hand, found, status, came, taken, cache, dropped>>

\* Mutant: sockets to write are never waited for.
WaitToRead ==
  /\ Goes("wait", "serve")
  /\ readfds' = reads
  /\ UNCHANGED <<owner, count, both, writefds, atHand, library, cache, signals, dropped>>

\* epoll_wait(), of which both sets may be empty when it times out.
Wait ==
  /\ Goes("wait", "serve")
  /\ readfds' = reads
  /\ writefds' = IF both THEN writes ELSE {}
  /\ both' = ~both
  /\ UNCHANGED <<owner, count, atHand, library, cache, signals, dropped>>

\* Mutant: what is broken is signalled, and read from all the same.
LoseAndRead(s, next) ==
  /\ UNCHANGED <<status, watched, reads, writes, cache>>
  /\ peer' = s /\ io' = "receive"
  /\ signals' = Signal(s, Disconnected)

\* What both functions below do with a socket that is no longer connected.
Lose(s, next) ==
  /\ CloseSocket(s)
  /\ signals' = IF status[s] \in {"broken", "closed"} THEN Signal(s, Disconnected) ELSE signals
  /\ io' = next
  /\ UNCHANGED peer

\* processSocketReadyToRead(), up to the first recv().
ServeRead ==
  /\ io = "serve"
  /\ \E s \in readfds :
       /\ readfds' = readfds \ {s}
       /\ IF status[s] = "connected"
          THEN /\ peer' = s
               /\ io' = "receive"
               /\ UNCHANGED <<status, watched, reads, writes, cache, signals>>
          ELSE Lose(s, "serve")
  /\ UNCHANGED <<owner, count, both, writefds, hand, found, came, taken, dropped>>

\* processSocketReadyToWrite().
ServeWrite ==
  /\ io = "serve" /\ readfds = {}
  /\ \E s \in writefds :
       /\ writefds' = writefds \ {s}
       /\ IF status[s] = "connected"
          THEN UNCHANGED <<io, peer, status, watched, reads, writes, cache, signals>>
          ELSE Lose(s, "serve")
  /\ UNCHANGED <<owner, count, both, readfds, hand, found, came, taken, dropped>>

ServedAll ==
  /\ Goes("serve", "check") /\ readfds = {} /\ writefds = {}
  /\ UNCHANGED <<owner, count, round, atHand, library, cache, signals, dropped>>

\* recv() until there is no more or the buffer is full; none of a socket that was closed.
Receive ==
  /\ io = "receive"
  /\ IF Located(peer) /\ came[peer] > taken[peer]
     THEN \E n \in (taken[peer] + 1) .. came[peer] :
            /\ hand' = [i \in 1 .. n - taken[peer] |-> taken[peer] + i]
            /\ taken' = [taken EXCEPT ![peer] = n]
            /\ reads' = IF n = came[peer] THEN reads \ {peer} ELSE reads
            /\ io' = "look"
            /\ UNCHANGED peer
     ELSE io' = "serve" /\ peer' = NoSocket /\ UNCHANGED <<hand, taken, reads>>
  /\ UNCHANGED <<owner, count, round, found, status, watched, writes, came, cache, signals,
                 dropped>>

\* processStreamDataAfterReceived(), without m_epollMutex: what is cached goes before what
\* was received ...
LookUp ==
  /\ Goes("look", "parse")
  /\ found' = (cache[peer] # NoCache)
  /\ hand' = IF found' THEN cache[peer] \o hand ELSE hand
  /\ cache' = [cache EXCEPT ![peer] = IF found' THEN <<>> ELSE @]
  /\ UNCHANGED <<owner, count, round, peer, library, signals, dropped>>

\* Mutant: a block is taken for whole that lacks its last unit.
ShortBlocks(units) ==
  IF units # <<>> /\ units[1] % Parts = 1 % Parts THEN (Len(units) + 1) \div Parts ELSE 0

\* Whole blocks in front; none when the first unit is not the size of a block: what is taken
\* for a size then makes up a block that is no packet, if any.
WholeBlocks(units) ==
  IF units # <<>> /\ units[1] % Parts = 1 % Parts THEN Len(units) \div Parts ELSE 0

BlockOf(unit) == ((unit - 1) \div Parts) + 1

\* Mutant: the rest replaces nothing but what was cached before.
KeepFound(rest) == [cache EXCEPT ![peer] = IF found THEN rest ELSE @]

\* The rest is appended to the data that was found, even if that is no longer in the hash,
\* or is inserted.
Keep(rest) ==
  [cache EXCEPT ![peer] = IF ~found THEN rest ELSE IF @ = NoCache THEN @ ELSE @ \o rest]

\* ... blocks that are whole are signalled, and the rest is cached.
Parse ==
  /\ Goes("parse", "serve")
  /\ LET n == WholeBlocks(hand)
     IN  /\ signals' = [signals EXCEPT ![peer] =
              @ \o [i \in 1 .. n |-> BlockOf(hand[1]) + i - 1]]
         /\ cache' = Keep(SubSeq(hand, n * Parts + 1, Len(hand)))
  /\ peer' = NoSocket /\ hand' = <<>> /\ found' = FALSE
  /\ UNCHANGED <<owner, count, round, library, dropped>>

WaitForIO ==
  \/ Enter \/ Check \/ Accept \/ Add \/ Wait \/ ServeRead \/ ServeWrite \/ ServedAll
  \/ Receive \/ LookUp \/ Parse

-----------------------------------------------------------------------------
Init ==
  /\ phase = "new" /\ listening = FALSE /\ epoll = FALSE
  /\ count = 0 /\ io = "idle"
  /\ both = FALSE /\ readfds = {} /\ writefds = {}
  /\ peer = NoSocket /\ hand = <<>> /\ found = FALSE
  /\ status = [s \in Sockets |-> "none"]
  /\ watched = {} /\ reads = {} /\ writes = {}
  /\ came = [s \in Sockets |-> 0]
  /\ taken = [s \in Sockets |-> 0]
  /\ cache = [s \in Sockets |-> NoCache]
  /\ signals = [s \in Sockets |-> <<>>]
  /\ dropped = {}

Next ==
  \/ Listen \/ StartWaiting \/ Close \/ Closed
  \/ WaitForIO
  \/ \E s \in Sockets : Library(s) \/ Drop(s)

\* The pool runs what it is handed, the thread goes on and close() looks at the count again
\* and again; nobody has to connect, send, go away or close anything.
Fairness == WF_vars(WaitForIO) /\ WF_vars(Closed)

Spec == Init /\ [][Next]_vars /\ Fairness

-----------------------------------------------------------------------------
(* Properties                                                              *)

Positions == Seq(1 .. MaxUnits)
Signals == {Connected, Disconnected} \cup 1 .. MaxUnits

\* The state is what the members of UDTProtocolBase and the library's sets allow: what is
\* ready is watched, and nothing is cached that is as much as a whole block.
TypeOK ==
  /\ phase \in {"new", "listening", "closing", "closed"}
  /\ listening = (phase = "listening") /\ epoll \in BOOLEAN
  /\ count \in {0, 1}
  /\ io \in Outside \cup Within
  /\ both \in BOOLEAN /\ readfds \subseteq Sockets /\ writefds \subseteq Sockets
  /\ peer \in Sockets \cup {NoSocket} /\ hand \in Positions /\ found \in BOOLEAN
  /\ status \in [Sockets -> States]
  /\ watched \subseteq Sockets /\ reads \cup writes \subseteq watched
  /\ \A s \in Sockets : 0 <= taken[s] /\ taken[s] <= came[s] /\ came[s] <= MaxUnits
  /\ \A s \in Sockets :
       cache[s] = NoCache \/ (cache[s] \in Positions /\ WholeBlocks(cache[s]) = 0)
  /\ \A s \in Sockets : signals[s] \in Seq(Signals)
  /\ dropped \subseteq Sockets

BlocksSignalled(s) == Selected(signals[s], 1 .. MaxUnits)

\* However the stream of a connection is cut into pieces by the network and by the thread,
\* its blocks are signalled in order, each once and none left out, as long as the event
\* loop does not close the socket (closeSocket() drops the cached data while the thread may
\* be about to put it before what it received).  Until close(), no unit that was read from
\* a connection that lasts is lost: it is in a block that was signalled, in the cache or at
\* hand.
BlocksInOrder ==
  \A s \in Sockets \ dropped :
    /\ BlocksSignalled(s) = [i \in 1 .. Len(BlocksSignalled(s)) |-> i]
    /\ status[s] = "connected" /\ epoll =>
         taken[s] = Parts * Len(BlocksSignalled(s))
                    + (IF cache[s] = NoCache THEN 0 ELSE Len(cache[s]))
                    + (IF peer = s THEN Len(hand) ELSE 0)

\* A loss is the last that is signalled of a socket, though perhaps twice, and a connection
\* the first: no packet of a socket is handled after its disconnected(), on which the
\* servers forget its user.
LossIsLast ==
  \A s \in Sockets : \A i \in DOMAIN signals[s] :
    /\ (signals[s][i] = Connected) = (i = 1)
    /\ signals[s][i] = Disconnected =>
         \A j \in i .. Len(signals[s]) : signals[s][j] = Disconnected

\* The thread never uses an epoll or a listening socket that close() has released: close()
\* waits for it once it has counted itself, and before that m_listening stops it.
NoUseAfterRelease == io \in Within \ {"check"} => epoll

\* close() comes back: the thread looks at m_listening after every round, which ends.
CloseReturns == phase = "closing" ~> phase = "closed"

Over(s) ==
  \/ \E i \in DOMAIN signals[s] : signals[s][i] = Disconnected
  \/ s \in dropped \/ phase # "listening"

\* The loss of a connection that was signalled is signalled, too, when the epoll has the
\* socket ready to be written, as it has unless the connection broke before the epoll had
\* it or while the buffer for sending was full; only for that are sockets waited for that
\* can be written.
LossIsSignalled ==
  \A s \in Sockets :
    (s \in writes /\ status[s] \in {"broken", "closed"}) ~> Over(s)
=============================================================================
