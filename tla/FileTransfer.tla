---------------------------- MODULE FileTransfer ----------------------------
(***************************************************************************)
(* The transfer of files between the client service of a managed computer  *)
(* (APP/src/managementsystem/clientservice/clientservice/clientservice.cpp)*)
(* and the file management pane of administrators' control centers         *)
(* (APP/src/managementsystem/plugins/controlcenter/filemanagement/         *)
(* filemanagement.cpp).  The receiver of a file asks for its pieces in     *)
(* windows; either side has a FileManager that reads and writes them.      *)
(*                                                                         *)
(* Every process is an event loop.  inbox[p] holds the packets on their    *)
(* way to p's handlers, those on the network and those in the queued       *)
(* signals of p's parser: each of these hops keeps the order.  The signal  *)
(* `disconnected' makes one hop less than a packet, so PeerDisconnected    *)
(* may come before packets that arrived earlier.  FileManager is reduced   *)
(* to its queues and what it has verified; module FileManager has its      *)
(* threads and its files.                                                  *)
(***************************************************************************)
EXTENDS Naturals, Sequences, FiniteSets, SequencesExt, FiniteSetsExt, Selection

CONSTANTS
  Client,      \* the client service
  Admins,      \* the control centers
  Sockets,     \* the connections ever made
  Owner,       \* Owner[socket]: the administrator at its other end
  UDTSockets,  \* those of them that are UDT sockets; the others are TCP's
  Files,       \* the files, named by MD5 sum
  NumPieces,   \* NumPieces[file]
  Uploads,     \* Uploads[admin]: the files an administrator has, to upload
  Downloads,   \* the files the administrators ask the client for
  ClientFiles, \* the files the client has
  PiecesInOneRequest,        \* FILE_PIECES_IN_ONE_REQUEST (20)
  MaxAsks,     \* bound on how many transfers are asked for
  MaxDamaged,  \* bound on the pieces that arrive damaged
  MaxErrors,   \* bound on the reads that fail
  NoSocket     \* INVALID_SOCK_ID

Processes == Admins \cup {Client}

ASSUME FileTransferAssumption ==
  /\ Client \notin Admins
  /\ Owner \in [Sockets -> Admins] /\ IsFiniteSet(Sockets)
  /\ UDTSockets \subseteq Sockets
  /\ NoSocket \notin Sockets
  /\ NumPieces \in [Files -> Nat \ {0}]
  /\ Uploads \in [Admins -> SUBSET Files] /\ Downloads \subseteq Files
  /\ ClientFiles \subseteq Files
  /\ PiecesInOneRequest \in Nat \ {0}
  /\ MaxAsks \in Nat /\ MaxDamaged \in Nat /\ MaxErrors \in Nat

VARIABLES
  link,      \* link[socket]: "unused", "up" or "down"
  sockets,   \* sockets[p]: the sockets that p's RTP knows
  inbox,     \* inbox[p]: packets on their way to p's handlers
  peer,      \* m_peerSocket of each administrator
  filesList, \* filesList of each administrator
  toAdmin,   \* m_socketConnectedToAdmin of the client
  fileTX,    \* fileTXSocketHash: how often it maps a socket to a file
  requests,  \* fileTXRequestHash (client), fileTXRequestList (administrators)
  open,      \* open[p]: the files that p's FileManager has open
  verified,  \* verified[p][file]: the pieces that count as received
  reads, writes,  \* the request queues of p's FileManager
  readId,    \* its readId
  signals,   \* what it has signalled, waiting in p's event loop
  undefined, \* ghost: uses of a null pointer and of an empty list's first()
  asked,     \* ghost: which pieces were asked for over which socket
  asks,      \* ghost: how often each file was asked to be transferred
  misled,    \* ghost: <<socket, file>> when its administrator was told "done" too early
  damaged, errors  \* how many faults there were

linkVars  == <<link, sockets>>
adminVars == <<peer, filesList>>
fileVars  == <<open, verified>>
workVars  == <<reads, writes, readId, signals>>
faultVars == <<damaged, errors>>
ghosts    == <<undefined, misled>>
vars == <<linkVars, inbox, adminVars, toAdmin, fileTX, requests, fileVars,
          workVars, ghosts, asked, asks, faultVars>>

-----------------------------------------------------------------------------
(* Data.                                                                   *)

Pieces(file) == 0 .. NumPieces[file] - 1
IsWhole(p, file) == verified[p][file] = Pieces(file)

\* The indices that may be asked for: up to two windows past the last piece.
Indices == UNION {0 .. NumPieces[file] - 1 + 2 * PiecesInOneRequest : file \in Files}

Packet ==
  [type : {"upload", "download", "accepted", "refused", "done"},
   socket : Sockets, file : Files]
  \cup [type : {"request"}, socket : Sockets, file : Files, first : Indices, last : Indices]
  \cup [type : {"data"}, socket : Sockets, file : Files, piece : Indices]

ReadRequest  == [id : Nat, file : Files, piece : Indices]
WriteRequest == [file : Files, piece : Indices]
Signal ==
  [type : {"dataRead", "error"}, id : Nat, file : Files, piece : Indices]
  \cup [type : {"pieceVerified"}, file : Files, piece : Indices,
        ok : BOOLEAN, complete : BOOLEAN]

Say(type, socket, file) == [type |-> type, socket |-> socket, file |-> file]

RequestFileData(socket, file, first, last) ==
  [type |-> "request", socket |-> socket, file |-> file, first |-> first, last |-> last]

OtherEnd(p, socket) == IF p = Client THEN Owner[socket] ELSE Client

\* What sendReliableData() may return: a socket whose connection is lost
\* is still there until the loss is noticed.
SendResults(p, socket) ==
  IF socket \notin sockets[p] THEN {FALSE}
  ELSE IF link[socket] = "up" THEN {TRUE} ELSE BOOLEAN

\* The pieces that the requests among some packets ask for.
PiecesAsked(packets) ==
  UNION {{<<packet.socket, packet.file, piece>> : piece \in packet.first .. packet.last} :
           packet \in {q \in ToSet(packets) : q.type = "request"}}

\* p's event loop is done with the first `taken' packets of its inbox and
\* has sent `packets': what goes over a lost connection is lost.
Exchange(p, taken, packets) ==
  /\ inbox' = [q \in Processes |->
       (IF q = p THEN SubSeq(inbox[q], taken + 1, Len(inbox[q])) ELSE inbox[q])
       \o Selected(packets, { packet \in ToSet(packets) :
             OtherEnd(p, packet.socket) = q /\ link[packet.socket] = "up" })]
  /\ asked' = asked \cup PiecesAsked(packets)

Send(p, packets)  == Exchange(p, 0, packets)
Reply(p, packets) == Exchange(p, 1, packets)

\* The packet at the head of p's inbox is of this type.
Receives(p, type) == inbox[p] # <<>> /\ Head(inbox[p]).type = type

Signalled(p, type) == signals[p] # <<>> /\ Head(signals[p]).type = type
TakeSignal(p) == signals' = [signals EXCEPT ![p] = Tail(@)]

-----------------------------------------------------------------------------
(* What the handlers ask of the FileManager.                               *)

Close(p, files) == open' = [open EXCEPT ![p] = @ \ files]
Open(p, file)   == open' = [open EXCEPT ![p] = @ \cup {file}]

\* What a file that is opened again counts as received: the bitmap is saved
\* from time to time only.
Remembered(p, file) ==
  IF file \in open[p] \/ IsWhole(p, file) THEN {verified[p][file]} ELSE SUBSET verified[p][file]

\* readPiece() for every index of a range, each with the next readId.
ReadPieces(p, socket, file, first, last) ==
  LET count == last - first + 1 IN
  /\ reads' = [reads EXCEPT ![p] = @ \o
       [n \in 1 .. count |->
          [id |-> readId[p] + n - 1, file |-> file, piece |-> first + n - 1]]]
  /\ requests' = [requests EXCEPT ![p] =
       @ \cup {<<readId[p] + n - 1, socket>> : n \in 1 .. count}]
  /\ readId' = [readId EXCEPT ![p] = @ + count]

-----------------------------------------------------------------------------
Init ==
  /\ link = [socket \in Sockets |-> "unused"]
  /\ sockets = [p \in Processes |-> {}]
  /\ inbox = [p \in Processes |-> <<>>]
  /\ peer = [admin \in Admins |-> NoSocket]
  /\ filesList = [admin \in Admins |-> {}]
  /\ toAdmin = NoSocket
  /\ fileTX = [socket \in Sockets |-> [file \in Files |-> 0]]
  /\ requests = [p \in Processes |-> {}]
  /\ open = [p \in Processes |-> {}]
  /\ verified = [p \in Processes |-> [file \in Files |->
       IF file \in (IF p = Client THEN ClientFiles ELSE Uploads[p])
       THEN Pieces(file) ELSE {}]]
  /\ reads = [p \in Processes |-> <<>>]
  /\ writes = [p \in Processes |-> <<>>]
  /\ readId = [p \in Processes |-> 0]
  /\ signals = [p \in Processes |-> <<>>]
  /\ undefined = {}
  /\ asked = {}
  /\ asks = [file \in Files |-> 0]
  /\ misled = {}
  /\ damaged = 0 /\ errors = 0

-----------------------------------------------------------------------------
(* Connections.                                                            *)

\* An administrator connects.  The client closes the connection to the one
\* before: closing a TCP socket signals `disconnected', closing a UDT socket
\* does not.
Connect(admin, socket) ==
  /\ peer[admin] = NoSocket
  /\ Owner[socket] = admin /\ link[socket] = "unused"
  /\ link' = [s \in Sockets |-> IF s = socket THEN "up"
                                ELSE IF s = toAdmin THEN "down" ELSE link[s]]
  /\ sockets' = [sockets EXCEPT ![admin] = @ \cup {socket},
                                ![Client] = (@ \ ({toAdmin} \cap UDTSockets)) \cup {socket}]
  /\ peer' = [peer EXCEPT ![admin] = socket]
  /\ toAdmin' = socket
  /\ UNCHANGED <<inbox, filesList, fileTX, requests, fileVars, workVars,
                 ghosts, asked, asks, faultVars>>

Break(socket) ==
  /\ link[socket] = "up"
  /\ link' = [link EXCEPT ![socket] = "down"]
  /\ UNCHANGED <<sockets, inbox, adminVars, toAdmin, fileTX, requests, fileVars,
                 workVars, ghosts, asked, asks, faultVars>>

\* The last packet on its way over a lost connection has not arrived.
Lose(p, socket) ==
  LET sent == {i \in DOMAIN inbox[p] : inbox[p][i].socket = socket} IN
  /\ link[socket] = "down"
  /\ sent # {}
  /\ inbox' = [inbox EXCEPT ![p] = RemoveAt(@, Max(sent))]
  /\ UNCHANGED <<linkVars, adminVars, toAdmin, fileTX, requests, fileVars,
                 workVars, ghosts, asked, asks, faultVars>>

Watching(file) == {socket \in Sockets : fileTX[socket][file] > 0}

ClientForgets(socket, files) ==
  /\ link[socket] = "down" /\ socket \in sockets[Client]
  /\ sockets' = [sockets EXCEPT ![Client] = @ \ {socket}]
  /\ toAdmin' = IF socket = toAdmin THEN NoSocket ELSE toAdmin
  /\ requests' = [requests EXCEPT ![Client] = {request \in @ : request[2] # socket}]
  /\ fileTX' = [fileTX EXCEPT ![socket] = [file \in Files |-> 0]]
  /\ Close(Client, files)
  /\ UNCHANGED <<link, inbox, adminVars, verified, workVars,
                 ghosts, asked, asks, faultVars>>

\* Mutant: files are closed that other peers use.
ClientPeerDisconnectedClosing(socket) ==
  ClientForgets(socket, {file \in Files : fileTX[socket][file] > 0})

\* The files that only this socket uses are closed.
ClientPeerDisconnected(socket) ==
  ClientForgets(socket, {file \in Files : Watching(file) = {socket}})

AdminForgets(admin, kept) ==
  /\ peer[admin] # NoSocket /\ link[peer[admin]] = "down"
  /\ sockets' = [sockets EXCEPT ![admin] = @ \ {peer[admin]}]
  /\ peer' = [peer EXCEPT ![admin] = NoSocket]
  /\ Close(admin, filesList[admin])
  /\ filesList' = [filesList EXCEPT ![admin] = {}]
  /\ requests' = [requests EXCEPT ![admin] = kept]
  /\ UNCHANGED <<link, inbox, toAdmin, fileTX, verified, workVars,
                 ghosts, asked, asks, faultVars>>

\* Mutant: what is being read is still sent, to the next peer.
AdminPeerDisconnectedReading(admin) == AdminForgets(admin, requests[admin])

AdminPeerDisconnected(admin) == AdminForgets(admin, {})

\* The client dies; its service is started again.
Die ==
  /\ link' = [s \in Sockets |-> IF link[s] = "up" THEN "down" ELSE link[s]]
  /\ sockets' = [sockets EXCEPT ![Client] = {}]
  /\ inbox' = [inbox EXCEPT ![Client] = <<>>]
  /\ toAdmin' = NoSocket
  /\ fileTX' = [socket \in Sockets |-> [file \in Files |-> 0]]
  /\ requests' = [requests EXCEPT ![Client] = {}]
  /\ open' = [open EXCEPT ![Client] = {}]
  /\ reads' = [reads EXCEPT ![Client] = <<>>]
  /\ writes' = [writes EXCEPT ![Client] = <<>>]
  /\ readId' = [readId EXCEPT ![Client] = 0]
  /\ signals' = [signals EXCEPT ![Client] = <<>>]
  /\ UNCHANGED <<adminVars, verified, misled, asked, asks, faultVars>>

-----------------------------------------------------------------------------
(* The administrator asks for transfers.                                   *)

AllAsks == MapThenSumSet(LAMBDA f : asks[f], Files)

\* At most MaxAsks in all, and so of each file.
Ask(file) ==
  /\ AllAsks < MaxAsks /\ asks[file] < MaxAsks
  /\ asks' = [asks EXCEPT ![file] = @ + 1]

RequestUploadFilesToRemote(admin, file) ==
  LET socket == peer[admin] IN
  /\ socket # NoSocket
  /\ file \in Uploads[admin] /\ IsWhole(admin, file)
  /\ Ask(file)
  /\ \E ok \in SendResults(admin, socket) :
       IF ok
       THEN /\ Open(admin, file)
            /\ filesList' = [filesList EXCEPT ![admin] = @ \cup {file}]
            /\ Send(admin, <<Say("upload", socket, file)>>)
       ELSE /\ Close(admin, {file})
            /\ UNCHANGED <<filesList, inbox, asked>>
  /\ UNCHANGED <<linkVars, peer, toAdmin, fileTX, requests, verified, workVars,
                 ghosts, faultVars>>

RequestDownloadFileFromRemote(admin, file) ==
  /\ peer[admin] # NoSocket
  /\ file \in Downloads
  /\ Ask(file)
  /\ Send(admin, <<Say("download", peer[admin], file)>>)
  /\ UNCHANGED <<linkVars, adminVars, toAdmin, fileTX, requests, fileVars, workVars,
                 ghosts, faultVars>>

-----------------------------------------------------------------------------
(* Packets that the client service handles.                                *)

\* The answer to a file that the client has already is a refusal, and then as
\* if it had been accepted.  When it cannot be sent, files are closed.
AnswerUpload(closed) ==
  LET socket == Head(inbox[Client]).socket
      file   == Head(inbox[Client]).file
      whole  == IsWhole(Client, file)
      refusal == IF whole THEN <<Say("refused", socket, file)>> ELSE <<>>
  IN
  /\ Receives(Client, "upload")
  /\ \E ok \in SendResults(Client, socket), kept \in Remembered(Client, file) :
       /\ verified' = [verified EXCEPT ![Client][file] = kept]
       /\ open' = [open EXCEPT ![Client] =
            (IF whole THEN @ ELSE @ \cup {file}) \ (IF ok THEN {} ELSE closed)]
       /\ fileTX' = [fileTX EXCEPT ![socket][file] = IF ok THEN @ + 1 ELSE @]
       /\ Reply(Client, refusal \o
            (IF ok THEN <<RequestFileData(socket, file, 0, 0)>> ELSE <<>>))
  /\ UNCHANGED <<linkVars, adminVars, toAdmin, requests, workVars,
                 ghosts, asks, faultVars>>

\* Mutant: a file is left open when the answer cannot be sent.
ProcessAdminRequestUploadFilePacketUnchecked == AnswerUpload({})

ProcessAdminRequestUploadFilePacket == AnswerUpload({Head(inbox[Client]).file})

ProcessAdminRequestDownloadFilePacket ==
  LET socket == Head(inbox[Client]).socket
      file   == Head(inbox[Client]).file
  IN
  /\ Receives(Client, "download")
  /\ IsWhole(Client, file)
  /\ \E ok \in SendResults(Client, socket) :
       IF ok
       THEN /\ Open(Client, file)
            /\ fileTX' = [fileTX EXCEPT ![socket][file] = @ + 1]
            /\ Reply(Client, <<Say("accepted", socket, file)>>)
       ELSE /\ Close(Client, {file})
            /\ UNCHANGED fileTX
            /\ Reply(Client, <<>>)
  /\ UNCHANGED <<linkVars, adminVars, toAdmin, requests, verified, workVars,
                 ghosts, asks, faultVars>>

\* A file that cannot be opened is denied, and its info, a null pointer,
\* used all the same.
DenyFileDownload ==
  /\ Receives(Client, "download")
  /\ ~IsWhole(Client, Head(inbox[Client]).file)
  /\ undefined' = undefined \cup {"null"}
  /\ Die

ClientFileDataRequested ==
  LET packet == Head(inbox[Client]) IN
  /\ Receives(Client, "request")
  /\ ReadPieces(Client, packet.socket, packet.file, packet.first, packet.last)
  /\ Reply(Client, <<>>)
  /\ UNCHANGED <<linkVars, adminVars, toAdmin, fileTX, fileVars, writes, signals,
                 ghosts, asks, faultVars>>

\* writePiece(): the request is queued.
QueueWrite(p, packet) ==
  writes' = [writes EXCEPT ![p] = Append(@, [file |-> packet.file, piece |-> packet.piece])]

ClientFileDataReceived ==
  /\ Receives(Client, "data")
  /\ QueueWrite(Client, Head(inbox[Client]))
  /\ Reply(Client, <<>>)
  /\ UNCHANGED <<linkVars, adminVars, toAdmin, fileTX, requests, fileVars, reads, readId,
                 signals, ghosts, asks, faultVars>>

\* The file is closed when nobody else, and not this peer twice, uses it.
ClientFileTXDone ==
  LET socket == Head(inbox[Client]).socket
      file   == Head(inbox[Client]).file
  IN
  /\ Receives(Client, "done")
  /\ IF Watching(file) = {socket} /\ fileTX[socket][file] = 1
     THEN Close(Client, {file})
     ELSE UNCHANGED open
  /\ Reply(Client, <<>>)
  /\ UNCHANGED <<linkVars, adminVars, toAdmin, fileTX, requests, verified, workVars,
                 ghosts, asks, faultVars>>

-----------------------------------------------------------------------------
(* Packets that a control center handles.                                  *)

\* The packet at the head of the inbox comes from the present peer.
FromPeer(admin) == Head(inbox[admin]).socket = peer[admin]

\* It is from the present peer, and about a file in transmission.
Listed(admin) == FromPeer(admin) /\ Head(inbox[admin]).file \in filesList[admin]

Ignore(admin) ==
  /\ inbox[admin] # <<>>
  /\ IF Head(inbox[admin]).type \in {"request", "data"}
     THEN ~Listed(admin) ELSE ~FromPeer(admin)
  /\ Reply(admin, <<>>)
  /\ UNCHANGED <<linkVars, adminVars, toAdmin, fileTX, requests, fileVars, workVars,
                 ghosts, asks, faultVars>>

FileDownloadRequestAccepted(admin) ==
  LET socket == peer[admin]
      file   == Head(inbox[admin]).file
  IN
  /\ Receives(admin, "accepted") /\ FromPeer(admin)
  /\ \/ /\ IsWhole(admin, file)
        /\ Reply(admin, <<>>)
        /\ UNCHANGED <<filesList, fileVars>>
     \/ /\ ~IsWhole(admin, file)
        /\ filesList' = [filesList EXCEPT ![admin] = @ \cup {file}]
        /\ \E ok \in SendResults(admin, socket), kept \in Remembered(admin, file) :
             /\ verified' = [verified EXCEPT ![admin][file] = kept]
             /\ IF ok THEN Open(admin, file) ELSE Close(admin, {file})
             /\ Reply(admin, IF ok THEN <<RequestFileData(socket, file, 0, 0)>> ELSE <<>>)
  /\ UNCHANGED <<linkVars, peer, toAdmin, fileTX, requests, workVars,
                 ghosts, asks, faultVars>>

FileUploadRequestRefused(admin) ==
  LET file == Head(inbox[admin]).file IN
  /\ Receives(admin, "refused") /\ FromPeer(admin)
  /\ Close(admin, {file})
  /\ filesList' = [filesList EXCEPT ![admin] = @ \ {file}]
  /\ Reply(admin, <<>>)
  /\ UNCHANGED <<linkVars, peer, toAdmin, fileTX, requests, verified, workVars,
                 ghosts, asks, faultVars>>

AdminFileDataRequested(admin) ==
  LET packet == Head(inbox[admin]) IN
  /\ Receives(admin, "request") /\ Listed(admin)
  /\ ReadPieces(admin, packet.socket, packet.file, packet.first, packet.last)
  /\ Reply(admin, <<>>)
  /\ UNCHANGED <<linkVars, adminVars, toAdmin, fileTX, fileVars, writes, signals,
                 ghosts, asks, faultVars>>

AdminFileDataReceived(admin) ==
  /\ Receives(admin, "data") /\ Listed(admin)
  /\ QueueWrite(admin, Head(inbox[admin]))
  /\ Reply(admin, <<>>)
  /\ UNCHANGED <<linkVars, adminVars, toAdmin, fileTX, requests, fileVars, reads, readId,
                 signals, ghosts, asks, faultVars>>

AdminFileTXDone(admin) ==
  /\ Receives(admin, "done") /\ FromPeer(admin)
  /\ Close(admin, {Head(inbox[admin]).file})
  /\ Reply(admin, <<>>)
  /\ UNCHANGED <<linkVars, adminVars, toAdmin, fileTX, requests, verified, workVars,
                 ghosts, asks, faultVars>>

-----------------------------------------------------------------------------
(* Signals of the FileManager.                                             *)

Data(socket, signal) ==
  [type |-> "data", socket |-> socket, file |-> signal.file, piece |-> signal.piece]

\* The requests of the client with this id, and their entry taken out.
ClientFileDataRead ==
  LET signal == Head(signals[Client])
      mine   == {request \in requests[Client] : request[1] = signal.id}
  IN
  /\ Signalled(Client, "dataRead")
  /\ TakeSignal(Client)
  /\ requests' = [requests EXCEPT ![Client] = @ \ mine]
  /\ Send(Client, SetToSeq({Data(request[2], signal) : request \in mine}))
  /\ UNCHANGED <<linkVars, adminVars, toAdmin, fileTX, fileVars, reads, writes, readId,
                 ghosts, asks, faultVars>>

\* What was read goes to the present peer.
AdminFileDataRead(admin) ==
  LET signal == Head(signals[admin])
      mine   == {request \in requests[admin] : request[1] = signal.id}
  IN
  /\ Signalled(admin, "dataRead")
  /\ TakeSignal(admin)
  /\ requests' = [requests EXCEPT ![admin] = @ \ mine]
  /\ Send(admin, IF mine # {} /\ signal.file \in filesList[admin] /\ peer[admin] # NoSocket
                 THEN <<Data(peer[admin], signal)>> ELSE <<>>)
  /\ UNCHANGED <<linkVars, adminVars, toAdmin, fileTX, fileVars, reads, writes, readId,
                 ghosts, asks, faultVars>>

\* The client keeps the entry of request 0.  The peer is told, and logs it.
FileTXError(p) ==
  LET id == Head(signals[p]).id IN
  /\ Signalled(p, "error")
  /\ TakeSignal(p)
  /\ requests' = [requests EXCEPT ![p] =
       {request \in @ : request[1] # id \/ (p = Client /\ id = 0)}]
  /\ UNCHANGED <<linkVars, inbox, adminVars, toAdmin, fileTX, fileVars, reads, writes,
                 readId, ghosts, asked, asks, faultVars>>

\* The piece again when it was damaged, and otherwise, if it ends a window, the
\* range of pieces `start' after piece 0 and `next' after any other.
RequestAfter(socket, signal, start, next) ==
  LET Request(range) == <<RequestFileData(socket, signal.file, range[1], range[2])>>
  IN  IF ~signal.ok THEN Request(<<signal.piece, signal.piece>>)
      ELSE IF signal.piece % PiecesInOneRequest # 0 THEN <<>>
      ELSE Request(IF signal.piece = 0 THEN start ELSE next)

\* The window that begins `skip' windows after a piece, `count' windows long.
WindowAfter(piece, skip, count) ==
  <<piece + skip * PiecesInOneRequest + 1, piece + (skip + count) * PiecesInOneRequest>>

\* Mutant: two windows are asked for each time.
NextRequestPastEnd(socket, signal) ==
  RequestAfter(socket, signal, WindowAfter(0, 0, 2), WindowAfter(signal.piece, 1, 2))

\* Mutant: the next window instead of the one after it.
NextRequestOverlapping(socket, signal) ==
  RequestAfter(socket, signal, WindowAfter(0, 0, 2), WindowAfter(signal.piece, 0, 1))

\* Mutant: three windows are asked for at first.
NextRequestTooMuch(socket, signal) ==
  RequestAfter(socket, signal, WindowAfter(0, 0, 3), WindowAfter(signal.piece, 1, 1))

\* Mutant: piece 0 is treated like the others.
NextRequestUniform(socket, signal) ==
  RequestAfter(socket, signal, WindowAfter(0, 1, 1), WindowAfter(signal.piece, 1, 1))

\* What a receiver asks for once a piece is verified: two windows after piece 0,
\* and then the window after next.
NextRequest(socket, signal) ==
  RequestAfter(socket, signal, WindowAfter(0, 0, 2), WindowAfter(signal.piece, 1, 1))

\* One Done for each entry of fileTXSocketHash.
DoneToAll(file) ==
  LET entries == {entry \in Sockets \X (1 .. MaxAsks) : entry[2] <= fileTX[entry[1]][file]}
      order   == SetToSeq(entries)
  IN  [i \in DOMAIN order |-> Say("done", order[i][1], file)]

\* Whether the client has to ask one of the sockets of the file.
NeedsSocket(signal) == ~signal.complete /\ NextRequest(NoSocket, signal) # <<>>

ClientPieceVerified ==
  LET signal == Head(signals[Client]) IN
  /\ Signalled(Client, "pieceVerified")
  /\ TakeSignal(Client)
  /\ \/ /\ signal.complete
        /\ Send(Client, DoneToAll(signal.file))
        /\ misled' = misled \cup
             {<<socket, signal.file>> : socket \in {w \in Watching(signal.file) :
                                                    ~IsWhole(Owner[w], signal.file)}}
        /\ UNCHANGED undefined
     \/ /\ ~signal.complete /\ ~NeedsSocket(signal)
        /\ UNCHANGED <<inbox, asked, ghosts>>
     \/ /\ NeedsSocket(signal)
        /\ \E socket \in Watching(signal.file) : Send(Client, NextRequest(socket, signal))
        /\ UNCHANGED ghosts
     \/ /\ NeedsSocket(signal) /\ Watching(signal.file) = {}
        /\ undefined' = undefined \cup {"first"}
        /\ UNCHANGED <<inbox, asked, misled>>
  /\ UNCHANGED <<linkVars, adminVars, toAdmin, fileTX, requests, fileVars, reads, writes,
                 readId, asks, faultVars>>

\* The other outcome of first() on an empty list.
DieOfFirst ==
  /\ Signalled(Client, "pieceVerified")
  /\ NeedsSocket(Head(signals[Client]))
  /\ Watching(Head(signals[Client]).file) = {}
  /\ undefined' = undefined \cup {"first"}
  /\ Die

AdminPieceVerified(admin) ==
  LET signal == Head(signals[admin])
      socket == peer[admin]
  IN
  /\ Signalled(admin, "pieceVerified")
  /\ TakeSignal(admin)
  /\ Send(admin, IF signal.file \notin filesList[admin] \/ socket = NoSocket THEN <<>>
                 ELSE IF signal.complete THEN <<Say("done", socket, signal.file)>>
                 ELSE NextRequest(socket, signal))
  /\ UNCHANGED <<linkVars, adminVars, toAdmin, fileTX, requests, fileVars, reads, writes,
                 readId, ghosts, asks, faultVars>>

-----------------------------------------------------------------------------
(* The threads of the FileManagers.                                        *)

Emit(p, signal) == signals' = [signals EXCEPT ![p] = Append(@, signal)]

\* Requests about a file that is not open, or behind its end, are dropped.
ReadBlock(p) ==
  LET request  == Head(reads[p])
      readable == request.file \in open[p] /\ request.piece \in Pieces(request.file)
  IN
  /\ reads[p] # <<>>
  /\ reads' = [reads EXCEPT ![p] = Tail(@)]
  /\ \/ /\ readable
        /\ Emit(p, [type |-> "dataRead", id |-> request.id,
                    file |-> request.file, piece |-> request.piece])
        /\ UNCHANGED errors
     \/ /\ ~readable
        /\ UNCHANGED <<signals, errors>>
     \/ /\ readable /\ errors < MaxErrors
        /\ errors' = errors + 1
        /\ Emit(p, [type |-> "error", id |-> request.id,
                    file |-> request.file, piece |-> request.piece])
  /\ UNCHANGED <<linkVars, inbox, adminVars, toAdmin, fileTX, requests, fileVars, writes,
                 readId, ghosts, asked, asks, damaged>>

WriteBlock(p) ==
  LET request == Head(writes[p])
      file    == request.file
      pieces  == verified[p][file] \cup {request.piece}
      Verified(ok) == [type |-> "pieceVerified", file |-> file, piece |-> request.piece,
                       ok |-> ok, complete |-> ok /\ pieces = Pieces(file)]
  IN
  /\ writes[p] # <<>>
  /\ writes' = [writes EXCEPT ![p] = Tail(@)]
  /\ \/ /\ file \in open[p]
        /\ verified' = [verified EXCEPT ![p][file] = pieces]
        /\ Emit(p, Verified(TRUE))
        /\ UNCHANGED faultVars
     \/ /\ file \in open[p] /\ damaged < MaxDamaged
        /\ damaged' = damaged + 1
        /\ Emit(p, Verified(FALSE))
        /\ UNCHANGED <<verified, errors>>
     \/ /\ file \in open[p] /\ errors < MaxErrors
        /\ errors' = errors + 1
        /\ Emit(p, [type |-> "error", id |-> 0, file |-> file, piece |-> request.piece])
        /\ UNCHANGED <<verified, damaged>>
     \/ /\ file \notin open[p]
        /\ UNCHANGED <<verified, signals, faultVars>>
  /\ UNCHANGED <<linkVars, inbox, adminVars, toAdmin, fileTX, requests, open, reads,
                 readId, ghosts, asked, asks>>

-----------------------------------------------------------------------------
ClientPackets ==
  \/ ProcessAdminRequestUploadFilePacket \/ ProcessAdminRequestDownloadFilePacket
  \/ DenyFileDownload \/ ClientFileDataRequested \/ ClientFileDataReceived
  \/ ClientFileTXDone

AdminPackets(admin) ==
  \/ Ignore(admin) \/ FileDownloadRequestAccepted(admin)
  \/ FileUploadRequestRefused(admin) \/ AdminFileDataRequested(admin)
  \/ AdminFileDataReceived(admin) \/ AdminFileTXDone(admin)

ClientSignals ==
  \/ ClientFileDataRead \/ FileTXError(Client) \/ ClientPieceVerified \/ DieOfFirst

AdminSignals(admin) ==
  \/ AdminFileDataRead(admin) \/ FileTXError(admin) \/ AdminPieceVerified(admin)

Next ==
  \/ \E admin \in Admins :
       \/ \E socket \in Sockets : Connect(admin, socket)
       \/ \E file \in Files : \/ RequestUploadFilesToRemote(admin, file)
                              \/ RequestDownloadFileFromRemote(admin, file)
       \/ AdminPackets(admin) \/ AdminSignals(admin) \/ AdminPeerDisconnected(admin)
  \/ \E socket \in Sockets : Break(socket) \/ ClientPeerDisconnected(socket)
  \/ \E p \in Processes : \/ \E socket \in Sockets : Lose(p, socket)
                          \/ ReadBlock(p) \/ WriteBlock(p)
  \/ ClientPackets \/ ClientSignals

Spec == Init /\ [][Next]_vars

\* Event loops and worker threads run on; what is lost with a connection is
\* noticed.  Nothing makes anybody connect, ask, or lose a connection.
FairSpec ==
  /\ Spec
  /\ WF_vars(ClientPackets) /\ WF_vars(ClientSignals)
  /\ \A socket \in Sockets : WF_vars(ClientPeerDisconnected(socket))
  /\ \A admin \in Admins :
       /\ WF_vars(AdminPackets(admin)) /\ WF_vars(AdminSignals(admin))
       /\ WF_vars(AdminPeerDisconnected(admin))
  /\ \A p \in Processes : WF_vars(ReadBlock(p)) /\ WF_vars(WriteBlock(p))

-----------------------------------------------------------------------------
(* Properties.                                                             *)

\* TypeOK: the types of the members of ClientService, FileManagement and their
\* FileManagers; in particular, no piece is asked for further behind the end of
\* a file than the window after next reaches.
TypeOK ==
  /\ link \in [Sockets -> {"unused", "up", "down"}]
  /\ sockets \in [Processes -> SUBSET Sockets]
  /\ inbox \in [Processes -> Seq(Packet)]
  /\ peer \in [Admins -> Sockets \cup {NoSocket}]
  /\ filesList \in [Admins -> SUBSET Files]
  /\ toAdmin \in Sockets \cup {NoSocket}
  /\ fileTX \in [Sockets -> [Files -> 0 .. MaxAsks]]
  /\ requests \in [Processes -> SUBSET (Nat \X Sockets)]
  /\ open \in [Processes -> SUBSET Files]
  /\ verified \in [Processes -> [Files -> SUBSET Nat]]
  /\ \A p \in Processes, file \in Files : verified[p][file] \subseteq Pieces(file)
  /\ reads \in [Processes -> Seq(ReadRequest)]
  /\ writes \in [Processes -> Seq(WriteRequest)]
  /\ readId \in [Processes -> Nat]
  /\ signals \in [Processes -> Seq(Signal)]
  /\ undefined \subseteq {"null", "first"}
  /\ asked \subseteq Sockets \X Files \X Nat
  /\ misled \subseteq Sockets \X Files
  /\ asks \in [Files -> 0 .. MaxAsks]
  /\ damaged \in 0 .. MaxDamaged /\ errors \in 0 .. MaxErrors

\* A piece is sent over a connection only if the peer asked for it over that
\* connection: what was read for a lost connection is not sent over the next
\* one, nor to somebody else.  (fileTXRequestHash, fileTXRequestList.)
DataWasAskedFor ==
  \A p \in Processes : \A packet \in ToSet(inbox[p]) :
    packet.type = "data" => <<packet.socket, packet.file, packet.piece>> \in asked

\* How often the queues of all processes hold what passes a test.
Occurrences(queues, Test(_)) ==
  Cardinality({place \in UNION {{p} \X DOMAIN queues[p] : p \in Processes} :
                 Test(queues[place[1]][place[2]])})

\* How many times a piece is on its way from the request for it to the
\* verification of it, in all packets, requests and signals.
InFlight(file, piece) ==
  LET Carries(packet) ==
        /\ packet.file = file
        /\ \/ packet.type = "request" /\ piece \in packet.first .. packet.last
           \/ packet.type = "data" /\ packet.piece = piece
      IsIt(item) == item.file = file /\ item.piece = piece
  IN Occurrences(inbox, Carries) + Occurrences(reads, IsIt)
       + Occurrences(writes, IsIt) + Occurrences(signals, IsIt)

\* A transfer asks for no piece while the piece is on its way already: there
\* are never more copies of it than transfers were asked for.
NoPieceAskedTwice ==
  \A file \in Files : \A piece \in Pieces(file) : InFlight(file, piece) <= asks[file]

\* Flow control: at most two windows of a file are on their way, and one
\* piece more for each that has to be asked for again.
WindowBounded ==
  \A file \in Files :
    MapThenSumSet(LAMBDA piece : InFlight(file, piece), Pieces(file))
      <= 2 * PiecesInOneRequest * asks[file] + damaged

SenderKeepsFile(p, packet) ==
  packet.type = "request" =>
    \/ IsWhole(OtherEnd(p, packet.socket), packet.file)
    \/ packet.file \in open[p] /\ (p \in Admins => packet.file \in filesList[p])
ReceiverKeepsFile(p, packet) ==
  packet.type = "data" =>
    \/ IsWhole(p, packet.file)
    \/ packet.file \in open[p] /\ (p \in Admins => packet.file \in filesList[p])
    \/ <<packet.socket, packet.file>> \in misled

\* Whoever is asked for a piece over a connection that is up can read it, and a piece that
\* arrives over one is written: the file stays open at the sender until the receiver has
\* all of it, and at the receiver, whatever other peers do and whatever comes late; but an
\* administrator who downloads a file closes it when another one's upload of it is done.
FilesStayOpen ==
  \A p \in Processes : \A packet \in ToSet(inbox[p]) :
    link[packet.socket] = "up" => SenderKeepsFile(p, packet) /\ ReceiverKeepsFile(p, packet)

\* When its last connection is gone, the client has no file open: peerDisconnected()
\* closes them, and a request that is handled after it closes the file again when the
\* answer cannot be sent.  (Where no UDT socket is closed without peerDisconnected().)
NothingLeftOpen == sockets[Client] = {} => open[Client] = {}

AskedFor(type, socket, file) == Say(type, socket, file) \in ToSet(inbox[Client])

\* Both ends have all of the file, or there is a reason why not.
Ends(socket, file) ==
  \/ link[socket] = "down" \/ errors > 0 \/ <<socket, file>> \in misled
  \/ IsWhole(Client, file) /\ IsWhole(Owner[socket], file)

\* A transfer that the client is asked for comes to its end, if the connection
\* lasts and no read or write fails.
TransferEnds ==
  \A socket \in Sockets, file \in Files, type \in {"upload", "download"} :
    AskedFor(type, socket, file) ~> Ends(socket, file)

\* An upload comes to its end also when an administrator connects anew, or
\* another one takes over: the files of the connection before are closed
\* (closeFileTXWithAdmin(), which is commented out where the client closes
\* that connection).
UploadSurvivesTakeover ==
  \A socket \in Sockets, file \in Files :
    AskedFor("upload", socket, file) ~> Ends(socket, file)
=============================================================================
