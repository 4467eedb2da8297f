------------------------- MODULE FileTransferProofs -------------------------
(***************************************************************************)
(* Theorems on FileTransfer, for any administrators, connections and       *)
(* files: what a packet on its way says of both its ends, and how often a  *)
(* piece can be on its way.                                                *)
(***************************************************************************)
EXTENDS FileTransfer, SequenceProofs

-----------------------------------------------------------------------------
(* The invariant                                                           *)

\* The packets on their way are about pieces that there are, except that windows, none of
\* them empty, may reach behind the end of a file.
Packets ==
       [type : {"upload", "download", "accepted", "refused", "done"},
        socket : Sockets, file : Files]
  \cup { e \in [type : {"request"}, socket : Sockets, file : Files,
                first : Indices, last : Indices] : e.first <= e.last }
  \cup { e \in [type : {"data"}, socket : Sockets, file : Files, piece : Indices] :
           e.piece \in Pieces(e.file) }

Writes  == { e \in WriteRequest : e.piece \in Pieces(e.file) }
Signals == { e \in Signal : e.piece \in Pieces(e.file) }

LinkTypes ==
  /\ link \in [Sockets -> {"unused", "up", "down"}]
  /\ sockets \in [Processes -> SUBSET Sockets]
  /\ peer \in [Admins -> Sockets \cup {NoSocket}]
  /\ toAdmin \in Sockets \cup {NoSocket}
  /\ undefined \subseteq {"null", "first"}
  /\ damaged \in 0 .. MaxDamaged /\ errors \in 0 .. MaxErrors
FileTypes ==
  /\ filesList \in [Admins -> SUBSET Files]
  /\ fileTX \in [Sockets -> [Files -> Nat]]
  /\ open \in [Processes -> SUBSET Files]
  /\ verified \in [Processes -> [Files -> SUBSET Nat]]
  /\ \A p \in Processes, f \in Files : verified[p][f] \subseteq Pieces(f)
  /\ asks \in [Files -> 0 .. MaxAsks]
  /\ misled \subseteq Sockets \X Files
PacketTypes ==
  /\ inbox \in [Processes -> Seq(Packets)]
  /\ asked \subseteq Sockets \X Files \X Nat
WorkTypes ==
  /\ requests \in [Processes -> SUBSET (Nat \X Sockets)]
  /\ reads \in [Processes -> Seq(ReadRequest)]
  /\ writes \in [Processes -> Seq(Writes)]
  /\ readId \in [Processes -> Nat]
  /\ signals \in [Processes -> Seq(Signals)]
Types == LinkTypes /\ FileTypes /\ PacketTypes /\ WorkTypes

\* One connection is up at most, between the client and the peer of its administrator; an
\* administrator without one has no files in transmission.
Links ==
  /\ \A s \in Sockets : link[s] = "up" =>
       /\ toAdmin = s /\ peer[Owner[s]] = s
       /\ s \in sockets[Client] /\ s \in sockets[Owner[s]]
  /\ toAdmin # NoSocket => link[toAdmin] # "unused"
  /\ \A a \in Admins : peer[a] # NoSocket => Owner[peer[a]] = a /\ link[peer[a]] # "unused"
  /\ \A a \in Admins : peer[a] = NoSocket => filesList[a] = {}

\* The administrator at the other end of s can be asked for the pieces of f, the client can
\* be, and either goes on receiving them.
AdminHas(s, f) == f \in open[Owner[s]] /\ f \in filesList[Owner[s]]
AdminSends(s, f)     == IsWhole(Client, f) \/ AdminHas(s, f)
ClientSends(s, f)    == IsWhole(Owner[s], f) \/ (fileTX[s][f] > 0 /\ f \in open[Client])
ClientReceives(s, f) == fileTX[s][f] > 0
AdminReceives(s, f)  == IsWhole(Owner[s], f) \/ <<s, f>> \in misled \/ AdminHas(s, f)

\* What a packet on its way says of who has all of the file, and, while the connection is
\* up, of who has the file open.
ClientPacket(e) ==
  /\ e.type \in {"upload", "done"} => IsWhole(Owner[e.socket], e.file)
  /\ e.type \in {"request", "done"} => IsWhole(Client, e.file)
  /\ link[e.socket] = "up" =>
       /\ e.type = "upload" => AdminSends(e.socket, e.file)
       /\ e.type = "data" => ClientReceives(e.socket, e.file)
       /\ e.type = "request" => ClientSends(e.socket, e.file) /\ AdminReceives(e.socket, e.file)

AdminPacket(e) ==
  /\ e.type \in {"accepted", "refused", "done", "data"} => IsWhole(Client, e.file)
  /\ e.type = "refused" => IsWhole(Owner[e.socket], e.file)
  /\ e.type = "done" => IsWhole(Owner[e.socket], e.file) \/ <<e.socket, e.file>> \in misled
  /\ link[e.socket] = "up" =>
       /\ e.type = "request" => ClientReceives(e.socket, e.file)
       /\ e.type = "accepted" => ClientSends(e.socket, e.file)
       /\ e.type = "data" => AdminReceives(e.socket, e.file)

PacketFine(p, e) ==
  /\ link[e.socket] # "unused"
  /\ e.type = "request" => \A i \in e.first .. e.last : <<e.socket, e.file, i>> \in asked
  /\ e.type = "data" => <<e.socket, e.file, e.piece>> \in asked
  /\ p = Client => ClientPacket(e)
  /\ p \in Admins => Owner[e.socket] = p /\ AdminPacket(e)

\* What is read was asked for over the socket that its id leads to.
ReadFine(p, e) ==
  /\ e.id < readId[p]
  /\ p = Client => IsWhole(Client, e.file)
  /\ \A s \in Sockets : <<e.id, s>> \in requests[p] =>
       /\ <<s, e.file, e.piece>> \in asked
       /\ link[s] = "up" => IF p = Client THEN AdminReceives(s, e.file)
                                          ELSE ClientReceives(s, e.file)

\* An administrator writes what the client has all of.
WriteFine(p, e) == p \in Admins => IsWhole(Client, e.file)

SignalFine(p, e) ==
  /\ e.type = "dataRead" => ReadFine(p, e)
  /\ e.type = "pieceVerified" => WriteFine(p, e) /\ (e.complete => IsWhole(p, e.file))

\* Ids are given once, and by an administrator for the present peer.
RequestsFine(p) ==
  /\ \A r \in requests[p] : r[1] < readId[p] /\ link[r[2]] # "unused"
  /\ \A r, t \in requests[p] : r[1] = t[1] => r = t
  /\ p \in Admins => \A r \in requests[p] : r[2] = peer[p]

\* Files that fileTXSocketHash or filesList have in transmission.
EntryFine(s, f) ==
  fileTX[s][f] > 0 =>
    /\ link[s] # "unused"
    /\ s \in sockets[Client] \/ s \in UDTSockets
    /\ link[s] = "up" => AdminSends(s, f) /\ (f \in open[Client] \/ IsWhole(Client, f))

ListFine(a, f) ==
  link[peer[a]] = "up" => ClientSends(peer[a], f) /\ AdminReceives(peer[a], f)

PacketsFine == \A p \in Processes : \A e \in ToSet(inbox[p]) : PacketFine(p, e)
ReadsFine   == \A p \in Processes : \A e \in ToSet(reads[p]) : ReadFine(p, e)
WritesFine  == \A p \in Processes : \A e \in ToSet(writes[p]) : WriteFine(p, e)
SignalsFine == \A p \in Processes : \A e \in ToSet(signals[p]) : SignalFine(p, e)
IdsFine     == \A p \in Processes : RequestsFine(p)
EntriesFine == \A s \in Sockets, f \in Files : EntryFine(s, f)
ListsFine   == \A a \in Admins : \A f \in filesList[a] : ListFine(a, f)
Fine == /\ PacketsFine /\ ReadsFine /\ WritesFine /\ SignalsFine
        /\ IdsFine /\ EntriesFine /\ ListsFine

\* What the client handles over a connection that is up comes after all that is left of the
\* connections before.
InTurn(s) ==
  /\ \A i, j \in 1 .. Len(inbox[Client]) :
       i < j /\ inbox[Client][i].socket = s => inbox[Client][j].socket = s
  /\ \A f \in Files : fileTX[s][f] > 0 =>
       \A i \in 1 .. Len(inbox[Client]) : inbox[Client][i].socket = s

Turns == \A s \in Sockets : link[s] = "up" => InTurn(s)

\* A file is open at the client because of an entry of fileTXSocketHash.
Entered == \A f \in open[Client] : \E s \in Sockets : fileTX[s][f] > 0

\* Each entry of fileTXSocketHash was asked for once.
AsksFor(e, f) == e.type \in {"upload", "download"} /\ e.file = f
Asking(q, f) == { i \in 1 .. Len(q) : AsksFor(q[i], f) }
Counted ==
  \A s \in Sockets, f \in Files : fileTX[s][f] + Cardinality(Asking(inbox[Client], f)) <= asks[f]

IInv == Types /\ Links /\ Fine /\ Turns /\ Entered /\ Counted

-----------------------------------------------------------------------------
(* Data                                                                    *)

LEMMA ClientIsNoAdmin ==
  ASSUME FileTransferAssumption
  PROVE  /\ Client \in Processes /\ Client \notin Admins /\ Admins \subseteq Processes
         /\ \A p \in Processes : p \in Admins \/ p = Client
         /\ \A s \in Sockets : Owner[s] \in Admins /\ Owner[s] \in Processes /\ Owner[s] # Client
         /\ NoSocket \notin Sockets
BY DEF FileTransferAssumption, Processes

LEMMA PiecesAreIndices ==
  ASSUME FileTransferAssumption, NEW f \in Files
  PROVE  /\ NumPieces[f] \in Nat \ {0} /\ PiecesInOneRequest \in Nat \ {0}
         /\ Pieces(f) \subseteq Nat /\ 0 \in Pieces(f)
         /\ \A i \in Nat : i <= NumPieces[f] - 1 + 2 * PiecesInOneRequest => i \in Indices
         /\ Pieces(f) \subseteq Indices
<1>1. NumPieces[f] \in Nat \ {0} /\ PiecesInOneRequest \in Nat \ {0}
  BY DEF FileTransferAssumption
<1>2. Pieces(f) \subseteq Nat /\ 0 \in Pieces(f)
  BY <1>1 DEF Pieces
<1>3. ASSUME NEW i \in Nat, i <= NumPieces[f] - 1 + 2 * PiecesInOneRequest
      PROVE  i \in Indices
  <2>1. PICK n \in Int : n = NumPieces[f] - 1 + 2 * PiecesInOneRequest
    BY <1>1
  <2>2. i \in 0 .. n
    BY <2>1, <1>3
  <2> QED BY <2>1, <2>2 DEF Indices
<1>4. Pieces(f) \subseteq Indices
  BY <1>1, <1>3 DEF Pieces
<1> QED BY <1>1, <1>2, <1>3, <1>4

LEMMA IndicesAreNumbers ==
  ASSUME FileTransferAssumption
  PROVE  Indices \subseteq Nat
BY PiecesAreIndices DEF Indices

LEMMA PacketFacts ==
  ASSUME NEW e \in Packets
  PROVE  /\ e.socket \in Sockets /\ e.file \in Files
         /\ e.type \in {"upload", "download", "accepted", "refused", "done", "request", "data"}
         /\ e.type = "request" => e.first \in Indices /\ e.last \in Indices /\ e.first <= e.last
         /\ e.type = "data" => e.piece \in Pieces(e.file) /\ e.piece \in Indices
BY DEF Packets

LEMMA MadePackets ==
  ASSUME NEW s \in Sockets, NEW f \in Files
  PROVE  /\ \A t \in {"upload", "download", "accepted", "refused", "done"} :
              /\ Say(t, s, f) \in Packets /\ Say(t, s, f).type = t
              /\ Say(t, s, f).socket = s /\ Say(t, s, f).file = f
         /\ \A i, j \in Indices : i <= j =>
              /\ RequestFileData(s, f, i, j) \in Packets
              /\ RequestFileData(s, f, i, j).type = "request"
              /\ RequestFileData(s, f, i, j).socket = s /\ RequestFileData(s, f, i, j).file = f
              /\ RequestFileData(s, f, i, j).first = i /\ RequestFileData(s, f, i, j).last = j
BY DEF Packets, Say, RequestFileData

LEMMA SignalFacts ==
  ASSUME NEW e \in Signals
  PROVE  /\ e.file \in Files /\ e.piece \in Pieces(e.file) /\ e.piece \in Indices
         /\ e.type \in {"dataRead", "error", "pieceVerified"}
         /\ e.type # "pieceVerified" => e.id \in Nat
         /\ e.type = "pieceVerified" => e.ok \in BOOLEAN /\ e.complete \in BOOLEAN
BY DEF Signals, Signal

LEMMA DataFacts ==
  ASSUME NEW e \in Signals, NEW s \in Sockets
  PROVE  /\ Data(s, e) \in Packets /\ Data(s, e).type = "data" /\ Data(s, e).socket = s
         /\ Data(s, e).file = e.file /\ Data(s, e).piece = e.piece
<1>1. e.file \in Files /\ e.piece \in Pieces(e.file) /\ e.piece \in Indices
  BY SignalFacts
<1> QED BY <1>1 DEF Data, Packets

LEMMA OneElement ==
  ASSUME NEW S, NEW e \in S
  PROVE  /\ <<e>> \in Seq(S) /\ Len(<<e>>) = 1 /\ <<e>>[1] = e
         /\ ToSet(<<e>>) = {e}
<1>1. <<e>> \in Seq(S) /\ Len(<<e>>) = 1 /\ <<e>>[1] = e
  OBVIOUS
<1>2. \A x : x \in ToSet(<<e>>) <=> \E i \in 1 .. Len(<<e>>) : <<e>>[i] = x
  BY <1>1, ToSetFacts
<1> QED BY <1>1, <1>2

LEMMA NoElement ==
  ASSUME NEW S
  PROVE  <<>> \in Seq(S) /\ Len(<<>>) = 0 /\ ToSet(<<>>) = {}
BY EmptySeq, ToSetOf

LEMMA IntervalSize ==
  ASSUME NEW n \in Nat
  PROVE  IsFiniteSet(1 .. n) /\ Cardinality(1 .. n) = n
<1>1. 1 \in Int /\ n \in Int
  OBVIOUS
<1>2. /\ IsFiniteSet(1 .. n)
      /\ Cardinality(1 .. n) = IF 1 > n THEN 0 ELSE n - 1 + 1
  BY <1>1, FS_Interval
<1> QED BY <1>2

-----------------------------------------------------------------------------
(* What stays true while nobody it depends on changes it                   *)

\* A step takes nothing away from the other end of a connection that is up, unless both ends
\* have all of the file, or the administrator was told so.
Steady ==
  /\ \A p \in Processes, f \in Files : IsWhole(p, f) => IsWhole(p, f)'
  /\ asked \subseteq asked' /\ misled \subseteq misled'
  /\ \A s \in Sockets : link[s] # "unused" =>
       link[s]' # "unused" /\ (link[s]' = "up" => link[s] = "up")
  /\ \A s \in Sockets, f \in Files : link[s] = "up" /\ link[s]' = "up" =>
       /\ fileTX[s][f] > 0 => (fileTX[s][f] > 0)'
       /\ AdminHas(s, f) =>
            \/ AdminHas(s, f)'
            \/ (IsWhole(Client, f) /\ (IsWhole(Owner[s], f) \/ <<s, f>> \in misled))'
       /\ fileTX[s][f] > 0 /\ f \in open[Client] =>
            f \in open[Client]' \/ (IsWhole(Client, f) /\ IsWhole(Owner[s], f))'

LEMMA EndsKept ==
  ASSUME FileTransferAssumption, Steady, NEW s \in Sockets, NEW f \in Files,
         link[s] # "unused", link[s]' = "up"
  PROVE  /\ link[s] = "up"
         /\ AdminSends(s, f) => AdminSends(s, f)'
         /\ ClientSends(s, f) => ClientSends(s, f)'
         /\ ClientReceives(s, f) => ClientReceives(s, f)'
         /\ AdminReceives(s, f) => AdminReceives(s, f)'
<1>1. /\ link[s] = "up"
      /\ fileTX[s][f] > 0 => (fileTX[s][f] > 0)'
      /\ AdminHas(s, f) =>
           AdminHas(s, f)' \/ (IsWhole(Client, f) /\ (IsWhole(Owner[s], f) \/ <<s, f>> \in misled))'
      /\ fileTX[s][f] > 0 /\ f \in open[Client] =>
           f \in open[Client]' \/ (IsWhole(Client, f) /\ IsWhole(Owner[s], f))'
      /\ misled \subseteq misled'
  BY DEF Steady
<1>2. /\ IsWhole(Client, f) => IsWhole(Client, f)'
      /\ IsWhole(Owner[s], f) => IsWhole(Owner[s], f)'
  BY ClientIsNoAdmin DEF Steady
<1> QED BY <1>1, <1>2 DEF AdminSends, ClientSends, ClientReceives, AdminReceives

LEMMA PacketKept ==
  ASSUME FileTransferAssumption, Steady, NEW p \in Processes, NEW e \in Packets, PacketFine(p, e)
  PROVE  PacketFine(p, e)'
<1>1. e.socket \in Sockets /\ e.file \in Files
  BY PacketFacts
<1>2. PICK s \in Sockets, f \in Files : s = e.socket /\ f = e.file
  BY <1>1
<1>3. link[s] # "unused" /\ link[s]' # "unused"
  BY <1>2 DEF PacketFine, Steady
<1>4. link[s]' = "up" =>
         /\ link[s] = "up"
         /\ AdminSends(s, f) => AdminSends(s, f)'
         /\ ClientSends(s, f) => ClientSends(s, f)'
         /\ ClientReceives(s, f) => ClientReceives(s, f)'
         /\ AdminReceives(s, f) => AdminReceives(s, f)'
  BY <1>3, EndsKept
<1>5. /\ IsWhole(Client, f) => IsWhole(Client, f)'
      /\ IsWhole(Owner[s], f) => IsWhole(Owner[s], f)'
      /\ asked \subseteq asked' /\ misled \subseteq misled'
  BY ClientIsNoAdmin DEF Steady
<1>6. ClientPacket(e) => ClientPacket(e)'
  BY <1>2, <1>4, <1>5 DEF ClientPacket
<1>7. AdminPacket(e) => AdminPacket(e)'
  BY <1>2, <1>4, <1>5 DEF AdminPacket
<1> QED BY <1>2, <1>3, <1>5, <1>6, <1>7 DEF PacketFine

LEMMA ReadKept ==
  ASSUME FileTransferAssumption, Steady, NEW p \in Processes, NEW e, e.file \in Files,
         readId[p] \in Nat, readId[p]' \in Nat, e.id \in Nat, ReadFine(p, e), RequestsFine(p),
         readId[p] <= readId[p]',
         \A r \in requests[p]' : r \in requests[p] \/ r[1] >= readId[p]
  PROVE  ReadFine(p, e)'
<1>1. e.id < readId[p]'
  BY DEF ReadFine
<1>2. p = Client => IsWhole(Client, e.file)'
  BY ClientIsNoAdmin DEF ReadFine, Steady
<1>3. ASSUME NEW s \in Sockets, <<e.id, s>> \in requests[p]'
      PROVE  /\ <<s, e.file, e.piece>> \in asked'
             /\ link[s]' = "up" => IF p = Client THEN AdminReceives(s, e.file)'
                                                ELSE ClientReceives(s, e.file)'
  <2>1. <<e.id, s>> \in requests[p]
    <3>1. PICK r : r = <<e.id, s>>
      OBVIOUS
    <3>2. r[1] = e.id /\ r \in requests[p]'
      BY <3>1, <1>3
    <3>3. r \in requests[p] \/ r[1] >= readId[p]
      BY <3>2
    <3> QED BY <3>1, <3>2, <3>3 DEF ReadFine
  <2>2. link[s] # "unused"
    <3>1. PICK r : r = <<e.id, s>>
      OBVIOUS
    <3> QED BY <2>1, <3>1 DEF RequestsFine
  <2>3. link[s]' = "up" =>
           /\ link[s] = "up"
           /\ ClientReceives(s, e.file) => ClientReceives(s, e.file)'
           /\ AdminReceives(s, e.file) => AdminReceives(s, e.file)'
    BY <2>2, EndsKept
  <2>4. asked \subseteq asked'
    BY DEF Steady
  <2> QED BY <2>1, <2>3, <2>4 DEF ReadFine
<1> QED BY <1>1, <1>2, <1>3 DEF ReadFine

LEMMA SignalKept ==
  ASSUME FileTransferAssumption, Steady, NEW p \in Processes, NEW e \in Signals,
         readId[p] \in Nat, readId[p]' \in Nat, SignalFine(p, e), RequestsFine(p),
         readId[p] <= readId[p]',
         \A r \in requests[p]' : r \in requests[p] \/ r[1] >= readId[p]
  PROVE  SignalFine(p, e)'
<1>1. /\ e.file \in Files
      /\ e.type = "dataRead" => e.id \in Nat
  BY SignalFacts
<1>2. e.type = "dataRead" => ReadFine(p, e)'
  <2> SUFFICES ASSUME e.type = "dataRead" PROVE ReadFine(p, e)'
    OBVIOUS
  <2>1. ReadFine(p, e) /\ e.id \in Nat
    BY <1>1 DEF SignalFine
  <2> QED BY <1>1, <2>1, ReadKept
<1>3. /\ IsWhole(Client, e.file) => IsWhole(Client, e.file)'
      /\ IsWhole(p, e.file) => IsWhole(p, e.file)'
  BY <1>1, ClientIsNoAdmin DEF Steady
<1> QED BY <1>2, <1>3 DEF SignalFine, WriteFine

\* The same of all the packets, requests, signals and entries of tables that there are: they
\* are fine when those that a step adds are.
LEMMA PacketsKept ==
  ASSUME FileTransferAssumption, Types, Steady, PacketsFine,
         \A p \in Processes : \A e \in ToSet(inbox[p]') :
           e \in ToSet(inbox[p]) \/ PacketFine(p, e)'
  PROVE  PacketsFine'
<1>1. ASSUME NEW p \in Processes, NEW e \in ToSet(inbox[p]'), e \in ToSet(inbox[p])
      PROVE  PacketFine(p, e)'
  <2>1. e \in Packets
    BY <1>1, ToSetOf DEF Types, PacketTypes
  <2> QED BY <1>1, <2>1, PacketKept DEF PacketsFine
<1> QED BY <1>1 DEF PacketsFine

\* Ids are given by readId only, which grows.
IdsGrow(p) ==
  /\ readId[p] <= readId[p]'
  /\ \A r \in requests[p]' : r \in requests[p] \/ r[1] >= readId[p]

LEMMA ReadsKept ==
  ASSUME FileTransferAssumption, Types, Types', Steady, ReadsFine, IdsFine,
         \A p \in Processes : \A e \in ToSet(reads[p]') :
           (e \in ToSet(reads[p]) /\ IdsGrow(p)) \/ ReadFine(p, e)'
  PROVE  ReadsFine'
<1>1. ASSUME NEW p \in Processes, NEW e \in ToSet(reads[p]'), e \in ToSet(reads[p]), IdsGrow(p)
      PROVE  ReadFine(p, e)'
  <2>1. e \in ReadRequest
    BY <1>1, ToSetOf DEF Types, WorkTypes
  <2>2. e.file \in Files /\ e.id \in Nat
    BY <2>1 DEF ReadRequest
  <2>3. readId[p] \in Nat /\ readId[p]' \in Nat
    BY DEF Types, WorkTypes
  <2>4. ReadFine(p, e) /\ RequestsFine(p)
    BY <1>1 DEF ReadsFine, IdsFine
  <2> QED BY <1>1, <2>2, <2>3, <2>4, ReadKept DEF IdsGrow
<1> QED BY <1>1 DEF ReadsFine

LEMMA SignalsKept ==
  ASSUME FileTransferAssumption, Types, Types', Steady, SignalsFine, IdsFine,
         \A p \in Processes : \A e \in ToSet(signals[p]') :
           (e \in ToSet(signals[p]) /\ IdsGrow(p)) \/ SignalFine(p, e)'
  PROVE  SignalsFine'
<1>1. ASSUME NEW p \in Processes, NEW e \in ToSet(signals[p]'), e \in ToSet(signals[p]),
             IdsGrow(p)
      PROVE  SignalFine(p, e)'
  <2>1. e \in Signals
    BY <1>1, ToSetOf DEF Types, WorkTypes
  <2>2. readId[p] \in Nat /\ readId[p]' \in Nat
    BY DEF Types, WorkTypes
  <2>3. SignalFine(p, e) /\ RequestsFine(p)
    BY <1>1 DEF SignalsFine, IdsFine
  <2> QED BY <1>1, <2>1, <2>2, <2>3, SignalKept DEF IdsGrow
<1> QED BY <1>1 DEF SignalsFine

LEMMA WritesKept ==
  ASSUME FileTransferAssumption, Types, Steady, WritesFine,
         \A p \in Processes : \A e \in ToSet(writes[p]') :
           e \in ToSet(writes[p]) \/ WriteFine(p, e)'
  PROVE  WritesFine'
<1>1. ASSUME NEW p \in Processes, NEW e \in ToSet(writes[p]'), e \in ToSet(writes[p])
      PROVE  WriteFine(p, e)'
  <2>1. e \in Writes
    BY <1>1, ToSetOf DEF Types, WorkTypes
  <2>2. e.file \in Files
    BY <2>1 DEF Writes, WriteRequest
  <2> QED BY <1>1, <2>2, ClientIsNoAdmin DEF WritesFine, WriteFine, Steady
<1> QED BY <1>1 DEF WritesFine

LEMMA IdsKept ==
  ASSUME FileTransferAssumption, Types, Types', Steady, IdsFine,
         \A p \in Processes :
           \/ requests[p]' = {}
           \/ /\ requests[p]' \subseteq requests[p] /\ readId[p] <= readId[p]'
              /\ p \in Admins => peer[p]' = peer[p]
  PROVE  IdsFine'
<1>1. ASSUME NEW p \in Processes, requests[p]' \subseteq requests[p], readId[p] <= readId[p]',
             p \in Admins => peer[p]' = peer[p]
      PROVE  RequestsFine(p)'
  <2>1. RequestsFine(p)
    BY DEF IdsFine
  <2>2. readId[p] \in Nat /\ readId[p]' \in Nat /\ requests[p] \subseteq Nat \X Sockets
    BY DEF Types, WorkTypes
  <2>3. ASSUME NEW r \in requests[p]'
        PROVE  r[1] < readId[p]' /\ link[r[2]]' # "unused" /\ (p \in Admins => r[2] = peer[p]')
    <3>1. r[1] < readId[p] /\ link[r[2]] # "unused" /\ (p \in Admins => r[2] = peer[p])
      BY <1>1, <2>1 DEF RequestsFine
    <3>2. r[1] \in Nat /\ r[2] \in Sockets
      BY <1>1, <2>2
    <3>3. link[r[2]]' # "unused"
      BY <3>1, <3>2 DEF Steady
    <3> QED BY <1>1, <2>2, <3>1, <3>2, <3>3
  <2>4. \A r, t \in requests[p]' : r[1] = t[1] => r = t
    BY <1>1, <2>1 DEF RequestsFine
  <2> QED BY <2>3, <2>4 DEF RequestsFine
<1>2. ASSUME NEW p \in Processes, requests[p]' = {}
      PROVE  RequestsFine(p)'
  BY <1>2 DEF RequestsFine
<1> QED BY <1>1, <1>2 DEF IdsFine

LEMMA EntriesKept ==
  ASSUME FileTransferAssumption, Types, Steady, EntriesFine,
         \A s \in Sockets, f \in Files :
           \/ EntryFine(s, f)'
           \/ /\ (fileTX[s][f] > 0)' => fileTX[s][f] > 0
              /\ s \in sockets[Client] => s \in sockets[Client]' \/ s \in UDTSockets
  PROVE  EntriesFine'
<1>1. ASSUME NEW s \in Sockets, NEW f \in Files, (fileTX[s][f] > 0)', fileTX[s][f] > 0,
             s \in sockets[Client] => s \in sockets[Client]' \/ s \in UDTSockets
      PROVE  EntryFine(s, f)'
  <2>1. /\ link[s] # "unused"
        /\ s \in sockets[Client] \/ s \in UDTSockets
        /\ link[s] = "up" => AdminSends(s, f) /\ (f \in open[Client] \/ IsWhole(Client, f))
    BY <1>1 DEF EntriesFine, EntryFine
  <2>2. link[s]' # "unused"
    BY <2>1 DEF Steady
  <2>3. ASSUME link[s]' = "up"
        PROVE  AdminSends(s, f)' /\ (f \in open[Client] \/ IsWhole(Client, f))'
    <3>1. link[s] = "up" /\ AdminSends(s, f)'
      BY <2>1, <2>3, EndsKept
    <3>2. f \in open[Client] => (f \in open[Client] \/ IsWhole(Client, f))'
      BY <1>1, <2>3, <3>1 DEF Steady
    <3>3. IsWhole(Client, f) => IsWhole(Client, f)'
      BY ClientIsNoAdmin DEF Steady
    <3> QED BY <2>1, <3>1, <3>2, <3>3
  <2> QED BY <1>1, <2>1, <2>2, <2>3 DEF EntryFine
<1>2. ASSUME NEW s \in Sockets, NEW f \in Files, ~(fileTX[s][f] > 0)'
      PROVE  EntryFine(s, f)'
  BY <1>2 DEF EntryFine
<1> QED BY <1>1, <1>2 DEF EntriesFine

LEMMA ListsKept ==
  ASSUME FileTransferAssumption, Types, Links, Steady, ListsFine,
         \A a \in Admins : \A f \in filesList[a]' :
           ListFine(a, f)' \/ (f \in filesList[a] /\ peer[a]' = peer[a])
  PROVE  ListsFine'
<1>1. ASSUME NEW a \in Admins, NEW f \in filesList[a]', f \in filesList[a], peer[a]' = peer[a]
      PROVE  ListFine(a, f)'
  <2>1. PICK s : s = peer[a]
    OBVIOUS
  <2>2. s # NoSocket
    BY <1>1, <2>1 DEF Links
  <2>3. s \in Sockets /\ f \in Files
    BY <1>1, <2>1, <2>2 DEF Types, LinkTypes, FileTypes
  <2>4. link[s] # "unused"
    BY <2>1, <2>2 DEF Links
  <2>5. link[s] = "up" => ClientSends(s, f) /\ AdminReceives(s, f)
    BY <1>1, <2>1 DEF ListsFine, ListFine
  <2>6. link[s]' = "up" => ClientSends(s, f)' /\ AdminReceives(s, f)'
    BY <2>3, <2>4, <2>5, EndsKept
  <2> QED BY <1>1, <2>1, <2>6 DEF ListFine
<1> QED BY <1>1 DEF ListsFine

\* Nobody's FileManager is concerned, and no request for its answers.
LEMMA WorkKept ==
  ASSUME FileTransferAssumption, Types, Types', Steady, Fine, UNCHANGED <<workVars, requests, peer>>
  PROVE  ReadsFine' /\ WritesFine' /\ SignalsFine' /\ IdsFine'
<1>1. /\ reads' = reads /\ writes' = writes /\ signals' = signals /\ readId' = readId
      /\ requests' = requests /\ peer' = peer
  BY DEF workVars
<1>2. \A p \in Processes : readId[p] \in Nat
  BY DEF Types, WorkTypes
<1>3. \A p \in Processes : IdsGrow(p)
  BY <1>1, <1>2 DEF IdsGrow
<1>4. ReadsFine /\ WritesFine /\ SignalsFine /\ IdsFine
  BY DEF Fine
<1>5. ReadsFine'
  BY <1>1, <1>3, <1>4, ReadsKept
<1>6. WritesFine'
  BY <1>1, <1>4, WritesKept
<1>7. SignalsFine'
  BY <1>1, <1>3, <1>4, SignalsKept
<1>8. IdsFine'
  BY <1>1, <1>2, <1>4, IdsKept
<1> QED BY <1>5, <1>6, <1>7, <1>8

-----------------------------------------------------------------------------
(* Packets that go and come                                                *)

\* The first n elements of r are elements of q, in their order.
Continues(q, r, n, at) ==
  /\ n \in 0 .. Len(r) /\ at \in [1 .. n -> 1 .. Len(q)]
  /\ \A i, j \in 1 .. n : i < j => at[i] < at[j]
  /\ \A i \in 1 .. n : r[i] = q[at[i]]

LEMMA IncreasingInjects ==
  ASSUME NEW I \in SUBSET Nat, NEW J \in SUBSET Nat, NEW at \in [I -> J],
         \A i, j \in I : i < j => at[i] < at[j]
  PROVE  at \in Injection(I, J)
<1>1. ASSUME NEW i \in I, NEW j \in I, at[i] = at[j] PROVE i = j
  <2>1. at[i] \in Nat /\ at[j] \in Nat /\ i \in Nat /\ j \in Nat
    OBVIOUS
  <2>2. ~(at[i] < at[j]) /\ ~(at[j] < at[i])
    BY <1>1, <2>1
  <2> QED BY <2>1, <2>2
<1> QED BY <1>1 DEF Injection, IsInjective

\* What is left of an inbox, and what has come.
LEMMA RestFacts ==
  ASSUME NEW S, NEW q \in Seq(S), NEW taken \in {0, 1}, taken = 1 => q # <<>>
  PROVE  /\ SubSeq(q, taken + 1, Len(q)) = IF taken = 1 THEN Tail(q) ELSE q
         /\ SubSeq(q, taken + 1, Len(q)) \in Seq(S)
         /\ ToSet(SubSeq(q, taken + 1, Len(q))) \subseteq ToSet(q)
<1>1. SubSeq(q, taken + 1, Len(q)) = IF taken = 1 THEN Tail(q) ELSE q
  <2>1. CASE taken = 1
    <3>1. Tail(q) = SubSeq(q, 2, Len(q))
      BY <2>1, TailIsSubSeq
    <3> QED BY <2>1, <3>1
  <2>2. CASE taken = 0
    <3>1. SubSeq(q, 1, Len(q)) = q
      BY SubSeqFull
    <3> QED BY <2>2, <3>1
  <2> QED BY <2>1, <2>2
<1>2. taken = 1 => Tail(q) \in Seq(S) /\ ToSet(Tail(q)) \subseteq ToSet(q)
  BY TailFacts, ToSetTail
<1> QED BY <1>1, <1>2

\* What a step with Exchange says of the inboxes and of what was asked for.
Exchanged(p, packets) ==
  /\ PacketTypes' /\ asked \subseteq asked'
  /\ \A e \in ToSet(packets) : e.type = "request" =>
       \A i \in e.first .. e.last : <<e.socket, e.file, i>> \in asked'
  /\ \A q \in Processes : \A e \in ToSet(inbox[q]') :
       \/ e \in ToSet(inbox[q])
       \/ e \in ToSet(packets) /\ OtherEnd(p, e.socket) = q /\ link[e.socket] = "up"

LEMMA ExchangeFacts ==
  ASSUME FileTransferAssumption, Types, NEW p \in Processes, NEW taken \in {0, 1},
         taken = 1 => inbox[p] # <<>>, NEW packets \in Seq(Packets), Exchange(p, taken, packets)
  PROVE  Exchanged(p, packets)
<1> DEFINE Rest(q) == IF q = p THEN SubSeq(inbox[q], taken + 1, Len(inbox[q])) ELSE inbox[q]
           News(q) == { packet \in ToSet(packets) :
                          OtherEnd(p, packet.socket) = q /\ link[packet.socket] = "up" }
<1>1. ASSUME NEW q \in Processes
      PROVE  /\ inbox[q]' = Rest(q) \o Selected(packets, News(q))
             /\ Rest(q) \in Seq(Packets) /\ ToSet(Rest(q)) \subseteq ToSet(inbox[q])
             /\ Selected(packets, News(q)) \in Seq(Packets)
             /\ ToSet(Selected(packets, News(q))) \subseteq News(q)
  <2>1. inbox[q]' = Rest(q) \o Selected(packets, News(q))
    BY DEF Exchange
  <2>2. inbox[q] \in Seq(Packets)
    BY DEF Types, PacketTypes
  <2>3. Rest(q) \in Seq(Packets) /\ ToSet(Rest(q)) \subseteq ToSet(inbox[q])
    <3>1. CASE q = p
      <4>1. taken = 1 => inbox[q] # <<>>
        BY <3>1
      <4>2. PICK b : b = inbox[q]
        OBVIOUS
      <4>3. SubSeq(b, taken + 1, Len(b)) \in Seq(Packets)
            /\ ToSet(SubSeq(b, taken + 1, Len(b))) \subseteq ToSet(b)
        BY <2>2, <4>1, <4>2, RestFacts
      <4> QED BY <3>1, <4>2, <4>3
    <3>2. CASE q # p BY <2>2, <3>2
    <3> QED BY <3>1, <3>2
  <2>4. PICK news : news = News(q)
    OBVIOUS
  <2>5. PICK at : Selected(packets, news) \in Seq(Packets)
                  /\ SelectsBy(packets, news, Selected(packets, news), at)
    BY SelectedProperties
  <2>6. ToSet(Selected(packets, news)) \subseteq news
    <3>1. PICK r \in Seq(Packets) : r = Selected(packets, news)
      BY <2>5
    <3>2. \A i \in 1 .. Len(r) : r[i] \in news
      BY <2>5, <3>1 DEF SelectsBy
    <3> QED BY <3>1, <3>2, ToSetFacts
  <2> QED BY <2>1, <2>3, <2>4, <2>5, <2>6
<1> HIDE DEF Rest
<1>2. ASSUME NEW q \in Processes
      PROVE  /\ inbox[q]' \in Seq(Packets)
             /\ \A e \in ToSet(inbox[q]') : e \in ToSet(inbox[q]) \/ e \in News(q)
  <2>1. PICK b \in Seq(Packets), r \in Seq(Packets) :
          b = Rest(q) /\ r = Selected(packets, News(q))
    BY <1>1
  <2>2. ToSet(b \o r) = ToSet(b) \cup ToSet(r) /\ b \o r \in Seq(Packets)
    BY ToSetConcat, ConcatFacts
  <2>3. inbox[q]' = b \o r /\ ToSet(b) \subseteq ToSet(inbox[q]) /\ ToSet(r) \subseteq News(q)
    BY <1>1, <2>1
  <2> HIDE DEF News
  <2> QED BY <2>2, <2>3
<1>3. inbox' \in [Processes -> Seq(Packets)]
  <2>1. inbox' = [q \in Processes |-> inbox[q]']
    BY DEF Exchange
  <2> QED BY <1>2, <2>1
<1>4. asked' = asked \cup PiecesAsked(packets)
  BY DEF Exchange
<1>5. PiecesAsked(packets) \subseteq Sockets \X Files \X Nat
  <2>1. ASSUME NEW e \in ToSet(packets), e.type = "request", NEW i \in e.first .. e.last
        PROVE  <<e.socket, e.file, i>> \in Sockets \X Files \X Nat
    <3>1. e \in Packets
      BY ToSetOf
    <3>2. e.socket \in Sockets /\ e.file \in Files /\ e.first \in Nat /\ e.last \in Nat
      BY <2>1, <3>1, PacketFacts, IndicesAreNumbers
    <3>3. i \in Nat
      BY <3>2
    <3> QED BY <3>2, <3>3
  <2> QED BY <2>1 DEF PiecesAsked
<1>6. \A e \in ToSet(packets) : e.type = "request" =>
        \A i \in e.first .. e.last : <<e.socket, e.file, i>> \in asked'
  BY <1>4 DEF PiecesAsked
<1>7. PacketTypes'
  BY <1>3, <1>4, <1>5 DEF PacketTypes, Types
<1> QED BY <1>2, <1>4, <1>6, <1>7 DEF Exchanged

\* What comes to the client comes last, and over the one connection that is up.
LEMMA ClientInbox ==
  ASSUME FileTransferAssumption, Types, NEW p \in Processes, NEW taken \in {0, 1},
         taken = 1 => inbox[p] # <<>>, NEW packets \in Seq(Packets), Exchange(p, taken, packets)
  PROVE  /\ p = Client =>
              inbox[Client]' = IF taken = 1 THEN Tail(inbox[Client]) ELSE inbox[Client]
         /\ p # Client => \E r \in Seq(Packets) :
              /\ inbox[Client]' = inbox[Client] \o r
              /\ Len(r) \in Nat /\ Len(packets) \in Nat /\ Len(r) <= Len(packets)
              /\ \A i \in 1 .. Len(r) : r[i] \in ToSet(packets) /\ link[r[i].socket] = "up"
<1>0. Client \in Processes /\ inbox[Client] \in Seq(Packets)
  BY ClientIsNoAdmin DEF Types, PacketTypes
<1> DEFINE news == { packet \in ToSet(packets) :
                       OtherEnd(p, packet.socket) = Client /\ link[packet.socket] = "up" }
<1>1. PICK b : b = inbox[Client]
  OBVIOUS
<1>2. inbox[Client]' =
        (IF Client = p THEN SubSeq(b, taken + 1, Len(b)) ELSE b) \o Selected(packets, news)
  BY <1>0, <1>1 DEF Exchange
<1>3. PICK r, at : r = Selected(packets, news) /\ r \in Seq(Packets)
                   /\ SelectsBy(packets, news, r, at)
  <2>1. PICK x : x = news
    OBVIOUS
  <2>2. \E at : Selected(packets, x) \in Seq(Packets)
                /\ SelectsBy(packets, x, Selected(packets, x), at)
    BY SelectedProperties
  <2> QED BY <2>1, <2>2
<1>4. \A i \in 1 .. Len(r) : r[i] \in news
  BY <1>3 DEF SelectsBy
<1>5. CASE p = Client
  <2>1. r = <<>>
    <3>1. ASSUME NEW i \in 1 .. Len(r) PROVE FALSE
      <4>1. r[i] \in Packets /\ OtherEnd(p, r[i].socket) = Client
        BY <1>3, <1>4, ToSetOf
      <4> QED BY <1>5, <4>1, PacketFacts, ClientIsNoAdmin DEF OtherEnd
    <3> QED BY <1>3, <3>1, EmptySeq
  <2>2. SubSeq(b, taken + 1, Len(b)) = (IF taken = 1 THEN Tail(b) ELSE b)
        /\ SubSeq(b, taken + 1, Len(b)) \in Seq(Packets)
    BY <1>0, <1>1, <1>5, RestFacts
  <2>3. SubSeq(b, taken + 1, Len(b)) \o <<>> = SubSeq(b, taken + 1, Len(b))
    BY <2>2, ConcatEmptySeq
  <2> QED BY <1>1, <1>2, <1>3, <1>5, <2>1, <2>2, <2>3
<1>6. CASE p # Client
  <2>1. inbox[Client]' = inbox[Client] \o r
    BY <1>1, <1>2, <1>3, <1>6
  <2>2. Len(r) <= Len(packets) /\ Len(r) \in Nat /\ Len(packets) \in Nat
    <3>1. Len(r) \in Nat /\ Len(packets) \in Nat
      BY <1>3, LenProperties
    <3>2. at \in Injection(1 .. Len(r), 1 .. Len(packets))
      <4>1. /\ at \in [1 .. Len(r) -> 1 .. Len(packets)]
            /\ \A i, j \in 1 .. Len(r) : i < j => at[i] < at[j]
        BY <1>3 DEF SelectsBy
      <4>2. (1 .. Len(r)) \subseteq Nat /\ (1 .. Len(packets)) \subseteq Nat
        OBVIOUS
      <4> QED BY <4>1, <4>2, IncreasingInjects
    <3>3. /\ IsFiniteSet(1 .. Len(packets)) /\ Cardinality(1 .. Len(packets)) = Len(packets)
          /\ Cardinality(1 .. Len(r)) = Len(r)
      BY <3>1, IntervalSize
    <3>4. Cardinality(1 .. Len(r)) <= Cardinality(1 .. Len(packets))
      BY <3>2, <3>3, FS_Injection
    <3> QED BY <3>1, <3>3, <3>4
  <2> QED BY <1>3, <1>4, <1>6, <2>1, <2>2
<1> QED BY <1>5, <1>6

LEMMA TailContinues ==
  ASSUME NEW S, NEW q \in Seq(S), q # <<>>
  PROVE  \E at : Continues(q, Tail(q), Len(Tail(q)), at) /\ \A i \in 1 .. Len(Tail(q)) : at[i] # 1
<1>1. /\ Tail(q) \in Seq(S) /\ Len(q) \in Nat \ {0} /\ Len(Tail(q)) = Len(q) - 1
      /\ \A i \in 1 .. Len(Tail(q)) : i + 1 \in 1 .. Len(q) /\ Tail(q)[i] = q[i + 1]
  BY TailFacts
<1>2. PICK n \in Nat : n = Len(Tail(q))
  BY <1>1, LenProperties
<1>3. PICK at : at = [i \in 1 .. n |-> i + 1]
  OBVIOUS
<1>4. at \in [1 .. n -> 1 .. Len(q)]
  BY <1>1, <1>2, <1>3
<1> QED BY <1>1, <1>2, <1>3, <1>4 DEF Continues

LEMMA ConcatContinues ==
  ASSUME NEW S, NEW q \in Seq(S), NEW r \in Seq(S)
  PROVE  \E at : Continues(q, q \o r, Len(q), at)
<1>1. /\ q \o r \in Seq(S) /\ Len(q) \in Nat /\ Len(r) \in Nat /\ Len(q \o r) = Len(q) + Len(r)
      /\ \A i \in 1 .. Len(q) : (q \o r)[i] = q[i]
  BY ConcatFacts
<1>2. PICK at : at = [i \in 1 .. Len(q) |-> i]
  OBVIOUS
<1> QED BY <1>1, <1>2, SMTT(20) DEF Continues

LEMMA RemoveContinues ==
  ASSUME NEW S, NEW q \in Seq(S), NEW k \in 1 .. Len(q)
  PROVE  /\ RemoveAt(q, k) \in Seq(S) /\ ToSet(RemoveAt(q, k)) \subseteq ToSet(q)
         /\ \E at : Continues(q, RemoveAt(q, k), Len(RemoveAt(q, k)), at)
<1>1. Len(q) \in Nat /\ k \in Nat /\ k <= Len(q) /\ 1 <= k
  BY LenProperties
<1>2. PICK b, c : b = SubSeq(q, 1, k - 1) /\ c = SubSeq(q, k + 1, Len(q))
  OBVIOUS
<1>3. /\ b \in Seq(S) /\ Len(b) = k - 1
      /\ \A i \in 1 .. k - 1 : b[i] = q[i]
  <2>1. 1 \in Int /\ k - 1 \in Int /\ \A i \in 1 .. k - 1 : q[i] \in S
    BY <1>1, ElementOfSeq
  <2>2. /\ SubSeq(q, 1, k - 1) \in Seq(S)
        /\ Len(SubSeq(q, 1, k - 1)) = IF 1 <= k - 1 THEN (k - 1) - 1 + 1 ELSE 0
        /\ \A i \in 1 .. (k - 1) - 1 + 1 : SubSeq(q, 1, k - 1)[i] = q[1 + i - 1]
    BY <2>1, SubSeqProperties
  <2> QED BY <1>1, <1>2, <2>2
<1>4. /\ c \in Seq(S) /\ Len(c) = Len(q) - k
      /\ \A i \in 1 .. Len(q) - k : c[i] = q[k + i]
  <2>1. k + 1 \in Int /\ Len(q) \in Int /\ \A i \in k + 1 .. Len(q) : q[i] \in S
    BY <1>1, ElementOfSeq
  <2>2. /\ SubSeq(q, k + 1, Len(q)) \in Seq(S)
        /\ Len(SubSeq(q, k + 1, Len(q))) = IF k + 1 <= Len(q) THEN Len(q) - (k + 1) + 1 ELSE 0
        /\ \A i \in 1 .. Len(q) - (k + 1) + 1 : SubSeq(q, k + 1, Len(q))[i] = q[k + 1 + i - 1]
    BY <2>1, SubSeqProperties
  <2> QED BY <1>1, <1>2, <2>2, SMTT(20)
<1>5. PICK r : r = RemoveAt(q, k)
  OBVIOUS
<1>6. /\ r \in Seq(S) /\ Len(r) = Len(q) - 1
      /\ \A i \in 1 .. k - 1 : r[i] = q[i]
      /\ \A i \in k .. Len(q) - 1 : r[i] = q[i + 1]
  <2>1. r = b \o c
    BY <1>2, <1>5 DEF RemoveAt
  <2>2. /\ r \in Seq(S) /\ Len(r) = Len(b) + Len(c)
        /\ \A i \in 1 .. Len(b) : r[i] = b[i]
        /\ \A i \in 1 .. Len(c) : r[Len(b) + i] = c[i]
    <3>1. /\ b \o c \in Seq(S) /\ Len(b \o c) = Len(b) + Len(c)
          /\ \A i \in 1 .. Len(b) : (b \o c)[i] = b[i]
          /\ \A i \in 1 .. Len(c) : (b \o c)[Len(b) + i] = c[i]
      <4>1. b \in Seq(S) /\ c \in Seq(S)
        BY <1>3, <1>4
      <4> QED BY <4>1, ConcatFacts
    <3> QED BY <2>1, <3>1
  <2>3. ASSUME NEW i \in k .. Len(q) - 1 PROVE r[i] = q[i + 1]
    <3>1. PICK j : j = i - (k - 1)
      OBVIOUS
    <3>2. j \in 1 .. Len(q) - k /\ i = (k - 1) + j /\ k + j = i + 1
      BY <1>1, <3>1
    <3> QED BY <1>3, <1>4, <2>2, <3>2
  <2> QED BY <1>1, <1>3, <1>4, <2>2, <2>3
<1>7. PICK at : at = [i \in 1 .. Len(r) |-> IF i < k THEN i ELSE i + 1]
  OBVIOUS
<1>8. Continues(q, r, Len(r), at)
  <2>1. \A i \in 1 .. Len(r) : at[i] \in 1 .. Len(q) /\ r[i] = q[at[i]]
    BY <1>1, <1>6, <1>7
  <2>2. at \in [1 .. Len(r) -> 1 .. Len(q)]
    BY <1>7, <2>1
  <2>3. \A i, j \in 1 .. Len(r) : i < j => at[i] < at[j]
    BY <1>1, <1>6, <1>7
  <2> QED BY <1>1, <1>6, <2>1, <2>2, <2>3 DEF Continues
<1>9. ToSet(r) \subseteq ToSet(q)
  <2>1. ASSUME NEW e \in ToSet(r) PROVE e \in ToSet(q)
    <3>1. PICK i \in 1 .. Len(r) : r[i] = e
      BY <1>6, ToSetFacts
    <3>2. at[i] \in 1 .. Len(q) /\ q[at[i]] = e
      BY <1>8, <3>1 DEF Continues
    <3> QED BY <3>2, ToSetFacts
  <2> QED BY <2>1
<1> QED BY <1>5, <1>6, <1>8, <1>9

\* The turns are kept when what goes is gone, and what comes is of the connection itself, as
\* is the packet for which an entry is made.
LEMMA TurnKept ==
  ASSUME FileTransferAssumption, Types, Types', NEW s \in Sockets, InTurn(s), NEW n, NEW at,
         Continues(inbox[Client], inbox[Client]', n, at),
         \A i \in n + 1 .. Len(inbox[Client]') : inbox[Client]'[i].socket = s,
         \A f \in Files : (fileTX[s][f] > 0)' =>
           fileTX[s][f] > 0 \/ (inbox[Client] # <<>> /\ Head(inbox[Client]).socket = s)
  PROVE  InTurn(s)'
<1>1. PICK q \in Seq(Packets), r \in Seq(Packets) : q = inbox[Client] /\ r = inbox[Client]'
  BY ClientIsNoAdmin DEF Types, PacketTypes
<1>2. Len(q) \in Nat /\ Len(r) \in Nat /\ n \in 0 .. Len(r)
  BY <1>1, LenProperties DEF Continues
<1>3. ASSUME NEW i \in 1 .. Len(r)
      PROVE  \/ r[i].socket = s
             \/ i \in 1 .. n /\ at[i] \in 1 .. Len(q) /\ r[i] = q[at[i]]
  <2>1. CASE i <= n
    <3>1. i \in 1 .. n
      BY <1>2, <2>1
    <3> QED BY <1>1, <3>1 DEF Continues
  <2>2. CASE ~(i <= n)
    <3>1. i \in n + 1 .. Len(r)
      BY <1>2, <2>2
    <3> QED BY <1>1, <3>1
  <2> QED BY <2>1, <2>2
<1>4. ASSUME NEW i \in 1 .. Len(r), NEW j \in 1 .. Len(r), i < j, r[i].socket = s
      PROVE  r[j].socket = s
  <2>1. CASE j \in 1 .. n /\ at[j] \in 1 .. Len(q) /\ r[j] = q[at[j]]
    <3>1. i \in 1 .. n
      BY <1>2, <1>4, <2>1
    <3>2. at[i] \in 1 .. Len(q) /\ r[i] = q[at[i]] /\ at[i] < at[j]
      BY <1>1, <1>4, <2>1, <3>1 DEF Continues
    <3> QED BY <1>1, <1>4, <2>1, <3>2 DEF InTurn
  <2> QED BY <1>3, <2>1
<1>5. ASSUME NEW f \in Files, (fileTX[s][f] > 0)', NEW i \in 1 .. Len(r)
      PROVE  r[i].socket = s
  <2>1. \A k \in 1 .. Len(q) : q[k].socket = s
    <3>1. CASE fileTX[s][f] > 0
      BY <1>1, <3>1 DEF InTurn
    <3>2. CASE q # <<>> /\ Head(q).socket = s
      <4>1. Head(q) = q[1] /\ 1 \in 1 .. Len(q)
        <5>1. Head(q) = q[1] /\ Len(q) \in Nat \ {0}
          BY <3>2, TailFacts
        <5> QED BY <5>1
      <4>2. \A k \in 1 .. Len(q) : 1 < k => q[k].socket = s
        BY <1>1, <3>2, <4>1 DEF InTurn
      <4>3. \A k \in 1 .. Len(q) : k = 1 \/ 1 < k
        BY <1>2
      <4> QED BY <3>2, <4>1, <4>2, <4>3
    <3> QED BY <1>1, <1>5, <3>1, <3>2
  <2> QED BY <1>3, <2>1
<1> QED BY <1>1, <1>4, <1>5 DEF InTurn

\* How many packets ask for transfers.
LEMMA AskingContinues ==
  ASSUME NEW S, NEW q \in Seq(S), NEW r \in Seq(S), NEW n, NEW at, NEW f, NEW k,
         Continues(q, r, n, at), \A i \in 1 .. n : at[i] # k
  PROVE  /\ IsFiniteSet(Asking(q, f)) /\ Cardinality(Asking(q, f)) \in Nat
         /\ IsFiniteSet(Asking(r, f)) /\ Cardinality(Asking(r, f)) \in Nat
         /\ IsFiniteSet(Asking(r, f) \cap (1 .. n))
         /\ Cardinality(Asking(r, f) \cap (1 .. n)) \in Nat
         /\ Cardinality(Asking(r, f) \cap (1 .. n)) <= Cardinality(Asking(q, f) \ {k})
         /\ Cardinality(Asking(q, f) \ {k}) =
              IF k \in Asking(q, f) THEN Cardinality(Asking(q, f)) - 1
                                    ELSE Cardinality(Asking(q, f))
<1>1. \A x \in Seq(S) : IsFiniteSet(Asking(x, f)) /\ Cardinality(Asking(x, f)) \in Nat
                        /\ Asking(x, f) \subseteq Nat
  <2> SUFFICES ASSUME NEW x \in Seq(S)
               PROVE  IsFiniteSet(Asking(x, f)) /\ Cardinality(Asking(x, f)) \in Nat
                      /\ Asking(x, f) \subseteq Nat
    OBVIOUS
  <2>1. Len(x) \in Nat
    BY LenProperties
  <2>2. Asking(x, f) \in SUBSET (1 .. Len(x))
    BY DEF Asking
  <2>3. IsFiniteSet(Asking(x, f))
    BY <2>1, <2>2, IntervalSize, FS_Subset
  <2> QED BY <2>1, <2>2, <2>3, FS_CardinalityType
<1>2. PICK A, B : A = Asking(r, f) \cap (1 .. n) /\ B = Asking(q, f) \ {k}
  OBVIOUS
<1>3. /\ IsFiniteSet(B)
      /\ Cardinality(B) = IF k \in Asking(q, f) THEN Cardinality(Asking(q, f)) - 1
                                                ELSE Cardinality(Asking(q, f))
  BY <1>1, <1>2, FS_RemoveElement
<1>4. PICK g : g = [i \in A |-> at[i]]
  OBVIOUS
<1>5. g \in Injection(A, B)
  <2>1. \A i \in A : i \in 1 .. n /\ at[i] \in B
    BY <1>2 DEF Asking, Continues
  <2>2. A \in SUBSET Nat /\ B \in SUBSET Nat
    BY <1>1, <1>2
  <2>3. g \in [A -> B]
    BY <1>4, <2>1
  <2>4. \A i, j \in A : i < j => g[i] < g[j]
    BY <1>4, <2>1 DEF Continues
  <2> QED BY <2>2, <2>3, <2>4, IncreasingInjects
<1>6. IsFiniteSet(A) /\ Cardinality(A) <= Cardinality(B)
  BY <1>3, <1>5, FS_Injection
<1>7. Cardinality(A) \in Nat
  BY <1>6, FS_CardinalityType
<1> QED BY <1>1, <1>2, <1>3, <1>6, <1>7

LEMMA ClientContinues ==
  ASSUME FileTransferAssumption, Types, Types', NEW p \in Processes, NEW taken \in {0, 1},
         taken = 1 => inbox[p] # <<>>, NEW packets \in Seq(Packets), Exchange(p, taken, packets)
  PROVE  \E n, at :
           /\ Continues(inbox[Client], inbox[Client]', n, at)
           /\ Len(inbox[Client]') <= n + Len(packets)
           /\ p = Client /\ taken = 1 => \A i \in 1 .. n : at[i] # 1
           /\ p = Client => n = Len(inbox[Client]')
           /\ \A i \in n + 1 .. Len(inbox[Client]') :
                inbox[Client]'[i] \in ToSet(packets) /\ link[inbox[Client]'[i].socket] = "up"
<1>1. PICK q \in Seq(Packets), r \in Seq(Packets) : q = inbox[Client] /\ r = inbox[Client]'
  BY ClientIsNoAdmin DEF Types, PacketTypes
<1>2. Len(q) \in Nat /\ Len(r) \in Nat /\ Len(packets) \in Nat
  BY LenProperties
<1>3. CASE p = Client /\ taken = 1
  <2>1. r = Tail(q) /\ q # <<>>
    BY <1>1, <1>3, ClientInbox
  <2>2. PICK at : Continues(q, r, Len(r), at) /\ \A i \in 1 .. Len(r) : at[i] # 1
    BY <2>1, TailContinues
  <2>3. \A i \in Len(r) + 1 .. Len(r) : FALSE
    BY <1>2
  <2>4. Len(r) <= Len(r) + Len(packets)
    BY <1>2
  <2> QED BY <1>1, <2>2, <2>3, <2>4
<1>4. CASE p = Client /\ taken = 0
  <2>1. r = q
    BY <1>1, <1>4, ClientInbox
  <2>2. PICK at : at = [i \in 1 .. Len(q) |-> i]
    OBVIOUS
  <2>3. Continues(q, r, Len(r), at)
    BY <1>2, <2>1, <2>2 DEF Continues
  <2>4. \A i \in Len(r) + 1 .. Len(r) : FALSE
    BY <1>2
  <2>5. Len(r) <= Len(r) + Len(packets)
    BY <1>2
  <2> QED BY <1>1, <1>4, <2>3, <2>4, <2>5
<1>5. CASE p # Client
  <2>1. PICK new \in Seq(Packets) :
          /\ r = q \o new
          /\ Len(new) \in Nat /\ Len(new) <= Len(packets)
          /\ \A i \in 1 .. Len(new) : new[i] \in ToSet(packets) /\ link[new[i].socket] = "up"
    BY <1>1, <1>5, ClientInbox, ZenonT(40)
  <2>2. PICK at : Continues(q, r, Len(q), at)
    BY <2>1, ConcatContinues
  <2>3. /\ Len(q \o new) = Len(q) + Len(new)
        /\ \A i \in 1 .. Len(new) : (q \o new)[Len(q) + i] = new[i]
    BY ConcatFacts
  <2>4. ASSUME NEW i \in Len(q) + 1 .. Len(r)
        PROVE  r[i] \in ToSet(packets) /\ link[r[i].socket] = "up"
    <3>1. PICK j : j = i - Len(q)
      OBVIOUS
    <3>2. j \in 1 .. Len(new) /\ i = Len(q) + j
      BY <1>2, <2>1, <2>3, <3>1
    <3> QED BY <2>1, <2>3, <3>2
  <2>5. Len(r) <= Len(q) + Len(packets)
    BY <1>2, <2>1, <2>3
  <2> QED BY <1>1, <1>5, <2>2, <2>4, <2>5
<1> QED BY <1>3, <1>4, <1>5

\* The turns after packets are handled and sent.
LEMMA TurnsKept ==
  ASSUME FileTransferAssumption, IInv, Types', NEW p \in Processes, NEW taken \in {0, 1},
         taken = 1 => inbox[p] # <<>>, NEW packets \in Seq(Packets), Exchange(p, taken, packets),
         link' = link,
         \A s \in Sockets, f \in Files : (fileTX[s][f] > 0)' =>
           fileTX[s][f] > 0 \/ (inbox[Client] # <<>> /\ Head(inbox[Client]).socket = s)
  PROVE  Turns'
<1>1. Types /\ Links /\ Turns
  BY DEF IInv
<1>2. PICK n, at :
        /\ Continues(inbox[Client], inbox[Client]', n, at)
        /\ \A i \in n + 1 .. Len(inbox[Client]') :
             inbox[Client]'[i] \in ToSet(packets) /\ link[inbox[Client]'[i].socket] = "up"
  BY <1>1, ClientContinues
<1>3. ASSUME NEW s \in Sockets, link[s]' = "up" PROVE InTurn(s)'
  <2>1. link[s] = "up" /\ InTurn(s)
    BY <1>1, <1>3 DEF Turns
  <2>2. ASSUME NEW i \in n + 1 .. Len(inbox[Client]') PROVE inbox[Client]'[i].socket = s
    <3>1. PICK e : e = inbox[Client]'[i]
      OBVIOUS
    <3>2. e \in ToSet(packets) /\ link[e.socket] = "up"
      BY <1>2, <3>1
    <3>3. e.socket \in Sockets
      BY <3>2, ToSetOf, PacketFacts
    <3> QED BY <1>1, <2>1, <3>1, <3>2, <3>3 DEF Links
  <2>3. \A f \in Files : (fileTX[s][f] > 0)' =>
          fileTX[s][f] > 0 \/ (inbox[Client] # <<>> /\ Head(inbox[Client]).socket = s)
    OBVIOUS
  <2> QED BY <1>1, <1>2, <2>1, <2>2, <2>3, TurnKept
<1> QED BY <1>3 DEF Turns

\* The count after packets are handled and sent: an entry is made for the packet that asked.
LEMMA CountKept ==
  ASSUME FileTransferAssumption, IInv, Types', NEW p \in Processes, NEW taken \in {0, 1},
         taken = 1 => inbox[p] # <<>>, NEW packets \in Seq(Packets), Exchange(p, taken, packets),
         \A e \in ToSet(packets) : e.type \notin {"upload", "download"}, asks' = asks,
         \A s \in Sockets, f \in Files :
           \/ fileTX[s][f]' = fileTX[s][f]
           \/ /\ p = Client /\ taken = 1 /\ AsksFor(Head(inbox[Client]), f)
              /\ fileTX[s][f]' = fileTX[s][f] + 1
  PROVE  Counted'
<1>1. Types /\ Counted
  BY DEF IInv
<1>2. PICK n, at :
        /\ Continues(inbox[Client], inbox[Client]', n, at)
        /\ p = Client /\ taken = 1 => \A i \in 1 .. n : at[i] # 1
        /\ \A i \in n + 1 .. Len(inbox[Client]') : inbox[Client]'[i] \in ToSet(packets)
  BY <1>1, ClientContinues
<1>3. PICK q \in Seq(Packets), r \in Seq(Packets) : q = inbox[Client] /\ r = inbox[Client]'
  BY <1>1, ClientIsNoAdmin DEF Types, PacketTypes
<1>4. Len(q) \in Nat /\ Len(r) \in Nat /\ n \in 0 .. Len(r) /\ Continues(q, r, n, at)
  BY <1>2, <1>3, LenProperties DEF Continues
<1>5. ASSUME NEW f \in Files
      PROVE  Asking(r, f) \cap (1 .. n) = Asking(r, f)
  <2>1. ASSUME NEW i \in Asking(r, f) PROVE i \in 1 .. n
    <3>1. i \in 1 .. Len(r) /\ AsksFor(r[i], f)
      BY <2>1 DEF Asking
    <3>2. i \notin n + 1 .. Len(r)
      BY <1>2, <1>3, <3>1 DEF AsksFor
    <3> QED BY <1>4, <3>1, <3>2
  <2> QED BY <2>1
<1>6. ASSUME NEW s \in Sockets, NEW f \in Files
      PROVE  (fileTX[s][f] + Cardinality(Asking(inbox[Client], f)) <= asks[f])'
  <2>1. fileTX[s][f] \in Nat /\ asks[f] \in Nat /\ fileTX[s][f]' \in Nat
    BY <1>1 DEF Types, FileTypes
  <2>2. fileTX[s][f] + Cardinality(Asking(q, f)) <= asks[f]
    BY <1>1, <1>3 DEF Counted
  <2>3. CASE fileTX[s][f]' = fileTX[s][f]
    <3>1. \A i \in 1 .. n : at[i] # 0
      BY <1>4 DEF Continues
    <3>2. /\ Cardinality(Asking(q, f)) \in Nat /\ Cardinality(Asking(r, f)) \in Nat
          /\ Cardinality(Asking(r, f)) <= Cardinality(Asking(q, f) \ {0})
          /\ Cardinality(Asking(q, f) \ {0}) = IF 0 \in Asking(q, f)
               THEN Cardinality(Asking(q, f)) - 1 ELSE Cardinality(Asking(q, f))
      <4>1. /\ Cardinality(Asking(q, f)) \in Nat /\ Cardinality(Asking(r, f)) \in Nat
            /\ Cardinality(Asking(r, f) \cap (1 .. n)) <= Cardinality(Asking(q, f) \ {0})
            /\ Cardinality(Asking(q, f) \ {0}) = IF 0 \in Asking(q, f)
                 THEN Cardinality(Asking(q, f)) - 1 ELSE Cardinality(Asking(q, f))
        BY <1>4, <3>1, AskingContinues
      <4> QED BY <1>5, <4>1
    <3>3. fileTX[s][f] + Cardinality(Asking(r, f)) <= asks[f]
      BY <2>1, <2>2, <3>2, SMTT(20)
    <3> QED BY <1>3, <2>3, <3>3
  <2>4. CASE /\ p = Client /\ taken = 1 /\ AsksFor(Head(inbox[Client]), f)
             /\ fileTX[s][f]' = fileTX[s][f] + 1
    <3>1. \A i \in 1 .. n : at[i] # 1
      BY <1>2, <2>4
    <3>2. /\ Cardinality(Asking(q, f)) \in Nat /\ Cardinality(Asking(r, f)) \in Nat
          /\ Cardinality(Asking(r, f)) <= Cardinality(Asking(q, f) \ {1})
          /\ Cardinality(Asking(q, f) \ {1}) = IF 1 \in Asking(q, f)
               THEN Cardinality(Asking(q, f)) - 1 ELSE Cardinality(Asking(q, f))
      <4>1. /\ Cardinality(Asking(q, f)) \in Nat /\ Cardinality(Asking(r, f)) \in Nat
            /\ Cardinality(Asking(r, f) \cap (1 .. n)) <= Cardinality(Asking(q, f) \ {1})
            /\ Cardinality(Asking(q, f) \ {1}) = IF 1 \in Asking(q, f)
                 THEN Cardinality(Asking(q, f)) - 1 ELSE Cardinality(Asking(q, f))
        BY <1>4, <3>1, AskingContinues
      <4> QED BY <1>5, <4>1
    <3>3. 1 \in Asking(q, f)
      <4>1. q # <<>>
        BY <1>3, <2>4
      <4>2. Head(q) = q[1] /\ Len(q) \in Nat \ {0}
        BY <4>1, TailFacts
      <4> QED BY <1>3, <2>4, <4>2 DEF Asking
    <3>4. fileTX[s][f] + 1 + Cardinality(Asking(r, f)) <= asks[f]
      BY <2>1, <2>2, <3>2, <3>3, SMTT(20)
    <3> QED BY <1>3, <2>4, <3>4
  <2> QED BY <2>3, <2>4
<1> QED BY <1>6 DEF Counted

\* The count when an administrator asks.
LEMMA AskCounted ==
  ASSUME FileTransferAssumption, IInv, Types', NEW p \in Admins, NEW packets \in Seq(Packets),
         Exchange(p, 0, packets), Len(packets) <= 1, NEW file \in Files,
         \A e \in ToSet(packets) : e.file = file, fileTX' = fileTX,
         asks' = [asks EXCEPT ![file] = @ + 1]
  PROVE  Counted'
<1>1. Types /\ Counted /\ p \in Processes /\ p # Client
  BY ClientIsNoAdmin DEF IInv
<1>2. PICK n, at :
        /\ Continues(inbox[Client], inbox[Client]', n, at)
        /\ Len(inbox[Client]') <= n + Len(packets)
        /\ \A i \in n + 1 .. Len(inbox[Client]') : inbox[Client]'[i] \in ToSet(packets)
  BY <1>1, ClientContinues
<1>3. PICK q \in Seq(Packets), r \in Seq(Packets) : q = inbox[Client] /\ r = inbox[Client]'
  BY <1>1, ClientIsNoAdmin DEF Types, PacketTypes
<1>4. /\ Len(q) \in Nat /\ Len(r) \in Nat /\ n \in 0 .. Len(r) /\ Continues(q, r, n, at)
      /\ Len(packets) \in Nat
  BY <1>2, <1>3, LenProperties DEF Continues
<1>5. ASSUME NEW s \in Sockets, NEW f \in Files
      PROVE  (fileTX[s][f] + Cardinality(Asking(inbox[Client], f)) <= asks[f])'
  <2>1. fileTX[s][f] \in Nat /\ asks[f] \in Nat
    BY <1>1 DEF Types, FileTypes
  <2>2. fileTX[s][f] + Cardinality(Asking(q, f)) <= asks[f]
    BY <1>1, <1>3 DEF Counted
  <2>3. PICK A : A = Asking(r, f) \cap (1 .. n)
    OBVIOUS
  <2>4. /\ Cardinality(Asking(q, f)) \in Nat /\ Cardinality(Asking(r, f)) \in Nat
        /\ IsFiniteSet(A) /\ Cardinality(A) \in Nat
        /\ Cardinality(A) <= Cardinality(Asking(q, f))
    <3>1. \A i \in 1 .. n : at[i] # 0
      BY <1>4 DEF Continues
    <3>2. /\ Cardinality(Asking(q, f)) \in Nat /\ Cardinality(Asking(r, f)) \in Nat
          /\ IsFiniteSet(A) /\ Cardinality(A) \in Nat
          /\ Cardinality(A) <= Cardinality(Asking(q, f) \ {0})
          /\ Cardinality(Asking(q, f) \ {0}) = IF 0 \in Asking(q, f)
               THEN Cardinality(Asking(q, f)) - 1 ELSE Cardinality(Asking(q, f))
      BY <1>4, <2>3, <3>1, AskingContinues, ZenonT(40)
    <3> QED BY <3>2
  <2>5. CASE f = file
    <3>1. Asking(r, f) \subseteq A \cup {n + 1}
      BY <1>2, <1>3, <1>4, <2>3 DEF Asking
    <3>2. IsFiniteSet(A \cup {n + 1}) /\ Cardinality(A \cup {n + 1}) <= Cardinality(A) + 1
          /\ Cardinality(A \cup {n + 1}) \in Nat
      <4>1. /\ IsFiniteSet(A \cup {n + 1})
            /\ Cardinality(A \cup {n + 1}) =
                 IF n + 1 \in A THEN Cardinality(A) ELSE Cardinality(A) + 1
        BY <2>4, FS_AddElement
      <4> QED BY <2>4, <4>1
    <3>3. Cardinality(Asking(r, f)) <= Cardinality(A \cup {n + 1})
      BY <3>1, <3>2, FS_Subset
    <3>4. fileTX[s][f] + Cardinality(Asking(r, f)) <= asks[f] + 1
      <4>1. PICK t, k, x, y, z :
              /\ t = fileTX[s][f] /\ k = asks[f] /\ x = Cardinality(Asking(q, f))
              /\ y = Cardinality(Asking(r, f)) /\ z = Cardinality(A)
        OBVIOUS
      <4>2. /\ t \in Nat /\ k \in Nat /\ x \in Nat /\ y \in Nat /\ z \in Nat
            /\ t + x <= k /\ z <= x
        BY <2>1, <2>2, <2>4, <4>1
      <4>3. y <= z + 1
        <5>1. PICK w : w = Cardinality(A \cup {n + 1})
          OBVIOUS
        <5>2. w \in Nat /\ w <= z + 1 /\ y <= w
          BY <3>2, <3>3, <4>1, <5>1
        <5> QED BY <4>2, <5>2
      <4>4. t + y <= k + 1
        BY <4>2, <4>3
      <4> QED BY <4>1, <4>4
    <3>5. asks[f]' = asks[f] + 1
      BY <1>1, <2>5 DEF Types, FileTypes
    <3> QED BY <1>3, <3>4, <3>5
  <2>6. CASE f # file
    <3>1. Asking(r, f) = A
      <4>1. ASSUME NEW i \in Asking(r, f) PROVE i \in 1 .. n
        <5>1. i \in 1 .. Len(r) /\ AsksFor(r[i], f)
          BY <4>1 DEF Asking
        <5>2. i \notin n + 1 .. Len(r)
          BY <1>2, <1>3, <2>6, <5>1 DEF AsksFor
        <5> QED BY <1>4, <5>1, <5>2
      <4> QED BY <2>3, <4>1
    <3>2. fileTX[s][f] + Cardinality(Asking(r, f)) <= asks[f]
      BY <2>1, <2>2, <2>4, <3>1, SMTT(20)
    <3>3. asks[f]' = asks[f]
      BY <1>1, <2>6 DEF Types, FileTypes
    <3> QED BY <1>3, <3>2, <3>3
  <2> QED BY <2>5, <2>6
<1> QED BY <1>5 DEF Counted

\* The packets on their way after some are handled and sent.
LEMMA SentAreFine ==
  ASSUME FileTransferAssumption, IInv, Steady, NEW p \in Processes, NEW packets \in Seq(Packets),
         Exchanged(p, packets),
         \A e \in ToSet(packets) : link[e.socket] = "up" => PacketFine(OtherEnd(p, e.socket), e)'
  PROVE  PacketsFine'
<1>1. \A q \in Processes : \A e \in ToSet(inbox[q]') :
        e \in ToSet(inbox[q]) \/ PacketFine(q, e)'
  BY DEF Exchanged
<1>2. Types /\ PacketsFine
  BY DEF IInv, Fine
<1> QED BY <1>1, <1>2, PacketsKept

-----------------------------------------------------------------------------
(* Heads of queues                                                         *)

LEMMA HeadPacket ==
  ASSUME IInv, NEW p \in Processes, inbox[p] # <<>>
  PROVE  Head(inbox[p]) \in Packets /\ PacketFine(p, Head(inbox[p]))
<1>1. inbox[p] \in Seq(Packets) /\ PacketsFine
  BY DEF IInv, Types, PacketTypes, Fine
<1>2. PICK q : q = inbox[p]
  OBVIOUS
<1>3. Head(q) \in ToSet(q) /\ ToSet(q) \subseteq Packets
  BY <1>1, <1>2, ToSetOf
<1> QED BY <1>1, <1>2, <1>3 DEF PacketsFine

LEMMA HeadSignal ==
  ASSUME IInv, NEW p \in Processes, signals[p] # <<>>
  PROVE  Head(signals[p]) \in Signals /\ SignalFine(p, Head(signals[p]))
<1>1. signals[p] \in Seq(Signals) /\ SignalsFine
  BY DEF IInv, Types, WorkTypes, Fine
<1>2. PICK q : q = signals[p]
  OBVIOUS
<1>3. Head(q) \in ToSet(q) /\ ToSet(q) \subseteq Signals
  BY <1>1, <1>2, ToSetOf
<1> QED BY <1>1, <1>2, <1>3 DEF SignalsFine

LEMMA TailOfQueue ==
  ASSUME NEW S, NEW queues \in [Processes -> Seq(S)], NEW p \in Processes, queues[p] # <<>>
  PROVE  /\ [queues EXCEPT ![p] = Tail(@)] \in [Processes -> Seq(S)]
         /\ \A q \in Processes :
              ToSet([queues EXCEPT ![p] = Tail(@)][q]) \subseteq ToSet(queues[q])
<1>1. Tail(queues[p]) \in Seq(S) /\ ToSet(Tail(queues[p])) \subseteq ToSet(queues[p])
  <2>1. PICK x \in Seq(S) : x = queues[p]
    OBVIOUS
  <2>2. x # <<>>
    BY <2>1
  <2> QED BY <2>1, <2>2, TailFacts, ToSetTail
<1> QED BY <1>1

LEMMA AppendToQueue ==
  ASSUME NEW S, NEW queues \in [Processes -> Seq(S)], NEW p \in Processes, NEW e \in S
  PROVE  /\ [queues EXCEPT ![p] = Append(@, e)] \in [Processes -> Seq(S)]
         /\ \A q \in Processes : \A x \in ToSet([queues EXCEPT ![p] = Append(@, e)][q]) :
              x \in ToSet(queues[q]) \/ (q = p /\ x = e)
<1>1. Append(queues[p], e) \in Seq(S)
      /\ ToSet(Append(queues[p], e)) = ToSet(queues[p]) \cup {e}
  <2>1. PICK x \in Seq(S) : x = queues[p]
    OBVIOUS
  <2> QED BY <2>1, AppendFacts, ToSetAppend
<1> QED BY <1>1

\* What a handler leaves alone that answers from the tables and does not change them.
LEMMA StillFiles ==
  ASSUME FileTransferAssumption, IInv,
         UNCHANGED <<link, sockets, peer, filesList, toAdmin, fileTX, open>>,
         \A p \in Processes, f \in Files : IsWhole(p, f) => IsWhole(p, f)',
         asked \subseteq asked', misled \subseteq misled'
  PROVE  Steady /\ Links' /\ EntriesFine' /\ ListsFine' /\ Entered'
<1>1. Steady
  BY DEF Steady, AdminHas
<1>2. Types /\ Links /\ EntriesFine /\ ListsFine /\ Entered
  BY DEF IInv, Fine
<1>3. Links'
  BY <1>2 DEF Links
<1>4. EntriesFine'
  BY <1>1, <1>2, EntriesKept
<1>5. ListsFine'
  BY <1>1, <1>2, ListsKept
<1>6. Entered'
  BY <1>2 DEF Entered
<1> QED BY <1>1, <1>3, <1>4, <1>5, <1>6

\* All of such a step, when its work is fine.
LEMMA StillStep ==
  ASSUME FileTransferAssumption, IInv, Types',
         UNCHANGED <<link, sockets, peer, filesList, toAdmin, fileTX, open, asks>>,
         \A p \in Processes, f \in Files : IsWhole(p, f) => IsWhole(p, f)',
         asked \subseteq asked', misled \subseteq misled',
         NEW p \in Processes, NEW taken \in {0, 1}, taken = 1 => inbox[p] # <<>>,
         NEW packets \in Seq(Packets), Exchange(p, taken, packets), Exchanged(p, packets),
         \A e \in ToSet(packets) :
           /\ e.type \notin {"upload", "download"}
           /\ link[e.socket] = "up" => PacketFine(OtherEnd(p, e.socket), e)',
         ReadsFine', WritesFine', SignalsFine', IdsFine'
  PROVE  IInv'
<1>1. Steady /\ Links' /\ EntriesFine' /\ ListsFine' /\ Entered'
  BY StillFiles
<1>2. PacketsFine'
  BY <1>1, SentAreFine
<1>3. Turns'
  BY TurnsKept
<1>4. Counted'
  BY CountKept
<1> QED BY <1>1, <1>2, <1>3, <1>4 DEF IInv, Fine

\* A packet is handled, and nothing sent.
LEMMA Handled ==
  ASSUME FileTransferAssumption, IInv, NEW p \in Processes, inbox[p] # <<>>, Reply(p, <<>>)
  PROVE  /\ Exchange(p, 1, <<>>) /\ Exchanged(p, <<>>) /\ <<>> \in Seq(Packets)
         /\ \A e \in ToSet(<<>>) : FALSE
         /\ PacketTypes' /\ asked \subseteq asked'
<1>1. Exchange(p, 1, <<>>)
  BY DEF Reply
<1>2. <<>> \in Seq(Packets) /\ \A e \in ToSet(<<>>) : FALSE
  BY NoElement
<1>3. PICK none \in Seq(Packets) : none = <<>>
  BY <1>2
<1>4. Types
  BY DEF IInv
<1>5. Exchanged(p, none)
  BY <1>1, <1>3, <1>4, ExchangeFacts
<1> QED BY <1>1, <1>2, <1>3, <1>5 DEF Exchanged

-----------------------------------------------------------------------------
(* Requests for pieces                                                     *)

LEMMA ReadPiecesFacts ==
  ASSUME FileTransferAssumption, Types, NEW p \in Processes, NEW s \in Sockets, NEW f \in Files,
         NEW first \in Indices, NEW last \in Indices, first <= last,
         ReadPieces(p, s, f, first, last)
  PROVE  /\ reads' \in [Processes -> Seq(ReadRequest)] /\ readId' \in [Processes -> Nat]
         /\ requests' \in [Processes -> SUBSET (Nat \X Sockets)]
         /\ \A q \in Processes : readId[q] \in Nat /\ readId[q] <= readId[q]'
         /\ \A q \in Processes : q # p => requests[q]' = requests[q]
         /\ \A q \in Processes : \A e \in ToSet(reads[q]') :
              \/ e \in ToSet(reads[q])
              \/ /\ q = p /\ e.file = f /\ e.piece \in first .. last
                 /\ e.id \in Nat /\ e.id >= readId[p] /\ e.id < readId[p]'
         /\ \A r \in requests[p]' :
              \/ r \in requests[p]
              \/ r[1] \in Nat /\ r[1] >= readId[p] /\ r[1] < readId[p]' /\ r = <<r[1], s>>
<1>1. PICK count \in Nat : count = last - first + 1
  BY IndicesAreNumbers
<1>2. first \in Nat /\ last \in Nat /\ readId[p] \in Nat /\ Indices \subseteq Nat
  BY IndicesAreNumbers DEF Types, WorkTypes
<1>3. PICK id \in Nat : id = readId[p]
  BY <1>2
<1> DEFINE new == [n \in 1 .. count |->
                     [id |-> id + n - 1, file |-> f, piece |-> first + n - 1]]
<1>4. /\ reads' = [reads EXCEPT ![p] = @ \o new]
      /\ requests' = [requests EXCEPT ![p] = @ \cup {<<id + n - 1, s>> : n \in 1 .. count}]
      /\ readId' = [readId EXCEPT ![p] = @ + count]
  BY <1>1, <1>3 DEF ReadPieces
<1>5. readId' \in [Processes -> Nat] /\ readId[p]' = id + count
      /\ \A q \in Processes : readId[q] \in Nat /\ readId[q] <= readId[q]'
  BY <1>3, <1>4 DEF Types, WorkTypes
<1>6. ASSUME NEW n \in 1 .. count
      PROVE  /\ id + n - 1 \in Nat /\ id + n - 1 >= id /\ id + n - 1 < id + count
             /\ first + n - 1 \in first .. last /\ first + n - 1 \in Indices
  <2>1. /\ id + n - 1 \in Nat /\ id + n - 1 >= id /\ id + n - 1 < id + count
        /\ first + n - 1 \in first .. last
    BY <1>1, <1>2
  <2>2. first + n - 1 \in Nat /\ first + n - 1 <= last
    BY <1>1, <1>2
  <2>3. first + n - 1 \in Indices
    <3>1. PICK g \in Files : last \in 0 .. NumPieces[g] - 1 + 2 * PiecesInOneRequest
      BY DEF Indices
    <3>2. PICK top \in Int : top = NumPieces[g] - 1 + 2 * PiecesInOneRequest
      BY PiecesAreIndices
    <3>3. first + n - 1 \in 0 .. top
      BY <1>2, <2>2, <3>1, <3>2
    <3> QED BY <3>2, <3>3 DEF Indices
  <2> QED BY <2>1, <2>3
<1>7. new \in Seq(ReadRequest) /\ ToSet(new) = {new[n] : n \in 1 .. count}
  <2>1. new \in [1 .. count -> ReadRequest]
    BY <1>6 DEF ReadRequest
  <2>2. new \in Seq(ReadRequest) /\ Len(new) = count
    BY <2>1, SeqDef
  <2>3. DOMAIN new = 1 .. count
    OBVIOUS
  <2> QED BY <2>2, <2>3 DEF ToSet
<1>8. PICK k \in Seq(ReadRequest) : k = new
  BY <1>7
<1>9. ASSUME NEW e \in ToSet(k)
      PROVE  /\ e.file = f /\ e.piece \in first .. last
             /\ e.id \in Nat /\ e.id >= id /\ e.id < id + count
  <2>1. PICK n \in 1 .. count : e = [id |-> id + n - 1, file |-> f, piece |-> first + n - 1]
    BY <1>7, <1>8
  <2> QED BY <1>6, <2>1
<1>10. PICK old \in Seq(ReadRequest) : old = reads[p]
  BY DEF Types, WorkTypes
<1>11. old \o k \in Seq(ReadRequest) /\ ToSet(old \o k) = ToSet(old) \cup ToSet(k)
  BY ConcatFacts, ToSetConcat
<1> HIDE DEF new
<1>12. reads' = [reads EXCEPT ![p] = old \o k]
  BY <1>4, <1>8, <1>10
<1>13. reads' \in [Processes -> Seq(ReadRequest)]
  BY <1>11, <1>12 DEF Types, WorkTypes
<1>14. ASSUME NEW q \in Processes, NEW e \in ToSet(reads[q]')
       PROVE  \/ e \in ToSet(reads[q])
              \/ /\ q = p /\ e.file = f /\ e.piece \in first .. last
                 /\ e.id \in Nat /\ e.id >= readId[p] /\ e.id < readId[p]'
  <2>1. CASE q = p
    <3>1. reads[q]' = old \o k
      BY <1>12, <2>1 DEF Types, WorkTypes
    <3>2. e \in ToSet(old) \/ e \in ToSet(k)
      BY <1>11, <3>1
    <3> QED BY <1>3, <1>5, <1>9, <1>10, <2>1, <3>2
  <2>2. CASE q # p
    BY <1>12, <2>2 DEF Types, WorkTypes
  <2> QED BY <2>1, <2>2
<1>15. PICK more : more = {<<id + n - 1, s>> : n \in 1 .. count}
  OBVIOUS
<1>16. \A r \in more : r[1] \in Nat /\ r[1] >= id /\ r[1] < id + count /\ r = <<r[1], s>>
  BY <1>6, <1>15, SMTT(20)
<1>17. requests' = [requests EXCEPT ![p] = @ \cup more]
  BY <1>4, <1>15
<1>18. more \subseteq Nat \X Sockets
  BY <1>16
<1>19. /\ requests' \in [Processes -> SUBSET (Nat \X Sockets)]
       /\ \A q \in Processes : q # p => requests[q]' = requests[q]
       /\ requests[p]' = requests[p] \cup more
  BY <1>17, <1>18 DEF Types, WorkTypes
<1> QED BY <1>3, <1>5, <1>13, <1>14, <1>16, <1>19

\* Pieces are queued to be read that were asked for over the connection, and whoever asked for
\* them goes on receiving them.
LEMMA RequestedReads ==
  ASSUME FileTransferAssumption, IInv, Types', Steady, NEW p \in Processes,
         NEW packet \in Packets, packet.type = "request", PacketFine(p, packet),
         ReadPieces(p, packet.socket, packet.file, packet.first, packet.last),
         peer' = peer, p \in Admins => packet.socket = peer[p]
  PROVE  ReadsFine' /\ IdsFine' /\ \A q \in Processes : IdsGrow(q)
<1>1. PICK s \in Sockets, f \in Files, first \in Indices, last \in Indices :
        /\ s = packet.socket /\ f = packet.file /\ first = packet.first /\ last = packet.last
        /\ first <= last
  BY PacketFacts
<1>2. Types /\ ReadsFine /\ IdsFine
  BY DEF IInv, Fine
<1>3. ReadPieces(p, s, f, first, last)
  BY <1>1
<1>4. /\ \A q \in Processes : readId[q] \in Nat /\ readId[q] <= readId[q]'
      /\ \A q \in Processes : q # p => requests[q]' = requests[q]
      /\ \A q \in Processes : \A e \in ToSet(reads[q]') :
           \/ e \in ToSet(reads[q])
           \/ /\ q = p /\ e.file = f /\ e.piece \in first .. last
              /\ e.id \in Nat /\ e.id >= readId[p] /\ e.id < readId[p]'
      /\ \A r \in requests[p]' :
           \/ r \in requests[p]
           \/ r[1] \in Nat /\ r[1] >= readId[p] /\ r[1] < readId[p]' /\ r = <<r[1], s>>
  BY <1>1, <1>2, <1>3, ReadPiecesFacts
<1>5. \A q \in Processes : IdsGrow(q)
  BY <1>4 DEF IdsGrow
<1>6. /\ link[s] # "unused" /\ \A i \in first .. last : <<s, f, i>> \in asked
      /\ p = Client => IsWhole(Client, f)
      /\ link[s] = "up" => IF p = Client THEN AdminReceives(s, f) ELSE ClientReceives(s, f)
  BY <1>1, ClientIsNoAdmin DEF PacketFine, ClientPacket, AdminPacket
<1>7. /\ link[s]' # "unused" /\ \A i \in first .. last : <<s, f, i>> \in asked'
      /\ p = Client => IsWhole(Client, f)'
  BY <1>6, ClientIsNoAdmin DEF Steady
<1>8. link[s]' = "up" => IF p = Client THEN AdminReceives(s, f)' ELSE ClientReceives(s, f)'
  BY <1>6, EndsKept
<1>9. ASSUME NEW e, e.file = f, e.piece \in first .. last, e.id \in Nat,
             e.id >= readId[p], e.id < readId[p]'
      PROVE  ReadFine(p, e)'
  <2>1. ASSUME NEW t \in Sockets, <<e.id, t>> \in requests[p]' PROVE t = s
    <3>1. PICK r : r = <<e.id, t>>
      OBVIOUS
    <3>2. r[1] = e.id /\ r[2] = t /\ r \in requests[p]'
      BY <2>1, <3>1
    <3>3. r \notin requests[p]
      <4>1. r \in requests[p] => r[1] < readId[p]
        BY <1>2 DEF IdsFine, RequestsFine
      <4> QED BY <1>4, <1>9, <3>2, <4>1
    <3>4. r = <<r[1], s>>
      BY <1>4, <3>2, <3>3
    <3> QED BY <3>1, <3>4
  <2> QED BY <1>7, <1>8, <1>9, <2>1 DEF ReadFine
<1>10. ReadsFine'
  <2>1. ASSUME NEW q \in Processes, NEW e \in ToSet(reads[q]')
        PROVE  (e \in ToSet(reads[q]) /\ IdsGrow(q)) \/ ReadFine(q, e)'
    BY <1>4, <1>5, <1>9
  <2> QED BY <1>2, <2>1, ReadsKept
<1>11. RequestsFine(p)'
  <2>1. RequestsFine(p) /\ requests[p] \subseteq Nat \X Sockets /\ readId[p]' \in Nat
    BY <1>2 DEF IdsFine, Types, WorkTypes
  <2>2. ASSUME NEW r \in requests[p]'
        PROVE  r[1] < readId[p]' /\ link[r[2]]' # "unused" /\ (p \in Admins => r[2] = peer[p]')
    <3>1. CASE r \in requests[p]
      <4>1. r[1] < readId[p] /\ link[r[2]] # "unused" /\ (p \in Admins => r[2] = peer[p])
        BY <2>1, <3>1 DEF RequestsFine
      <4>2. r[1] \in Nat /\ r[2] \in Sockets
        BY <2>1, <3>1
      <4>3. link[r[2]]' # "unused"
        BY <4>1, <4>2 DEF Steady
      <4> QED BY <1>4, <2>1, <4>1, <4>2, <4>3
    <3>2. CASE r[1] < readId[p]' /\ r = <<r[1], s>>
      <4>1. r[2] = s
        BY <3>2
      <4> QED BY <1>1, <1>7, <3>2, <4>1
    <3> QED BY <1>4, <3>1, <3>2
  <2>3. ASSUME NEW r \in requests[p]', NEW t \in requests[p]', r[1] = t[1] PROVE r = t
    <3>1. \A x \in requests[p] : x[1] < readId[p] /\ x[1] \in Nat
      BY <2>1 DEF RequestsFine
    <3>2. r \in requests[p] /\ t \in requests[p] => r = t
      BY <2>1, <2>3 DEF RequestsFine
    <3> QED BY <1>4, <2>3, <3>1, <3>2
  <2> QED BY <2>2, <2>3 DEF RequestsFine
<1>12. ASSUME NEW q \in Processes, q # p PROVE RequestsFine(q)'
  <2>1. RequestsFine(q) /\ requests[q]' = requests[q] /\ requests[q] \subseteq Nat \X Sockets
        /\ readId[q] \in Nat /\ readId[q]' \in Nat /\ readId[q] <= readId[q]'
    BY <1>2, <1>4, <1>12 DEF IdsFine, Types, WorkTypes
  <2>2. ASSUME NEW r \in requests[q]
        PROVE  r[1] < readId[q]' /\ link[r[2]]' # "unused"
    <3>1. r[1] < readId[q] /\ link[r[2]] # "unused" /\ r[1] \in Nat /\ r[2] \in Sockets
      BY <2>1 DEF RequestsFine
    <3>2. link[r[2]]' # "unused"
      BY <3>1 DEF Steady
    <3> QED BY <2>1, <3>1, <3>2
  <2> QED BY <2>1, <2>2 DEF RequestsFine
<1>13. IdsFine'
  BY <1>11, <1>12 DEF IdsFine
<1> QED BY <1>5, <1>10, <1>13

\* A packet is handled with nothing sent and no file opened or closed.
LEMMA QuietStep ==
  ASSUME FileTransferAssumption, IInv, Types',
         UNCHANGED <<link, sockets, peer, filesList, toAdmin, fileTX, open, asks, verified,
                     misled>>,
         NEW p \in Processes, inbox[p] # <<>>, Reply(p, <<>>),
         ReadsFine', WritesFine', SignalsFine', IdsFine'
  PROVE  IInv'
<1>1. Exchange(p, 1, <<>>) /\ Exchanged(p, <<>>) /\ <<>> \in Seq(Packets) /\ asked \subseteq asked'
      /\ \A e \in ToSet(<<>>) : FALSE
  BY Handled
<1>2. PICK none \in Seq(Packets) : none = <<>>
  BY <1>1
<1>3. /\ Exchange(p, 1, none) /\ Exchanged(p, none)
      /\ \A e \in ToSet(none) :
           /\ e.type \notin {"upload", "download"}
           /\ link[e.socket] = "up" => PacketFine(OtherEnd(p, e.socket), e)'
  BY <1>1, <1>2
<1>4. /\ \A q \in Processes, f \in Files : IsWhole(q, f) => IsWhole(q, f)'
      /\ misled \subseteq misled'
      /\ UNCHANGED <<link, sockets, peer, filesList, toAdmin, fileTX, open, asks>>
  BY DEF IsWhole
<1>5. 1 \in {0, 1}
  OBVIOUS
<1> QED BY <1>1, <1>3, <1>4, <1>5, StillStep

\* A step of the FileManager, or one of its signals handled with nothing sent.
LEMMA InnerStep ==
  ASSUME FileTransferAssumption, IInv, Types',
         UNCHANGED <<link, sockets, peer, filesList, toAdmin, fileTX, open, asks, inbox, asked>>,
         \A p \in Processes, f \in Files : IsWhole(p, f) => IsWhole(p, f)',
         misled \subseteq misled', ReadsFine', WritesFine', SignalsFine', IdsFine'
  PROVE  IInv'
<1>1. Steady /\ Links' /\ EntriesFine' /\ ListsFine' /\ Entered'
  BY StillFiles
<1>2. PacketsFine'
  <2>1. Types /\ PacketsFine
    BY DEF IInv, Fine
  <2> QED BY <1>1, <2>1, PacketsKept
<1>3. Turns' /\ Counted'
  BY DEF IInv, Turns, InTurn, Counted
<1> QED BY <1>1, <1>2, <1>3 DEF IInv, Fine

-----------------------------------------------------------------------------
(* Steps that open and close no file                                       *)

\* A request for pieces (CLIENT and administrators alike) is queued.
LEMMA ReadsAreQueued ==
  ASSUME FileTransferAssumption, IInv, NEW p \in Processes, Receives(p, "request"),
         ReadPieces(p, Head(inbox[p]).socket, Head(inbox[p]).file,
                    Head(inbox[p]).first, Head(inbox[p]).last),
         p \in Admins => Head(inbox[p]).socket = peer[p], Reply(p, <<>>),
         UNCHANGED <<linkVars, adminVars, toAdmin, fileTX, fileVars, writes, signals,
                     ghosts, asks, faultVars>>
  PROVE  IInv'
<1> USE DEF linkVars, adminVars, fileVars, ghosts, faultVars
<1>1. inbox[p] # <<>> /\ Types
  BY DEF Receives, IInv
<1>2. PICK packet \in Packets : packet = Head(inbox[p])
  BY <1>1, HeadPacket
<1>3. PacketFine(p, packet) /\ packet.type = "request"
  BY <1>1, <1>2, HeadPacket DEF Receives
<1>4. PacketTypes' /\ asked \subseteq asked'
  BY <1>1, Handled
<1>5. ReadPieces(p, packet.socket, packet.file, packet.first, packet.last)
  BY <1>2
<1>6. /\ reads' \in [Processes -> Seq(ReadRequest)] /\ readId' \in [Processes -> Nat]
      /\ requests' \in [Processes -> SUBSET (Nat \X Sockets)]
  <2>1. /\ packet.socket \in Sockets /\ packet.file \in Files /\ packet.first \in Indices
        /\ packet.last \in Indices /\ packet.first <= packet.last
    BY <1>3, PacketFacts
  <2> QED BY <1>1, <1>5, <2>1, ReadPiecesFacts
<1>7. Types'
  <2>1. LinkTypes' /\ FileTypes'
    BY <1>1 DEF Types, LinkTypes, FileTypes
  <2>2. WorkTypes'
    BY <1>1, <1>6 DEF Types, WorkTypes
  <2> QED BY <1>4, <2>1, <2>2 DEF Types
<1>8. Steady
  <2>1. \A q \in Processes, f \in Files : IsWhole(q, f) => IsWhole(q, f)'
    BY DEF IsWhole
  <2> QED BY <1>4, <2>1, StillFiles
<1>9. ReadsFine' /\ IdsFine' /\ \A q \in Processes : IdsGrow(q)
  BY <1>2, <1>3, <1>5, <1>7, <1>8, RequestedReads
<1>10. WritesFine'
  BY <1>1, <1>8, WritesKept DEF IInv, Fine
<1>11. SignalsFine'
  BY <1>1, <1>7, <1>8, <1>9, SignalsKept DEF IInv, Fine
<1> QED BY <1>1, <1>7, <1>9, <1>10, <1>11, QuietStep

LEMMA RequestedPreserves ==
  ASSUME FileTransferAssumption, IInv,
         ClientFileDataRequested \/ \E admin \in Admins : AdminFileDataRequested(admin)
  PROVE  IInv'
<1>1. CASE ClientFileDataRequested
  <2>1. Client \in Processes /\ Client \notin Admins
    BY ClientIsNoAdmin
  <2> QED BY <1>1, <2>1, ReadsAreQueued DEF ClientFileDataRequested
<1>2. ASSUME NEW admin \in Admins, AdminFileDataRequested(admin) PROVE IInv'
  <2>1. admin \in Processes
    BY ClientIsNoAdmin
  <2>2. Head(inbox[admin]).socket = peer[admin]
    BY <1>2 DEF AdminFileDataRequested, Listed, FromPeer
  <2> QED BY <1>2, <2>1, <2>2, ReadsAreQueued DEF AdminFileDataRequested
<1> QED BY <1>1, <1>2

\* What arrives is queued to be written; an administrator receives what the client has.
LEMMA WritesAreQueued ==
  ASSUME FileTransferAssumption, IInv, NEW p \in Processes, Receives(p, "data"),
         QueueWrite(p, Head(inbox[p])), Reply(p, <<>>),
         UNCHANGED <<linkVars, adminVars, toAdmin, fileTX, requests, fileVars, reads, readId,
                     signals, ghosts, asks, faultVars>>
  PROVE  IInv'
<1> USE DEF linkVars, adminVars, fileVars, ghosts, faultVars
<1>1. inbox[p] # <<>> /\ Types
  BY DEF Receives, IInv
<1>2. PICK packet \in Packets : packet = Head(inbox[p])
  BY <1>1, HeadPacket
<1>3. PacketFine(p, packet) /\ packet.type = "data"
  BY <1>1, <1>2, HeadPacket DEF Receives
<1>4. PacketTypes' /\ asked \subseteq asked'
  BY <1>1, Handled
<1>5. PICK write : write = [file |-> packet.file, piece |-> packet.piece]
  OBVIOUS
<1>6. write \in Writes /\ write.file = packet.file
  BY <1>3, <1>5, PacketFacts DEF Writes, WriteRequest
<1>7. writes' = [writes EXCEPT ![p] = Append(@, write)]
  BY <1>2, <1>5 DEF QueueWrite
<1>8. /\ writes' \in [Processes -> Seq(Writes)]
      /\ \A q \in Processes : \A x \in ToSet(writes[q]') :
           x \in ToSet(writes[q]) \/ (q = p /\ x = write)
  <2>1. PICK queues \in [Processes -> Seq(Writes)] : queues = writes
    BY <1>1 DEF Types, WorkTypes
  <2>2. /\ [queues EXCEPT ![p] = Append(@, write)] \in [Processes -> Seq(Writes)]
        /\ \A q \in Processes : \A x \in ToSet([queues EXCEPT ![p] = Append(@, write)][q]) :
             x \in ToSet(queues[q]) \/ (q = p /\ x = write)
    BY <1>6, AppendToQueue
  <2> QED BY <1>7, <2>1, <2>2
<1>9. Types'
  <2>1. LinkTypes' /\ FileTypes'
    BY <1>1 DEF Types, LinkTypes, FileTypes
  <2>2. WorkTypes'
    BY <1>1, <1>8 DEF Types, WorkTypes
  <2> QED BY <1>4, <2>1, <2>2 DEF Types
<1>10. Steady
  <2>1. \A q \in Processes, f \in Files : IsWhole(q, f) => IsWhole(q, f)'
    BY DEF IsWhole
  <2> QED BY <1>4, <2>1, StillFiles
<1>11. WritesFine'
  <2>1. WriteFine(p, write)'
    <3>1. p \in Admins => IsWhole(Client, packet.file)
      BY <1>3 DEF PacketFine, AdminPacket
    <3>2. packet.file \in Files
      BY PacketFacts
    <3> QED BY <1>6, <1>10, <3>1, <3>2, ClientIsNoAdmin DEF WriteFine, Steady
  <2>2. \A q \in Processes : \A e \in ToSet(writes[q]') :
          e \in ToSet(writes[q]) \/ WriteFine(q, e)'
    BY <1>8, <2>1
  <2> QED BY <1>1, <1>10, <2>2, WritesKept DEF IInv, Fine
<1>12. /\ \A q \in Processes : IdsGrow(q)
       /\ ReadsFine /\ SignalsFine /\ IdsFine /\ \A q \in Processes : readId[q] <= readId[q]'
  BY <1>1 DEF IdsGrow, Types, WorkTypes, IInv, Fine
<1>13. ReadsFine'
  BY <1>1, <1>9, <1>10, <1>12, ReadsKept
<1>14. SignalsFine'
  BY <1>1, <1>9, <1>10, <1>12, SignalsKept
<1>15. IdsFine'
  BY <1>1, <1>9, <1>10, <1>12, IdsKept
<1> QED BY <1>1, <1>9, <1>11, <1>13, <1>14, <1>15, QuietStep

LEMMA ReceivedPreserves ==
  ASSUME FileTransferAssumption, IInv,
         ClientFileDataReceived \/ \E admin \in Admins : AdminFileDataReceived(admin)
  PROVE  IInv'
<1>1. CASE ClientFileDataReceived
  <2>1. Client \in Processes
    BY ClientIsNoAdmin
  <2> QED BY <1>1, <2>1, WritesAreQueued DEF ClientFileDataReceived
<1>2. ASSUME NEW admin \in Admins, AdminFileDataReceived(admin) PROVE IInv'
  <2>1. admin \in Processes
    BY ClientIsNoAdmin
  <2> QED BY <1>2, <2>1, WritesAreQueued DEF AdminFileDataReceived
<1> QED BY <1>1, <1>2

LEMMA IgnorePreserves ==
  ASSUME FileTransferAssumption, IInv, NEW admin \in Admins, Ignore(admin)
  PROVE  IInv'
<1> USE DEF linkVars, adminVars, fileVars, ghosts, faultVars, workVars
<1>1. admin \in Processes /\ inbox[admin] # <<>> /\ Types /\ Fine /\ Reply(admin, <<>>)
      /\ UNCHANGED <<linkVars, adminVars, toAdmin, fileTX, requests, fileVars, workVars,
                     ghosts, asks, faultVars>>
  BY ClientIsNoAdmin DEF Ignore, IInv
<1>2. PacketTypes' /\ asked \subseteq asked'
  BY <1>1, Handled
<1>3. Types'
  <2>1. LinkTypes' /\ FileTypes' /\ WorkTypes'
    BY <1>1 DEF Types, LinkTypes, FileTypes, WorkTypes
  <2> QED BY <1>2, <2>1 DEF Types
<1>4. Steady
  <2>1. \A q \in Processes, f \in Files : IsWhole(q, f) => IsWhole(q, f)'
    BY <1>1 DEF IsWhole
  <2> QED BY <1>1, <1>2, <2>1, StillFiles
<1>5. ReadsFine' /\ WritesFine' /\ SignalsFine' /\ IdsFine'
  BY <1>1, <1>3, <1>4, WorkKept
<1> QED BY <1>1, <1>3, <1>5, QuietStep

-----------------------------------------------------------------------------
(* Signals                                                                 *)

LEMMA TakenTypes ==
  ASSUME FileTransferAssumption, Types, NEW p \in Processes, signals[p] # <<>>, TakeSignal(p),
         UNCHANGED <<reads, writes, readId>>,
         requests' \in [Processes -> SUBSET (Nat \X Sockets)]
  PROVE  WorkTypes' /\ \A q \in Processes : ToSet(signals[q]') \subseteq ToSet(signals[q])
<1>1. PICK queues \in [Processes -> Seq(Signals)] : queues = signals
  BY DEF Types, WorkTypes
<1>2. queues[p] # <<>>
  BY <1>1
<1>3. /\ [queues EXCEPT ![p] = Tail(@)] \in [Processes -> Seq(Signals)]
      /\ \A q \in Processes :
           ToSet([queues EXCEPT ![p] = Tail(@)][q]) \subseteq ToSet(queues[q])
  BY <1>2, TailOfQueue
<1>4. signals' = [queues EXCEPT ![p] = Tail(@)]
  BY <1>1 DEF TakeSignal
<1>5. WorkTypes'
  BY <1>3, <1>4 DEF Types, WorkTypes
<1> QED BY <1>1, <1>3, <1>4, <1>5

LEMMA TakenWork ==
  ASSUME FileTransferAssumption, IInv, Types', Steady,
         \A q \in Processes : ToSet(signals[q]') \subseteq ToSet(signals[q]),
         UNCHANGED <<reads, writes, readId, peer>>,
         \A q \in Processes : requests[q]' \subseteq requests[q]
  PROVE  ReadsFine' /\ WritesFine' /\ SignalsFine' /\ IdsFine'
<1>1. Types /\ ReadsFine /\ WritesFine /\ SignalsFine /\ IdsFine
  BY DEF IInv, Fine
<1>2. \A q \in Processes : readId[q] <= readId[q]'
  BY <1>1 DEF Types, WorkTypes
<1>3. \A q \in Processes : IdsGrow(q)
  BY <1>2 DEF IdsGrow
<1>4. ReadsFine'
  BY <1>1, <1>3, ReadsKept
<1>5. WritesFine'
  BY <1>1, WritesKept
<1>6. SignalsFine'
  BY <1>1, <1>3, SignalsKept
<1>7. IdsFine'
  BY <1>1, <1>2, IdsKept
<1> QED BY <1>4, <1>5, <1>6, <1>7

LEMMA SetToSeqFacts ==
  ASSUME NEW S, NEW T \in SUBSET S, IsFiniteSet(T)
  PROVE  SetToSeq(T) \in Seq(S) /\ ToSet(SetToSeq(T)) \subseteq T
         /\ SetToSeq(T) \in [1 .. Cardinality(T) -> T] /\ Cardinality(T) \in Nat
<1>1. Cardinality(T) \in Nat /\ ExistsBijection(1 .. Cardinality(T), T)
  BY FS_CardinalityType
<1>2. PICK f : f \in Bijection(1 .. Cardinality(T), T)
  BY <1>1 DEF ExistsBijection
<1>3. f \in [1 .. Cardinality(T) -> T] /\ IsInjective(f)
  BY <1>2 DEF Bijection, Injection
<1>4. SetToSeq(T) \in [1 .. Cardinality(T) -> T]
  BY <1>3 DEF SetToSeq
<1>5. PICK n \in Nat, q \in [1 .. Cardinality(T) -> T] : n = Cardinality(T) /\ q = SetToSeq(T)
  BY <1>1, <1>4
<1>6. q \in Seq(S) /\ Len(q) = n
  BY <1>5, SeqDef
<1>7. ToSet(q) \subseteq T
  BY <1>5, <1>6, ToSetFacts
<1> QED BY <1>1, <1>4, <1>5, <1>6, <1>7

\* A signal is answered with packets.
LEMMA SignalStep ==
  ASSUME FileTransferAssumption, IInv, NEW p \in Processes, signals[p] # <<>>, TakeSignal(p),
         UNCHANGED <<link, sockets, peer, filesList, toAdmin, fileTX, open, asks, verified,
                     reads, writes, readId, damaged, errors, undefined>>,
         misled \subseteq misled', misled' \subseteq Sockets \X Files,
         requests' \in [Processes -> SUBSET (Nat \X Sockets)],
         \A q \in Processes : requests[q]' \subseteq requests[q],
         NEW packets \in Seq(Packets), Send(p, packets),
         Steady => \A e \in ToSet(packets) :
           /\ e.type \notin {"upload", "download"}
           /\ link[e.socket] = "up" => e.type = "request" \/ PacketFine(OtherEnd(p, e.socket), e)'
           /\ link[e.socket] = "up" /\ e.type = "request" =>
                /\ p = Client => AdminPacket(e)'
                /\ p \in Admins => Owner[e.socket] = p /\ ClientPacket(e)'
  PROVE  IInv'
<1>1. Types /\ 0 \in {0, 1} /\ Exchange(p, 0, packets) /\ (0 = 1 => inbox[p] # <<>>)
  BY DEF IInv, Send
<1>2. Exchanged(p, packets) /\ PacketTypes' /\ asked \subseteq asked'
  <2>1. Exchanged(p, packets)
    BY <1>1, ExchangeFacts
  <2> QED BY <2>1 DEF Exchanged
<1>3. WorkTypes' /\ \A q \in Processes : ToSet(signals[q]') \subseteq ToSet(signals[q])
  BY <1>1, TakenTypes
<1>4. Types'
  <2>1. LinkTypes' /\ FileTypes'
    BY <1>1 DEF Types, LinkTypes, FileTypes
  <2> QED BY <1>2, <1>3, <2>1 DEF Types
<1>5. \A q \in Processes, f \in Files : IsWhole(q, f) => IsWhole(q, f)'
  BY DEF IsWhole
<1>6. Steady
  BY <1>2, <1>5, StillFiles
<1>7. ReadsFine' /\ WritesFine' /\ SignalsFine' /\ IdsFine'
  BY <1>3, <1>4, <1>6, TakenWork
<1>8. ASSUME NEW e \in ToSet(packets)
      PROVE  /\ e.type \notin {"upload", "download"}
             /\ link[e.socket] = "up" => PacketFine(OtherEnd(p, e.socket), e)'
  <2>1. e \in Packets /\ e.socket \in Sockets
    BY ToSetOf, PacketFacts
  <2>2. ASSUME link[e.socket] = "up", e.type = "request"
        PROVE  PacketFine(OtherEnd(p, e.socket), e)'
    <3>1. \A i \in e.first .. e.last : <<e.socket, e.file, i>> \in asked'
      BY <1>2, <2>2 DEF Exchanged
    <3>2. link[e.socket]' # "unused" /\ e.type # "data"
      BY <2>2
    <3>3. CASE p = Client
      <4>1. OtherEnd(p, e.socket) = Owner[e.socket] /\ Owner[e.socket] # Client /\ AdminPacket(e)'
        BY <1>6, <2>1, <2>2, <3>3, ClientIsNoAdmin DEF OtherEnd
      <4> QED BY <3>1, <3>2, <4>1 DEF PacketFine
    <3>4. CASE p \in Admins
      <4>1. OtherEnd(p, e.socket) = Client /\ Client \notin Admins /\ ClientPacket(e)'
        BY <1>6, <2>1, <2>2, <3>4, ClientIsNoAdmin DEF OtherEnd
      <4> QED BY <3>1, <3>2, <4>1 DEF PacketFine
    <3> QED BY <3>3, <3>4, ClientIsNoAdmin
  <2> QED BY <1>6, <2>2
<1> QED BY <1>1, <1>2, <1>4, <1>5, <1>7, <1>8, StillStep

LEMMA ClientFileDataReadPreserves ==
  ASSUME FileTransferAssumption, IInv, ClientFileDataRead
  PROVE  IInv'
<1>1. Client \in Processes /\ signals[Client] # <<>> /\ TakeSignal(Client)
      /\ Head(signals[Client]).type = "dataRead"
  BY ClientIsNoAdmin DEF ClientFileDataRead, Signalled
<1>2. PICK signal \in Signals : signal = Head(signals[Client]) /\ ReadFine(Client, signal)
  BY <1>1, HeadSignal DEF SignalFine
<1>3. PICK mine : mine = {request \in requests[Client] : request[1] = signal.id}
  OBVIOUS
<1>4. PICK set : set = {Data(request[2], signal) : request \in mine}
  OBVIOUS
<1>5. /\ Send(Client, SetToSeq(set))
      /\ requests' = [requests EXCEPT ![Client] = @ \ mine]
      /\ UNCHANGED <<link, sockets, peer, filesList, toAdmin, fileTX, open, asks, verified,
                     reads, writes, readId, damaged, errors, undefined, misled>>
  BY <1>2, <1>3, <1>4
     DEF ClientFileDataRead, linkVars, adminVars, fileVars, ghosts, faultVars
<1>6. Types /\ RequestsFine(Client) /\ misled \subseteq Sockets \X Files
      /\ requests \in [Processes -> SUBSET (Nat \X Sockets)]
  BY <1>1 DEF IInv, Fine, IdsFine, Types, FileTypes, WorkTypes
<1>7. ASSUME NEW r \in mine
      PROVE  /\ r[2] \in Sockets /\ <<signal.id, r[2]>> \in requests[Client]
             /\ \A t \in mine : t = r
  <2>1. r \in Nat \X Sockets /\ r \in requests[Client] /\ r[1] = signal.id
    BY <1>1, <1>3, <1>6
  <2>2. r = <<signal.id, r[2]>>
    BY <2>1
  <2>3. \A t \in mine : t = r
    BY <1>3, <1>6 DEF RequestsFine
  <2> QED BY <2>1, <2>2, <2>3
<1>8. set \subseteq Packets
  <2>1. ASSUME NEW e \in set PROVE e \in Packets
    <3>1. PICK r \in mine : e = Data(r[2], signal)
      BY <1>4
    <3>2. PICK s \in Sockets : s = r[2]
      BY <1>7
    <3> QED BY <3>1, <3>2, DataFacts
  <2> QED BY <2>1
<1>9. IsFiniteSet(set)
  <2>1. CASE mine = {}
    <3>1. set = {}
      BY <1>4, <2>1
    <3> QED BY <3>1, FS_EmptySet
  <2>2. ASSUME NEW r \in mine PROVE IsFiniteSet(set)
    <3>1. mine = {r}
      BY <1>7
    <3>2. set = {Data(r[2], signal)}
      BY <1>4, <3>1
    <3>3. \A x : IsFiniteSet({x})
      BY FS_Singleton
    <3> QED BY <3>2, <3>3
  <2> QED BY <2>1, <2>2
<1>10. PICK packets \in Seq(Packets) : packets = SetToSeq(set) /\ ToSet(packets) \subseteq set
  <2>1. set \in SUBSET Packets
    BY <1>8
  <2>2. SetToSeq(set) \in Seq(Packets) /\ ToSet(SetToSeq(set)) \subseteq set
    BY <1>9, <2>1, SetToSeqFacts
  <2> QED BY <2>2
<1>11. ASSUME Steady, NEW e \in ToSet(packets)
       PROVE  /\ e.type = "data"
              /\ link[e.socket] = "up" => PacketFine(OtherEnd(Client, e.socket), e)'
  <2>1. PICK r \in mine : e = Data(r[2], signal)
    BY <1>4, <1>10
  <2>2. PICK s \in Sockets : s = r[2] /\ <<signal.id, s>> \in requests[Client]
    BY <1>7
  <2>3. /\ e \in Packets /\ e.type = "data" /\ e.socket = s /\ e.file = signal.file
        /\ e.piece = signal.piece
    BY <2>1, <2>2, DataFacts
  <2>4. OtherEnd(Client, s) = Owner[s] /\ Owner[s] \in Processes /\ Owner[s] # Client
    BY ClientIsNoAdmin DEF OtherEnd
  <2>5. ASSUME link[s] = "up" PROVE PacketFine(Owner[s], e)
    <3>1. /\ <<s, signal.file, signal.piece>> \in asked /\ AdminReceives(s, signal.file)
          /\ IsWhole(Client, signal.file)
      BY <1>2, <2>2, <2>5 DEF ReadFine
    <3> QED BY <2>3, <2>4, <2>5, <3>1 DEF PacketFine, AdminPacket
  <2>6. link[s] = "up" => PacketFine(Owner[s], e)'
    BY <1>11, <2>3, <2>4, <2>5, PacketKept
  <2> QED BY <2>3, <2>4, <2>6
<1>12. Send(Client, packets)
  BY <1>5, <1>10
<1>13. /\ requests' \in [Processes -> SUBSET (Nat \X Sockets)]
       /\ \A q \in Processes : requests[q]' \subseteq requests[q]
  BY <1>1, <1>5, <1>6
<1>14. UNCHANGED misled
  BY <1>5
<1> QED BY <1>1, <1>5, <1>6, <1>11, <1>12, <1>13, <1>14, SignalStep

LEMMA AdminFileDataReadPreserves ==
  ASSUME FileTransferAssumption, IInv, NEW admin \in Admins, AdminFileDataRead(admin)
  PROVE  IInv'
<1>1. admin \in Processes /\ admin # Client /\ signals[admin] # <<>> /\ TakeSignal(admin)
      /\ Head(signals[admin]).type = "dataRead"
  BY ClientIsNoAdmin DEF AdminFileDataRead, Signalled
<1>2. PICK signal \in Signals : signal = Head(signals[admin]) /\ ReadFine(admin, signal)
  BY <1>1, HeadSignal DEF SignalFine
<1>3. PICK mine, s : /\ mine = {request \in requests[admin] : request[1] = signal.id}
                     /\ s = peer[admin]
  OBVIOUS
<1>4. PICK packets : packets = IF mine # {} /\ signal.file \in filesList[admin] /\ s # NoSocket
                               THEN <<Data(s, signal)>> ELSE <<>>
  OBVIOUS
<1>5. /\ Send(admin, packets)
      /\ requests' = [requests EXCEPT ![admin] = @ \ mine]
      /\ UNCHANGED <<link, sockets, peer, filesList, toAdmin, fileTX, open, asks, verified,
                     reads, writes, readId, damaged, errors, undefined, misled>>
  BY <1>2, <1>3, <1>4
     DEF AdminFileDataRead, linkVars, adminVars, fileVars, ghosts, faultVars
<1>6. Types /\ Links /\ RequestsFine(admin) /\ misled \subseteq Sockets \X Files
      /\ requests \in [Processes -> SUBSET (Nat \X Sockets)]
      /\ s \in Sockets \cup {NoSocket}
  BY <1>1, <1>3 DEF IInv, Fine, IdsFine, Types, FileTypes, WorkTypes, LinkTypes
<1>7. packets \in Seq(Packets) /\
        \/ packets = <<>> /\ ToSet(packets) = {}
        \/ /\ mine # {} /\ s \in Sockets /\ ToSet(packets) = {Data(s, signal)}
  <2>1. CASE mine # {} /\ signal.file \in filesList[admin] /\ s # NoSocket
    <3>1. s \in Sockets
      BY <1>6, <2>1
    <3>2. Data(s, signal) \in Packets
      BY <3>1, DataFacts
    <3> QED BY <1>4, <2>1, <3>1, <3>2, OneElement
  <2>2. CASE ~(mine # {} /\ signal.file \in filesList[admin] /\ s # NoSocket)
    BY <1>4, <2>2, NoElement
  <2> QED BY <2>1, <2>2
<1>8. ASSUME Steady, NEW e \in ToSet(packets)
      PROVE  /\ e.type = "data"
             /\ link[e.socket] = "up" => PacketFine(OtherEnd(admin, e.socket), e)'
  <2>1. mine # {} /\ s \in Sockets /\ e = Data(s, signal)
    BY <1>7
  <2>2. /\ e \in Packets /\ e.type = "data" /\ e.socket = s /\ e.file = signal.file
        /\ e.piece = signal.piece
    BY <2>1, DataFacts
  <2>3. <<signal.id, s>> \in requests[admin]
    <3>1. PICK r \in mine : TRUE
      BY <2>1
    <3>2. r \in requests[admin] /\ r[1] = signal.id /\ r[2] = s /\ r \in Nat \X Sockets
      BY <1>1, <1>3, <1>6 DEF RequestsFine
    <3> QED BY <3>2
  <2>4. OtherEnd(admin, s) = Client /\ Client \in Processes /\ Client \notin Admins
    BY <1>1, ClientIsNoAdmin DEF OtherEnd
  <2>5. ASSUME link[s] = "up" PROVE PacketFine(Client, e)
    <3>1. <<s, signal.file, signal.piece>> \in asked /\ ClientReceives(s, signal.file)
      BY <1>1, <1>2, <2>1, <2>3, <2>5 DEF ReadFine
    <3> QED BY <2>2, <2>4, <2>5, <3>1 DEF PacketFine, ClientPacket
  <2>6. link[s] = "up" => PacketFine(Client, e)'
    BY <1>8, <2>2, <2>4, <2>5, PacketKept
  <2> QED BY <2>2, <2>4, <2>6
<1>9. /\ requests' \in [Processes -> SUBSET (Nat \X Sockets)]
      /\ \A q \in Processes : requests[q]' \subseteq requests[q]
  BY <1>1, <1>5, <1>6
<1>10. UNCHANGED misled
  BY <1>5
<1> QED BY <1>1, <1>5, <1>6, <1>7, <1>8, <1>9, <1>10, SignalStep

LEMMA FileTXErrorPreserves ==
  ASSUME FileTransferAssumption, IInv, NEW p \in Processes, FileTXError(p)
  PROVE  IInv'
<1>1. /\ signals[p] # <<>> /\ TakeSignal(p)
      /\ UNCHANGED <<link, sockets, peer, filesList, toAdmin, fileTX, open, asks, verified, inbox,
                     asked, reads, writes, readId, damaged, errors, undefined, misled>>
  BY DEF FileTXError, Signalled, linkVars, adminVars, fileVars, ghosts, faultVars
<1>2. Types /\ requests \in [Processes -> SUBSET (Nat \X Sockets)]
  BY DEF IInv, Types, WorkTypes
<1>3. PICK kept : requests' = [requests EXCEPT ![p] = kept] /\ kept \subseteq requests[p]
  <2>1. PICK id : id = Head(signals[p]).id
    OBVIOUS
  <2>2. PICK kept : kept = {request \in requests[p] : request[1] # id \/ (p = Client /\ id = 0)}
    OBVIOUS
  <2>3. requests' = [requests EXCEPT ![p] = kept]
    BY <2>1, <2>2 DEF FileTXError
  <2>4. kept \subseteq requests[p]
    BY <2>2
  <2> QED BY <2>3, <2>4
<1>4. /\ requests' \in [Processes -> SUBSET (Nat \X Sockets)]
      /\ \A q \in Processes : requests[q]' \subseteq requests[q]
  BY <1>2, <1>3
<1>5. WorkTypes' /\ \A q \in Processes : ToSet(signals[q]') \subseteq ToSet(signals[q])
  BY <1>1, <1>2, <1>4, TakenTypes
<1>6. Types'
  <2>1. LinkTypes' /\ FileTypes' /\ PacketTypes'
    BY <1>1, <1>2 DEF Types, LinkTypes, FileTypes, PacketTypes
  <2> QED BY <1>5, <2>1 DEF Types
<1>7. /\ \A q \in Processes, f \in Files : IsWhole(q, f) => IsWhole(q, f)'
      /\ asked \subseteq asked' /\ misled \subseteq misled'
  BY <1>1 DEF IsWhole
<1>8. Steady
  BY <1>1, <1>7, StillFiles
<1>9. ReadsFine' /\ WritesFine' /\ SignalsFine' /\ IdsFine'
  BY <1>1, <1>4, <1>5, <1>6, <1>8, TakenWork
<1> QED BY <1>1, <1>6, <1>7, <1>9, InnerStep

\* What is asked for after a piece, if anything, is one window that is not empty.
LEMMA NextRequestFacts ==
  ASSUME FileTransferAssumption, NEW s \in Sockets, NEW signal \in Signals
  PROVE  /\ NextRequest(s, signal) \in Seq(Packets)
         /\ \A e \in ToSet(NextRequest(s, signal)) :
              e.type = "request" /\ e.socket = s /\ e.file = signal.file
<1>1. PICK f \in Files, k \in Nat : f = signal.file /\ k = signal.piece /\ k \in Pieces(f)
  BY SignalFacts, PiecesAreIndices
<1>2. PICK P \in Nat \ {0}, N \in Nat \ {0} : P = PiecesInOneRequest /\ N = NumPieces[f]
  BY PiecesAreIndices
<1>3. k <= N - 1 /\ k \in Indices
  BY <1>1, <1>2, PiecesAreIndices DEF Pieces
<1>4. ASSUME NEW i \in Nat, NEW j \in Nat, i <= j, j <= N - 1 + 2 * P
      PROVE  /\ <<RequestFileData(s, f, i, j)>> \in Seq(Packets)
             /\ \A e \in ToSet(<<RequestFileData(s, f, i, j)>>) :
                  e.type = "request" /\ e.socket = s /\ e.file = f
  <2>1. i <= N - 1 + 2 * P
    BY <1>4
  <2>2. i \in Indices /\ j \in Indices
    BY <1>2, <1>4, <2>1, PiecesAreIndices
  <2>3. PICK e : e = RequestFileData(s, f, i, j)
    OBVIOUS
  <2>4. e \in Packets /\ e.type = "request" /\ e.socket = s /\ e.file = f
    BY <1>4, <2>2, <2>3, MadePackets
  <2>5. <<e>> \in Seq(Packets) /\ ToSet(<<e>>) = {e}
    BY <2>4, OneElement
  <2> QED BY <2>3, <2>4, <2>5
<1>5. PICK r : r = NextRequest(s, signal)
  OBVIOUS
<1>6. \/ r = <<>>
      \/ r = <<RequestFileData(s, f, k, k)>>
      \/ r = <<RequestFileData(s, f, 1, 2 * P)>>
      \/ r = <<RequestFileData(s, f, k + P + 1, k + 2 * P)>>
  <2>1. WindowAfter(0, 0, 2) = <<1, 2 * P>>
    BY <1>2 DEF WindowAfter
  <2>2. WindowAfter(k, 1, 1) = <<k + P + 1, k + 2 * P>>
    BY <1>2 DEF WindowAfter
  <2>3. PICK w, x : w = WindowAfter(0, 0, 2) /\ x = WindowAfter(k, 1, 1)
    OBVIOUS
  <2>4. w[1] = 1 /\ w[2] = 2 * P /\ x[1] = k + P + 1 /\ x[2] = k + 2 * P
    BY <2>1, <2>2, <2>3
  <2>5. r = RequestAfter(s, signal, w, x)
    BY <1>1, <1>5, <2>3 DEF NextRequest
  <2>6. \/ r = <<>>
        \/ r = <<RequestFileData(s, f, k, k)>>
        \/ r = <<RequestFileData(s, f, w[1], w[2])>>
        \/ r = <<RequestFileData(s, f, x[1], x[2])>>
    BY <1>1, <2>5 DEF RequestAfter
  <2> QED BY <2>4, <2>6
<1>7. k <= N - 1 + 2 * P /\ 1 <= 2 * P /\ 2 * P <= N - 1 + 2 * P
      /\ 2 * P \in Nat /\ k + 2 * P \in Nat /\ k + P + 1 \in Nat /\ 1 \in Nat
      /\ k + P + 1 <= k + 2 * P /\ k + 2 * P <= N - 1 + 2 * P /\ k <= k
  BY <1>3
<1>8. r \in Seq(Packets) /\ \A e \in ToSet(r) : e.type = "request" /\ e.socket = s /\ e.file = f
  <2>1. CASE r = <<>>
    BY <2>1, NoElement
  <2>2. CASE r = <<RequestFileData(s, f, k, k)>>
    BY <1>4, <1>7, <2>2
  <2>3. CASE r = <<RequestFileData(s, f, 1, 2 * P)>>
    BY <1>4, <1>7, <2>3
  <2>4. CASE r = <<RequestFileData(s, f, k + P + 1, k + 2 * P)>>
    BY <1>4, <1>7, <2>4
  <2> QED BY <1>6, <2>1, <2>2, <2>3, <2>4
<1> QED BY <1>1, <1>5, <1>8

\* Done is said to the peers that are entered for the file.
LEMMA DoneToAllFacts ==
  ASSUME FileTransferAssumption, Types, NEW f \in Files
  PROVE  /\ DoneToAll(f) \in Seq(Packets)
         /\ \A e \in ToSet(DoneToAll(f)) : \E s \in Watching(f) : e = Say("done", s, f)
<1>1. PICK entries :
        entries = {entry \in Sockets \X (1 .. MaxAsks) : entry[2] <= fileTX[entry[1]][f]}
  OBVIOUS
<1>2. IsFiniteSet(entries)
  <2>1. IsFiniteSet(Sockets) /\ MaxAsks \in Nat
    BY DEF FileTransferAssumption
  <2>2. IsFiniteSet(1 .. MaxAsks)
    BY <2>1, IntervalSize
  <2>3. IsFiniteSet(Sockets \X (1 .. MaxAsks))
    BY <2>1, <2>2, FS_Product
  <2>4. entries \subseteq Sockets \X (1 .. MaxAsks)
    BY <1>1
  <2> QED BY <2>3, <2>4, FS_Subset
<1>3. PICK n \in Nat : SetToSeq(entries) \in [1 .. n -> entries]
  <2>1. entries \in SUBSET entries
    OBVIOUS
  <2> QED BY <1>2, <2>1, SetToSeqFacts
<1>4. PICK order \in [1 .. n -> entries] : order = SetToSeq(entries)
  BY <1>3
<1>5. PICK done : done = [i \in 1 .. n |-> Say("done", order[i][1], f)]
  OBVIOUS
<1>6. DoneToAll(f) = done
  <2>1. DOMAIN order = 1 .. n
    OBVIOUS
  <2> QED BY <1>1, <1>5, <1>4, <2>1 DEF DoneToAll
<1>7. ASSUME NEW i \in 1 .. n
      PROVE  order[i][1] \in Watching(f) /\ order[i][1] \in Sockets
  <2>1. PICK entry \in Sockets \X (1 .. MaxAsks) :
          entry = order[i] /\ entry[2] <= fileTX[entry[1]][f]
    BY <1>1
  <2>2. entry[1] \in Sockets /\ entry[2] \in 1 .. MaxAsks /\ fileTX[entry[1]][f] \in Nat
    BY <2>1 DEF Types, FileTypes
  <2>3. fileTX[entry[1]][f] > 0
    BY <2>1, <2>2
  <2> QED BY <2>1, <2>2, <2>3 DEF Watching
<1>8. \A i \in 1 .. n : done[i] \in Packets
  BY <1>5, <1>7, MadePackets
<1>9. done \in Seq(Packets) /\ Len(done) = n
  <2>1. done \in [1 .. n -> Packets]
    BY <1>5, <1>8
  <2> QED BY <2>1, SeqDef
<1>10. ASSUME NEW e \in ToSet(done) PROVE \E s \in Watching(f) : e = Say("done", s, f)
  <2>1. PICK i \in 1 .. n : e = done[i]
    BY <1>9, ToSetFacts
  <2> QED BY <1>5, <1>7, <2>1
<1> QED BY <1>6, <1>9, <1>10

LEMMA ClientPieceVerifiedPreserves ==
  ASSUME FileTransferAssumption, IInv, ClientPieceVerified
  PROVE  IInv'
<1>1. /\ Client \in Processes /\ Client \notin Admins
      /\ signals[Client] # <<>> /\ TakeSignal(Client)
      /\ Head(signals[Client]).type = "pieceVerified"
      /\ UNCHANGED <<link, sockets, peer, filesList, toAdmin, fileTX, open, asks, verified,
                     requests, reads, writes, readId, damaged, errors>>
  BY ClientIsNoAdmin
     DEF ClientPieceVerified, Signalled, linkVars, adminVars, fileVars, faultVars
<1>2. PICK signal \in Signals : signal = Head(signals[Client]) /\ signal.type = "pieceVerified"
                                /\ SignalFine(Client, signal)
  BY <1>1, HeadSignal
<1>3. PICK f \in Files : f = signal.file
  BY SignalFacts
<1>4. /\ Types /\ requests \in [Processes -> SUBSET (Nat \X Sockets)]
      /\ misled \subseteq Sockets \X Files
      /\ EntriesFine
  BY DEF IInv, Fine, Types, WorkTypes, FileTypes
<1>5. /\ requests' \in [Processes -> SUBSET (Nat \X Sockets)]
      /\ \A q \in Processes : requests[q]' \subseteq requests[q]
  BY <1>1, <1>4
<1>6. \A s \in Watching(f) : s \in Sockets /\ fileTX[s][f] > 0 /\ link[s] # "unused"
  BY <1>4 DEF Watching, EntriesFine, EntryFine
<1>7. CASE /\ signal.complete /\ Send(Client, DoneToAll(f)) /\ UNCHANGED undefined
           /\ misled' = misled \cup {<<s, f>> : s \in {w \in Watching(f) : ~IsWhole(Owner[w], f)}}
  <2>1. PICK packets \in Seq(Packets) :
          /\ packets = DoneToAll(f)
          /\ \A e \in ToSet(packets) : \E s \in Watching(f) : e = Say("done", s, f)
    BY <1>4, DoneToAllFacts
  <2>2. IsWhole(Client, f)'
    BY <1>1, <1>2, <1>3, <1>7 DEF SignalFine, IsWhole
  <2>3. ASSUME NEW e \in ToSet(packets)
        PROVE  /\ e.type = "done"
               /\ link[e.socket] = "up" => PacketFine(OtherEnd(Client, e.socket), e)'
    <3>1. PICK s \in Watching(f) : e = Say("done", s, f)
      BY <2>1
    <3>2. /\ s \in Sockets /\ link[s] # "unused"
          /\ e.type = "done" /\ e.socket = s /\ e.file = f
      BY <1>6, <3>1, MadePackets
    <3>3. OtherEnd(Client, s) = Owner[s] /\ Owner[s] \in Processes /\ Owner[s] # Client
      BY <3>2, ClientIsNoAdmin DEF OtherEnd
    <3>4. IsWhole(Owner[s], f)' \/ <<s, f>> \in misled'
      BY <1>1, <1>7 DEF IsWhole
    <3>5. AdminPacket(e)'
      BY <2>2, <3>2, <3>4 DEF AdminPacket
    <3>6. link[s]' # "unused"
      BY <1>1, <3>2
    <3> QED BY <3>2, <3>3, <3>5, <3>6 DEF PacketFine
  <2>4. misled \subseteq misled' /\ misled' \subseteq Sockets \X Files
    BY <1>4, <1>6, <1>7
  <2>5. Send(Client, packets) /\ UNCHANGED undefined
    BY <1>7, <2>1
  <2> QED BY <1>1, <1>5, <2>3, <2>4, <2>5, SignalStep
<1>8. ASSUME NEW s \in Watching(f), Send(Client, NextRequest(s, signal)), UNCHANGED ghosts
      PROVE  IInv'
  <2>1. PICK packets \in Seq(Packets) :
          /\ packets = NextRequest(s, signal)
          /\ \A e \in ToSet(packets) : e.type = "request" /\ e.socket = s /\ e.file = f
    BY <1>3, <1>6, NextRequestFacts
  <2>2. ASSUME NEW e \in ToSet(packets) PROVE AdminPacket(e)'
    <3>1. e.type = "request" /\ e.socket = s /\ e.file = f
      BY <2>1
    <3>2. ClientReceives(s, f)'
      BY <1>1, <1>6 DEF ClientReceives
    <3> QED BY <3>1, <3>2 DEF AdminPacket
  <2>3. misled \subseteq misled' /\ misled' \subseteq Sockets \X Files /\ UNCHANGED undefined
    BY <1>4, <1>8 DEF ghosts
  <2>4. Send(Client, packets)
    BY <1>8, <2>1
  <2> QED BY <1>1, <1>5, <2>1, <2>2, <2>3, <2>4, SignalStep
<1>9. CASE UNCHANGED <<inbox, asked, misled>> /\ undefined' \subseteq undefined \cup {"first"}
  <2>1. WorkTypes' /\ \A q \in Processes : ToSet(signals[q]') \subseteq ToSet(signals[q])
    BY <1>1, <1>4, <1>5, TakenTypes
  <2>2. Types'
    <3>1. LinkTypes' /\ FileTypes' /\ PacketTypes'
      BY <1>1, <1>4, <1>9 DEF Types, LinkTypes, FileTypes, PacketTypes
    <3> QED BY <2>1, <3>1 DEF Types
  <2>3. /\ \A q \in Processes, g \in Files : IsWhole(q, g) => IsWhole(q, g)'
        /\ asked \subseteq asked' /\ misled \subseteq misled'
    BY <1>1, <1>9 DEF IsWhole
  <2>4. Steady
    BY <1>1, <2>3, StillFiles
  <2>5. ReadsFine' /\ WritesFine' /\ SignalsFine' /\ IdsFine'
    BY <1>1, <1>5, <2>1, <2>2, <2>4, TakenWork
  <2> QED BY <1>1, <1>9, <2>2, <2>3, <2>5, InnerStep
<1>10. \/ /\ signal.complete /\ Send(Client, DoneToAll(f)) /\ UNCHANGED undefined
          /\ misled' = misled \cup {<<s, f>> : s \in {w \in Watching(f) : ~IsWhole(Owner[w], f)}}
       \/ UNCHANGED <<inbox, asked, ghosts>>
       \/ \E s \in Watching(f) : Send(Client, NextRequest(s, signal)) /\ UNCHANGED ghosts
       \/ undefined' = undefined \cup {"first"} /\ UNCHANGED <<inbox, asked, misled>>
  BY <1>2, <1>3 DEF ClientPieceVerified
<1> QED BY <1>7, <1>8, <1>9, <1>10 DEF ghosts

LEMMA AdminPieceVerifiedPreserves ==
  ASSUME FileTransferAssumption, IInv, NEW admin \in Admins, AdminPieceVerified(admin)
  PROVE  IInv'
<1>1. /\ admin \in Processes /\ admin # Client
      /\ signals[admin] # <<>> /\ TakeSignal(admin)
      /\ Head(signals[admin]).type = "pieceVerified"
      /\ UNCHANGED <<link, sockets, peer, filesList, toAdmin, fileTX, open, asks, verified,
                     requests, reads, writes, readId, damaged, errors, undefined, misled>>
  BY ClientIsNoAdmin
     DEF AdminPieceVerified, Signalled, linkVars, adminVars, fileVars, faultVars, ghosts
<1>2. PICK signal \in Signals : signal = Head(signals[admin]) /\ signal.type = "pieceVerified"
                                /\ SignalFine(admin, signal)
  BY <1>1, HeadSignal
<1>3. PICK f \in Files : f = signal.file
  BY SignalFacts
<1>10. PICK s : s = peer[admin]
  OBVIOUS
<1>4. /\ Types /\ Links /\ requests \in [Processes -> SUBSET (Nat \X Sockets)]
      /\ misled \subseteq Sockets \X Files /\ ListsFine
      /\ s \in Sockets \cup {NoSocket}
  BY <1>10 DEF IInv, Fine, Types, WorkTypes, FileTypes, LinkTypes
<1>5. /\ requests' \in [Processes -> SUBSET (Nat \X Sockets)]
      /\ \A q \in Processes : requests[q]' \subseteq requests[q]
      /\ misled \subseteq misled' /\ misled' \subseteq Sockets \X Files
  BY <1>1, <1>4
<1>6. PICK packets : packets = IF f \notin filesList[admin] \/ s = NoSocket THEN <<>>
                               ELSE IF signal.complete THEN <<Say("done", s, f)>>
                               ELSE NextRequest(s, signal)
  OBVIOUS
<1>7. Send(admin, packets)
  BY <1>2, <1>3, <1>10, <1>6 DEF AdminPieceVerified
<1>8. CASE f \notin filesList[admin] \/ s = NoSocket
  <2>1. packets \in Seq(Packets) /\ ToSet(packets) = {}
    BY <1>6, <1>8, NoElement
  <2> QED BY <1>1, <1>5, <1>7, <2>1, SignalStep
<1>9. CASE f \in filesList[admin] /\ s # NoSocket
  <2>1. s \in Sockets /\ Owner[s] = admin /\ IsWhole(Client, f)
    BY <1>1, <1>2, <1>3, <1>10, <1>4, <1>9 DEF Links, SignalFine, WriteFine
  <2>2. IsWhole(Client, f)'
    BY <1>1, <2>1 DEF IsWhole
  <2>3. OtherEnd(admin, s) = Client /\ Client \in Processes /\ Client \notin Admins
    BY <1>1, ClientIsNoAdmin DEF OtherEnd
  <2>4. CASE signal.complete
    <3>1. PICK e : e = Say("done", s, f)
      OBVIOUS
    <3>2. e \in Packets /\ e.type = "done" /\ e.socket = s /\ e.file = f
      BY <2>1, <3>1, MadePackets
    <3>3. packets \in Seq(Packets) /\ ToSet(packets) = {e}
      BY <1>6, <1>9, <2>4, <3>1, <3>2, OneElement
    <3>4. IsWhole(Owner[s], f)'
      BY <1>1, <1>2, <1>3, <2>1, <2>4 DEF SignalFine, IsWhole
    <3>5. ClientPacket(e)'
      BY <2>2, <3>2, <3>4 DEF ClientPacket
    <3>6. link[e.socket] = "up" => PacketFine(OtherEnd(admin, e.socket), e)'
      BY <1>1, <2>3, <3>2, <3>5 DEF PacketFine
    <3>7. \A x \in ToSet(packets) :
            /\ x.type = "done"
            /\ link[x.socket] = "up" => PacketFine(OtherEnd(admin, x.socket), x)'
      BY <3>2, <3>3, <3>6
    <3> QED BY <1>1, <1>5, <1>7, <3>3, <3>7, SignalStep
  <2>5. CASE ~signal.complete
    <3>1. packets = NextRequest(s, signal)
      BY <1>6, <1>9, <2>5
    <3>2. /\ packets \in Seq(Packets)
          /\ \A e \in ToSet(packets) : e.type = "request" /\ e.socket = s /\ e.file = f
      BY <1>3, <2>1, <3>1, NextRequestFacts
    <3>3. link[s] = "up" => ClientSends(s, f) /\ AdminReceives(s, f)
      BY <1>3, <1>10, <1>4, <1>9 DEF ListsFine, ListFine
    <3>4. link[s]' = "up" /\ Steady => ClientSends(s, f)' /\ AdminReceives(s, f)'
      BY <1>1, <2>1, <3>3, EndsKept
    <3>5. ASSUME Steady, NEW e \in ToSet(packets), link[e.socket] = "up"
          PROVE  Owner[e.socket] = admin /\ ClientPacket(e)'
      <4>1. e.type = "request" /\ e.socket = s /\ e.file = f /\ link[s]' = "up"
        BY <1>1, <3>2, <3>5
      <4> QED BY <2>1, <2>2, <3>4, <3>5, <4>1 DEF ClientPacket
    <3> QED BY <1>1, <1>5, <1>7, <3>2, <3>5, SignalStep
  <2> QED BY <2>4, <2>5
<1> QED BY <1>8, <1>9

-----------------------------------------------------------------------------
(* The threads of the FileManagers                                         *)

\* A signal is emitted.
LEMMA EmitFacts ==
  ASSUME Types, NEW p \in Processes, NEW e \in Signals, Emit(p, e)
  PROVE  /\ signals' \in [Processes -> Seq(Signals)]
         /\ \A q \in Processes : \A x \in ToSet(signals[q]') :
              x \in ToSet(signals[q]) \/ (q = p /\ x = e)
<1>1. PICK queues \in [Processes -> Seq(Signals)] : queues = signals
  BY DEF Types, WorkTypes
<1>2. /\ [queues EXCEPT ![p] = Append(@, e)] \in [Processes -> Seq(Signals)]
      /\ \A q \in Processes : \A x \in ToSet([queues EXCEPT ![p] = Append(@, e)][q]) :
           x \in ToSet(queues[q]) \/ (q = p /\ x = e)
  BY AppendToQueue
<1>3. signals' = [queues EXCEPT ![p] = Append(@, e)]
  BY <1>1 DEF Emit
<1> QED BY <1>1, <1>2, <1>3

LEMMA ReadBlockPreserves ==
  ASSUME FileTransferAssumption, IInv, NEW p \in Processes, ReadBlock(p)
  PROVE  IInv'
<1>1. /\ reads[p] # <<>>
      /\ reads' = [reads EXCEPT ![p] = Tail(@)]
      /\ UNCHANGED <<link, sockets, peer, filesList, toAdmin, fileTX, open, asks, verified, inbox,
                     asked, requests, writes, readId, damaged, undefined, misled>>
  BY DEF ReadBlock, linkVars, adminVars, fileVars, ghosts
<1>2. Types /\ ReadsFine /\ WritesFine /\ SignalsFine /\ IdsFine
  BY DEF IInv, Fine
<1>3. PICK queues \in [Processes -> Seq(ReadRequest)] : queues = reads
  BY <1>2 DEF Types, WorkTypes
<1>4. PICK request \in ReadRequest : request = Head(reads[p]) /\ ReadFine(p, request)
  <2>1. PICK x \in Seq(ReadRequest) : x = reads[p]
    BY <1>3
  <2>2. x # <<>>
    BY <1>1, <2>1
  <2>3. Head(x) \in ToSet(x) /\ ToSet(x) \subseteq ReadRequest
    BY <2>2, ToSetOf
  <2> QED BY <1>2, <2>1, <2>3 DEF ReadsFine
<1>5. /\ reads' \in [Processes -> Seq(ReadRequest)]
      /\ \A q \in Processes : ToSet(reads[q]') \subseteq ToSet(reads[q])
  <2>1. /\ [queues EXCEPT ![p] = Tail(@)] \in [Processes -> Seq(ReadRequest)]
        /\ \A q \in Processes :
             ToSet([queues EXCEPT ![p] = Tail(@)][q]) \subseteq ToSet(queues[q])
    BY <1>1, <1>3, TailOfQueue
  <2> QED BY <1>1, <1>3, <2>1
<1>6. /\ \A q \in Processes, f \in Files : IsWhole(q, f) => IsWhole(q, f)'
      /\ asked \subseteq asked' /\ misled \subseteq misled'
  BY <1>1 DEF IsWhole
<1>7. Steady
  BY <1>1, <1>6, StillFiles
<1>8. /\ \A q \in Processes : readId[q] <= readId[q]'
      /\ \A q \in Processes : IdsGrow(q)
      /\ readId[p] \in Nat /\ readId[p]' \in Nat
  BY <1>1, <1>2 DEF Types, WorkTypes, IdsGrow
<1>9. /\ signals' \in [Processes -> Seq(Signals)] /\ errors' \in 0 .. MaxErrors
      /\ \A q \in Processes : \A x \in ToSet(signals[q]') :
           x \in ToSet(signals[q]) \/ SignalFine(q, x)'
  <2>1. request.file \in Files /\ request.id \in Nat /\ request.piece \in Indices
    BY DEF ReadRequest
  <2>2. ASSUME NEW t \in {"dataRead", "error"}, request.piece \in Pieces(request.file),
               Emit(p, [type |-> t, id |-> request.id, file |-> request.file,
                        piece |-> request.piece])
        PROVE  /\ signals' \in [Processes -> Seq(Signals)]
               /\ \A q \in Processes : \A x \in ToSet(signals[q]') :
                    x \in ToSet(signals[q]) \/ SignalFine(q, x)'
    <3>1. PICK e : e = [type |-> t, id |-> request.id, file |-> request.file,
                        piece |-> request.piece]
      OBVIOUS
    <3>2. /\ e \in Signals /\ e.type = t /\ e.type # "pieceVerified"
          /\ e.id = request.id /\ e.file = request.file /\ e.piece = request.piece
      BY <2>1, <2>2, <3>1 DEF Signals, Signal
    <3>3. ReadFine(p, e)
      BY <1>4, <3>2 DEF ReadFine
    <3>4. ReadFine(p, e)'
      <4>1. RequestsFine(p) /\ readId[p] <= readId[p]'
            /\ \A r \in requests[p]' : r \in requests[p] \/ r[1] >= readId[p]
        BY <1>1, <1>2, <1>8 DEF IdsFine
      <4>2. e.file \in Files /\ e.id \in Nat
        BY <2>1, <3>2
      <4> QED BY <1>7, <1>8, <3>3, <4>1, <4>2, ReadKept
    <3>5. SignalFine(p, e)'
      BY <3>2, <3>4 DEF SignalFine
    <3>6. /\ signals' \in [Processes -> Seq(Signals)]
          /\ \A q \in Processes : \A x \in ToSet(signals[q]') :
               x \in ToSet(signals[q]) \/ (q = p /\ x = e)
      BY <1>2, <2>2, <3>1, <3>2, EmitFacts
    <3> QED BY <3>5, <3>6
  <2>3. /\ errors \in 0 .. MaxErrors /\ MaxErrors \in Nat
        /\ signals \in [Processes -> Seq(Signals)]
    BY <1>2 DEF Types, LinkTypes, WorkTypes, FileTransferAssumption
  <2>4. \/ /\ request.piece \in Pieces(request.file) /\ UNCHANGED errors
           /\ Emit(p, [type |-> "dataRead", id |-> request.id, file |-> request.file,
                       piece |-> request.piece])
        \/ UNCHANGED <<signals, errors>>
        \/ /\ request.piece \in Pieces(request.file) /\ errors < MaxErrors /\ errors' = errors + 1
           /\ Emit(p, [type |-> "error", id |-> request.id, file |-> request.file,
                       piece |-> request.piece])
    BY <1>4 DEF ReadBlock
  <2>5. errors' \in 0 .. MaxErrors
    BY <2>3, <2>4
  <2>6. CASE UNCHANGED <<signals, errors>>
    BY <2>3, <2>5, <2>6
  <2> QED BY <2>2, <2>4, <2>5, <2>6
<1>10. Types'
  <2>1. LinkTypes' /\ FileTypes' /\ PacketTypes' /\ WorkTypes'
    BY <1>1, <1>2, <1>5, <1>9 DEF Types, LinkTypes, FileTypes, PacketTypes, WorkTypes
  <2> QED BY <2>1 DEF Types
<1>11. ReadsFine'
  BY <1>2, <1>5, <1>7, <1>8, <1>10, ReadsKept
<1>12. WritesFine'
  BY <1>1, <1>2, <1>7, WritesKept
<1>13. SignalsFine'
  BY <1>2, <1>7, <1>8, <1>9, <1>10, SignalsKept
<1>14. IdsFine'
  BY <1>1, <1>2, <1>7, <1>8, <1>10, IdsKept
<1> QED BY <1>1, <1>6, <1>10, <1>11, <1>12, <1>13, <1>14, InnerStep

LEMMA WriteBlockPreserves ==
  ASSUME FileTransferAssumption, IInv, NEW p \in Processes, WriteBlock(p)
  PROVE  IInv'
<1>1. /\ writes[p] # <<>>
      /\ writes' = [writes EXCEPT ![p] = Tail(@)]
      /\ UNCHANGED <<link, sockets, peer, filesList, toAdmin, fileTX, open, asks, inbox,
                     asked, requests, reads, readId, undefined, misled>>
  BY DEF WriteBlock, linkVars, adminVars, ghosts
<1>2. Types /\ ReadsFine /\ WritesFine /\ SignalsFine /\ IdsFine
  BY DEF IInv, Fine
<1>3. PICK queues \in [Processes -> Seq(Writes)] : queues = writes
  BY <1>2 DEF Types, WorkTypes
<1>4. PICK request \in Writes : request = Head(writes[p]) /\ WriteFine(p, request)
  <2>1. PICK x \in Seq(Writes) : x = writes[p]
    BY <1>3
  <2>2. x # <<>>
    BY <1>1, <2>1
  <2>3. Head(x) \in ToSet(x) /\ ToSet(x) \subseteq Writes
    BY <2>2, ToSetOf
  <2> QED BY <1>2, <2>1, <2>3 DEF WritesFine
<1>5. /\ writes' \in [Processes -> Seq(Writes)]
      /\ \A q \in Processes : ToSet(writes[q]') \subseteq ToSet(writes[q])
  <2>1. /\ [queues EXCEPT ![p] = Tail(@)] \in [Processes -> Seq(Writes)]
        /\ \A q \in Processes :
             ToSet([queues EXCEPT ![p] = Tail(@)][q]) \subseteq ToSet(queues[q])
    BY <1>1, <1>3, TailOfQueue
  <2> QED BY <1>1, <1>3, <2>1
<1>20. PICK f \in Files : f = request.file
  BY DEF Writes, WriteRequest
<1>6. PICK piece \in Pieces(f) : piece = request.piece /\ piece \in Indices
  BY <1>20 DEF Writes, WriteRequest
<1>7. PICK pieces : pieces = verified[p][f] \cup {piece}
  OBVIOUS
<1>8. /\ Pieces(f) \subseteq Nat /\ piece \in Nat
      /\ verified \in [Processes -> [Files -> SUBSET Nat]]
      /\ \A q \in Processes, g \in Files : verified[q][g] \subseteq Pieces(g)
      /\ signals \in [Processes -> Seq(Signals)]
      /\ errors \in 0 .. MaxErrors /\ MaxErrors \in Nat
      /\ damaged \in 0 .. MaxDamaged /\ MaxDamaged \in Nat
  BY <1>2, PiecesAreIndices
     DEF Types, LinkTypes, FileTypes, WorkTypes, FileTransferAssumption
<1>9. \/ /\ verified' = [verified EXCEPT ![p][f] = pieces] /\ UNCHANGED <<damaged, errors>>
         /\ Emit(p, [type |-> "pieceVerified", file |-> f, piece |-> piece, ok |-> TRUE,
                     complete |-> (TRUE /\ pieces = Pieces(f))])
      \/ /\ damaged < MaxDamaged /\ damaged' = damaged + 1 /\ UNCHANGED <<verified, errors>>
         /\ Emit(p, [type |-> "pieceVerified", file |-> f, piece |-> piece, ok |-> FALSE,
                     complete |-> (FALSE /\ pieces = Pieces(f))])
      \/ /\ errors < MaxErrors /\ errors' = errors + 1 /\ UNCHANGED <<verified, damaged>>
         /\ Emit(p, [type |-> "error", id |-> 0, file |-> f, piece |-> piece])
      \/ UNCHANGED <<verified, signals, damaged, errors>>
  BY <1>4, <1>6, <1>20, <1>7 DEF WriteBlock, faultVars
<1>10. /\ verified' \in [Processes -> [Files -> SUBSET Nat]]
       /\ \A q \in Processes, g \in Files : verified[q][g]' \subseteq Pieces(g)
       /\ \A q \in Processes, g \in Files : IsWhole(q, g) => IsWhole(q, g)'
       /\ damaged' \in 0 .. MaxDamaged /\ errors' \in 0 .. MaxErrors
  <2>1. CASE verified' = [verified EXCEPT ![p][f] = pieces] /\ UNCHANGED <<damaged, errors>>
    <3>1. pieces \in SUBSET Nat /\ pieces \subseteq Pieces(f)
      BY <1>6, <1>7, <1>8
    <3>2. \A q \in Processes, g \in Files :
            verified'[q][g] = IF q = p /\ g = f THEN pieces ELSE verified[q][g]
      BY <1>6, <1>8, <2>1
    <3>3. verified[p][f] = Pieces(f) => pieces = Pieces(f)
      BY <1>6, <1>7
    <3>4. verified' \in [Processes -> [Files -> SUBSET Nat]]
      BY <1>6, <1>8, <2>1, <3>1
    <3> QED BY <1>8, <2>1, <3>1, <3>2, <3>3, <3>4, ZenonT(40) DEF IsWhole
  <2>2. CASE UNCHANGED verified /\ damaged' \in 0 .. MaxDamaged /\ errors' \in 0 .. MaxErrors
    BY <1>8, <2>2 DEF IsWhole
  <2>3. damaged < MaxDamaged /\ damaged' = damaged + 1 => damaged' \in 0 .. MaxDamaged
    BY <1>8
  <2>4. errors < MaxErrors /\ errors' = errors + 1 => errors' \in 0 .. MaxErrors
    BY <1>8
  <2> QED BY <1>8, <1>9, <2>1, <2>2, <2>3, <2>4
<1>11. asked \subseteq asked' /\ misled \subseteq misled'
  BY <1>1
<1>12. Steady
  BY <1>1, <1>10, <1>11, StillFiles
<1>13. /\ \A q \in Processes : readId[q] <= readId[q]'
       /\ \A q \in Processes : IdsGrow(q)
  BY <1>1, <1>2 DEF Types, WorkTypes, IdsGrow
<1>14. /\ signals' \in [Processes -> Seq(Signals)]
       /\ \A q \in Processes : \A x \in ToSet(signals[q]') :
            x \in ToSet(signals[q]) \/ SignalFine(q, x)'
  <2>1. ASSUME NEW ok \in BOOLEAN, NEW complete \in BOOLEAN, complete => IsWhole(p, f)',
               Emit(p, [type |-> "pieceVerified", file |-> f, piece |-> piece, ok |-> ok,
                        complete |-> complete])
        PROVE  /\ signals' \in [Processes -> Seq(Signals)]
               /\ \A q \in Processes : \A x \in ToSet(signals[q]') :
                    x \in ToSet(signals[q]) \/ SignalFine(q, x)'
    <3>1. PICK e : e = [type |-> "pieceVerified", file |-> f, piece |-> piece, ok |-> ok,
                        complete |-> complete]
      OBVIOUS
    <3>2. /\ e \in Signals /\ e.type = "pieceVerified" /\ e.file = f /\ e.complete = complete
      BY <1>6, <3>1 DEF Signals, Signal
    <3>3. WriteFine(p, e)'
      <4>1. p \in Admins => IsWhole(Client, f)
        BY <1>4, <1>20 DEF WriteFine
      <4> QED BY <1>10, <3>2, <4>1, ClientIsNoAdmin DEF WriteFine
    <3>4. SignalFine(p, e)'
      BY <2>1, <3>2, <3>3 DEF SignalFine
    <3>5. /\ signals' \in [Processes -> Seq(Signals)]
          /\ \A q \in Processes : \A x \in ToSet(signals[q]') :
               x \in ToSet(signals[q]) \/ (q = p /\ x = e)
      BY <1>2, <2>1, <3>1, <3>2, EmitFacts
    <3> QED BY <3>4, <3>5
  <2>2. CASE Emit(p, [type |-> "error", id |-> 0, file |-> f, piece |-> piece])
    <3>1. PICK e : e = [type |-> "error", id |-> 0, file |-> f, piece |-> piece]
      OBVIOUS
    <3>2. e \in Signals /\ e.type = "error"
      BY <1>6, <3>1 DEF Signals, Signal
    <3>3. SignalFine(p, e)'
      BY <3>2 DEF SignalFine
    <3>5. Emit(p, e)
      BY <2>2, <3>1
    <3>4. /\ signals' \in [Processes -> Seq(Signals)]
          /\ \A q \in Processes : \A x \in ToSet(signals[q]') :
               x \in ToSet(signals[q]) \/ (q = p /\ x = e)
      BY <1>2, <3>2, <3>5, EmitFacts
    <3> QED BY <3>3, <3>4
  <2>3. CASE UNCHANGED signals
    BY <1>8, <2>3
  <2>4. ASSUME verified' = [verified EXCEPT ![p][f] = pieces], pieces = Pieces(f)
        PROVE  IsWhole(p, f)'
    BY <1>6, <1>8, <2>4 DEF IsWhole
  <2>5. PICK whole \in BOOLEAN : whole = (TRUE /\ pieces = Pieces(f))
    OBVIOUS
  <2>6. CASE /\ verified' = [verified EXCEPT ![p][f] = pieces]
             /\ Emit(p, [type |-> "pieceVerified", file |-> f, piece |-> piece, ok |-> TRUE,
                         complete |-> whole])
    <3>1. whole => IsWhole(p, f)'
      BY <2>4, <2>5, <2>6
    <3> QED BY <2>1, <2>6, <3>1
  <2>7. PICK never \in BOOLEAN : never = (FALSE /\ pieces = Pieces(f)) /\ ~never
    OBVIOUS
  <2>8. CASE Emit(p, [type |-> "pieceVerified", file |-> f, piece |-> piece, ok |-> FALSE,
                      complete |-> never])
    BY <2>1, <2>7, <2>8
  <2> QED BY <1>9, <2>2, <2>3, <2>5, <2>6, <2>7, <2>8
<1>15. Types'
  <2>1. LinkTypes' /\ FileTypes' /\ PacketTypes' /\ WorkTypes'
    BY <1>1, <1>2, <1>5, <1>10, <1>14 DEF Types, LinkTypes, FileTypes, PacketTypes, WorkTypes
  <2> QED BY <2>1 DEF Types
<1>16. ReadsFine'
  BY <1>1, <1>2, <1>12, <1>13, <1>15, ReadsKept
<1>17. WritesFine'
  BY <1>2, <1>5, <1>12, WritesKept
<1>18. SignalsFine'
  BY <1>2, <1>12, <1>13, <1>14, <1>15, SignalsKept
<1>19. IdsFine'
  BY <1>1, <1>2, <1>12, <1>13, <1>15, IdsKept
<1> QED BY <1>1, <1>10, <1>11, <1>15, <1>16, <1>17, <1>18, <1>19, InnerStep

-----------------------------------------------------------------------------
(* The administrator asks for transfers                                    *)

\* What cannot be sent has no connection that is up.
LEMMA SendFails ==
  ASSUME IInv, NEW p \in Processes, NEW s \in Sockets, p = Client \/ Owner[s] = p,
         NEW ok \in SendResults(p, s)
  PROVE  ok \in BOOLEAN /\ (~ok => link[s] # "up")
<1>1. link[s] = "up" => s \in sockets[Client] /\ s \in sockets[Owner[s]]
  BY DEF IInv, Links
<1>2. CASE s \notin sockets[p]
  <2>1. ok \in {FALSE}
    BY <1>2 DEF SendResults
  <2> QED BY <1>1, <1>2, <2>1
<1>3. CASE s \in sockets[p] /\ link[s] = "up"
  <2>1. ok \in {TRUE}
    BY <1>3 DEF SendResults
  <2> QED BY <2>1
<1>4. CASE s \in sockets[p] /\ link[s] # "up"
  BY <1>4 DEF SendResults
<1> QED BY <1>2, <1>3, <1>4

LEMMA AskFacts ==
  ASSUME FileTransferAssumption, Types, NEW file \in Files, Ask(file)
  PROVE  /\ asks' = [asks EXCEPT ![file] = @ + 1]
         /\ asks' \in [Files -> 0 .. MaxAsks]
         /\ \A f \in Files : asks[f] \in Nat /\ asks[f]' \in Nat /\ asks[f] <= asks[f]'
<1>1. asks' = [asks EXCEPT ![file] = @ + 1] /\ asks[file] < MaxAsks
  BY DEF Ask
<1>2. asks \in [Files -> 0 .. MaxAsks] /\ MaxAsks \in Nat
  BY DEF Types, FileTypes, FileTransferAssumption
<1>3. asks[file] + 1 \in 0 .. MaxAsks
  BY <1>1, <1>2
<1>4. asks' \in [Files -> 0 .. MaxAsks]
  BY <1>1, <1>2, <1>3
<1>5. \A f \in Files : asks[f]' = IF f = file THEN asks[f] + 1 ELSE asks[f]
  BY <1>1, <1>2
<1> QED BY <1>1, <1>2, <1>4, <1>5

LEMMA RequestDownloadPreserves ==
  ASSUME FileTransferAssumption, IInv, NEW admin \in Admins, NEW file \in Files,
         RequestDownloadFileFromRemote(admin, file)
  PROVE  IInv'
<1>1. /\ peer[admin] # NoSocket /\ Ask(file) /\ Send(admin, <<Say("download", peer[admin], file)>>)
      /\ UNCHANGED <<linkVars, adminVars, toAdmin, fileTX, requests, fileVars, workVars,
                     ghosts, faultVars>>
  BY DEF RequestDownloadFileFromRemote
<1>2. UNCHANGED <<link, sockets, peer, filesList, toAdmin, fileTX, open, verified, requests, reads,
                  writes, readId, signals, undefined, misled, damaged, errors>>
  BY <1>1 DEF linkVars, adminVars, fileVars, workVars, ghosts, faultVars
<1>3. Types /\ Links /\ Fine
  BY DEF IInv
<1>4. PICK s \in Sockets : s = peer[admin] /\ Owner[s] = admin /\ link[s] # "unused"
  BY <1>1, <1>3 DEF Types, LinkTypes, Links
<1>5. PICK e \in Packets : /\ e = Say("download", s, file)
                           /\ e.type = "download" /\ e.socket = s /\ e.file = file
  BY MadePackets
<1>6. PICK packets \in Seq(Packets) : packets = <<e>> /\ Len(packets) = 1 /\ ToSet(packets) = {e}
  BY OneElement
<1>7. Exchange(admin, 0, packets)
  BY <1>1, <1>4, <1>5, <1>6 DEF Send
<1>8. admin \in Processes /\ admin # Client /\ Client \in Processes /\ Client \notin Admins
  BY ClientIsNoAdmin
<1>9. Exchanged(admin, packets)
  BY <1>3, <1>7, <1>8, ExchangeFacts
<1>10. /\ asks' = [asks EXCEPT ![file] = @ + 1]
       /\ asks' \in [Files -> 0 .. MaxAsks]
  BY <1>1, <1>3, AskFacts
<1>11. Types'
  <2>1. LinkTypes' /\ FileTypes' /\ PacketTypes' /\ WorkTypes'
    BY <1>2, <1>3, <1>9, <1>10
       DEF Types, LinkTypes, FileTypes, WorkTypes, Exchanged
  <2> QED BY <2>1 DEF Types
<1>12. asked \subseteq asked' /\ misled \subseteq misled'
       /\ \A q \in Processes, f \in Files : IsWhole(q, f) => IsWhole(q, f)'
  BY <1>2, <1>9 DEF Exchanged, IsWhole
<1>13. Steady /\ Links' /\ EntriesFine' /\ ListsFine' /\ Entered'
  BY <1>2, <1>12, StillFiles
<1>14. ReadsFine' /\ WritesFine' /\ SignalsFine' /\ IdsFine'
  BY <1>2, <1>3, <1>11, <1>13, WorkKept DEF workVars
<1>15. PacketsFine'
  <2>1. PacketFine(OtherEnd(admin, s), e)'
    BY <1>2, <1>4, <1>5, <1>8 DEF PacketFine, ClientPacket, OtherEnd
  <2>2. \A x \in ToSet(packets) : link[x.socket] = "up" => PacketFine(OtherEnd(admin, x.socket), x)'
    BY <1>5, <1>6, <2>1
  <2> QED BY <1>8, <1>9, <1>13, <2>2, SentAreFine
<1>16. Turns'
  <2>1. \A t \in Sockets, f \in Files : (fileTX[t][f] > 0)' => fileTX[t][f] > 0
    BY <1>2
  <2> QED BY <1>2, <1>7, <1>8, <1>11, <2>1, TurnsKept
<1>17. Counted'
  <2>1. Len(packets) <= 1 /\ \A x \in ToSet(packets) : x.file = file
    BY <1>5, <1>6
  <2> QED BY <1>2, <1>7, <1>10, <1>11, <2>1, AskCounted
<1> QED BY <1>11, <1>13, <1>14, <1>15, <1>16, <1>17 DEF IInv, Fine

LEMMA AskingSize ==
  ASSUME NEW S, NEW q \in Seq(S), NEW f
  PROVE  Cardinality(Asking(q, f)) \in Nat
<1>1. PICK n \in Nat : n = Len(q)
  OBVIOUS
<1>2. IsFiniteSet(1 .. n) /\ Asking(q, f) \subseteq 1 .. n
  BY <1>1, IntervalSize DEF Asking
<1>3. IsFiniteSet(Asking(q, f))
  BY <1>2, FS_Subset
<1> QED BY <1>3, FS_CardinalityType

\* The file that is uploaded is opened before it is asked for.
LEMMA UploadAsked ==
  ASSUME FileTransferAssumption, IInv, NEW admin \in Admins, NEW file \in Files, Ask(file),
         peer[admin] # NoSocket, IsWhole(admin, file), Open(admin, file),
         filesList' = [filesList EXCEPT ![admin] = @ \cup {file}],
         Send(admin, <<Say("upload", peer[admin], file)>>),
         UNCHANGED <<link, sockets, peer, toAdmin, fileTX, verified, requests, reads,
                     writes, readId, signals, undefined, misled, damaged, errors>>
  PROVE  IInv'
<1>1. Types /\ Links /\ Fine /\ Entered
  BY DEF IInv
<1>2. PICK s \in Sockets : s = peer[admin] /\ Owner[s] = admin /\ link[s] # "unused"
  BY <1>1 DEF Types, LinkTypes, Links
<1>3. PICK e \in Packets : /\ e = Say("upload", s, file)
                           /\ e.type = "upload" /\ e.socket = s /\ e.file = file
  BY MadePackets
<1>4. PICK packets \in Seq(Packets) : packets = <<e>> /\ Len(packets) = 1 /\ ToSet(packets) = {e}
  BY OneElement
<1>5. Exchange(admin, 0, packets)
  BY <1>2, <1>3, <1>4 DEF Send
<1>6. admin \in Processes /\ admin # Client /\ Client \in Processes /\ Client \notin Admins
  BY ClientIsNoAdmin
<1>7. Exchanged(admin, packets)
  BY <1>1, <1>5, <1>6, ExchangeFacts
<1>8. /\ asks' = [asks EXCEPT ![file] = @ + 1]
      /\ asks' \in [Files -> 0 .. MaxAsks]
  BY <1>1, AskFacts
<1>9. /\ open' \in [Processes -> SUBSET Files] /\ filesList' \in [Admins -> SUBSET Files]
      /\ \A p \in Processes : open[p]' = IF p = admin THEN open[p] \cup {file} ELSE open[p]
      /\ \A a \in Admins :
           filesList[a]' = IF a = admin THEN filesList[a] \cup {file} ELSE filesList[a]
  BY <1>1, <1>6 DEF Types, FileTypes, Open
<1>10. Types'
  <2>1. LinkTypes' /\ FileTypes' /\ PacketTypes' /\ WorkTypes'
    BY <1>1, <1>7, <1>8, <1>9
       DEF Types, LinkTypes, FileTypes, WorkTypes, Exchanged
  <2> QED BY <2>1 DEF Types
<1>11. \A q \in Processes, f \in Files : IsWhole(q, f) => IsWhole(q, f)'
  BY DEF IsWhole
<1>12. Steady
  <2>1. asked \subseteq asked' /\ misled \subseteq misled'
    BY <1>7 DEF Exchanged
  <2>2. \A t \in Sockets, f \in Files : AdminHas(t, f) => AdminHas(t, f)'
    BY <1>9, ClientIsNoAdmin DEF AdminHas
  <2>3. open[Client]' = open[Client]
    BY <1>6, <1>9
  <2> QED BY <1>11, <2>1, <2>2, <2>3 DEF Steady
<1>13. Links'
  BY <1>1, <1>9 DEF Links
<1>14. ReadsFine' /\ WritesFine' /\ SignalsFine' /\ IdsFine'
  BY <1>1, <1>10, <1>12, WorkKept DEF workVars
<1>15. EntriesFine'
  BY <1>1, <1>12, EntriesKept DEF Fine
<1>16. IsWhole(Owner[s], file)' /\ ClientSends(s, file)' /\ AdminReceives(s, file)'
  BY <1>2, <1>6, <1>11 DEF ClientSends, AdminReceives
<1>17. ListsFine'
  <2>1. ListFine(admin, file)'
    BY <1>2, <1>16 DEF ListFine
  <2> QED BY <1>1, <1>9, <1>12, <2>1, ListsKept DEF Fine
<1>18. Entered'
  BY <1>1, <1>6, <1>9 DEF Entered
<1>19. PacketsFine'
  <2>1. AdminHas(s, file)'
    BY <1>2, <1>6, <1>9 DEF AdminHas
  <2>2. PacketFine(OtherEnd(admin, s), e)'
    BY <1>2, <1>3, <1>6, <1>16, <2>1 DEF PacketFine, ClientPacket, OtherEnd, AdminSends
  <2>3. \A x \in ToSet(packets) : link[x.socket] = "up" => PacketFine(OtherEnd(admin, x.socket), x)'
    BY <1>3, <1>4, <2>2
  <2> QED BY <1>6, <1>7, <1>12, <2>3, SentAreFine
<1>20. Turns'
  <2>1. \A t \in Sockets, f \in Files : (fileTX[t][f] > 0)' => fileTX[t][f] > 0
    OBVIOUS
  <2> QED BY <1>5, <1>6, <1>10, <2>1, TurnsKept
<1>21. Counted'
  <2>1. Len(packets) <= 1 /\ \A x \in ToSet(packets) : x.file = file
    BY <1>3, <1>4
  <2> QED BY <1>5, <1>8, <1>10, <2>1, AskCounted
<1> QED BY <1>10, <1>12, <1>13, <1>14, <1>15, <1>17, <1>18, <1>19, <1>20, <1>21 DEF IInv, Fine

\* It is closed when it cannot be: the connection is lost.
LEMMA UploadNotAsked ==
  ASSUME FileTransferAssumption, IInv, NEW admin \in Admins, NEW file \in Files, Ask(file),
         peer[admin] # NoSocket, link[peer[admin]] # "up", Close(admin, {file}),
         UNCHANGED <<filesList, inbox, asked, link, sockets, peer, toAdmin, fileTX, verified,
                     requests, reads, writes, readId, signals, undefined, misled, damaged, errors>>
  PROVE  IInv'
<1>1. Types /\ Links /\ Fine /\ Entered /\ Turns /\ Counted
  BY DEF IInv
<1>2. admin \in Processes /\ admin # Client /\ Client \in Processes /\ Client \notin Admins
  BY ClientIsNoAdmin
<1>3. /\ asks' \in [Files -> 0 .. MaxAsks]
      /\ \A f \in Files : asks[f] \in Nat /\ asks[f]' \in Nat /\ asks[f] <= asks[f]'
  BY <1>1, AskFacts
<1>4. /\ open' \in [Processes -> SUBSET Files]
      /\ \A p \in Processes : p # admin => open[p]' = open[p]
  BY <1>1, <1>2 DEF Types, FileTypes, Close
<1>5. Types'
  <2>1. LinkTypes' /\ FileTypes' /\ PacketTypes' /\ WorkTypes'
    BY <1>1, <1>3, <1>4 DEF Types, LinkTypes, FileTypes, WorkTypes, PacketTypes
  <2> QED BY <2>1 DEF Types
<1>6. Steady
  <2>1. \A q \in Processes, f \in Files : IsWhole(q, f) => IsWhole(q, f)'
    BY DEF IsWhole
  <2>2. ASSUME NEW s \in Sockets, NEW f \in Files, link[s] = "up", AdminHas(s, f)
        PROVE  AdminHas(s, f)'
    <3>1. Owner[s] \in Processes /\ Owner[s] # admin
      BY <1>1, <2>2, ClientIsNoAdmin DEF Links
    <3> QED BY <1>4, <2>2, <3>1 DEF AdminHas
  <2>3. open[Client]' = open[Client]
    BY <1>2, <1>4
  <2> QED BY <2>1, <2>2, <2>3 DEF Steady
<1>7. Links'
  BY <1>1 DEF Links
<1>8. ReadsFine' /\ WritesFine' /\ SignalsFine' /\ IdsFine'
  BY <1>1, <1>5, <1>6, WorkKept DEF workVars
<1>9. EntriesFine'
  BY <1>1, <1>6, EntriesKept DEF Fine
<1>10. ListsFine'
  BY <1>1, <1>6, ListsKept DEF Fine
<1>11. Entered'
  BY <1>1, <1>2, <1>4 DEF Entered
<1>12. PacketsFine'
  BY <1>1, <1>6, PacketsKept DEF Fine
<1>13. Turns'
  BY <1>1 DEF Turns, InTurn
<1>14. Counted'
  <2>1. ASSUME NEW s \in Sockets, NEW f \in Files
        PROVE  (fileTX[s][f] + Cardinality(Asking(inbox[Client], f)) <= asks[f])'
    <3>1. PICK n \in Nat : n = fileTX[s][f]
      BY <1>1 DEF Types, FileTypes
    <3>2. PICK queue \in Seq(Packets) : queue = inbox[Client]
      BY <1>1, <1>2 DEF Types, PacketTypes
    <3>3. PICK k \in Nat : k = Cardinality(Asking(inbox[Client], f))
      BY <3>2, AskingSize
    <3>4. n + k <= asks[f]
      BY <1>1, <3>1, <3>3 DEF Counted
    <3>5. Asking(inbox[Client], f)' = Asking(inbox[Client], f)
      BY DEF Asking
    <3>6. n + k <= asks[f]'
      BY <1>3, <3>4
    <3> QED BY <3>1, <3>3, <3>5, <3>6
  <2> QED BY <2>1 DEF Counted
<1> QED BY <1>5, <1>6, <1>7, <1>8, <1>9, <1>10, <1>11, <1>12, <1>13, <1>14 DEF IInv, Fine

LEMMA RequestUploadPreserves ==
  ASSUME FileTransferAssumption, IInv, NEW admin \in Admins, NEW file \in Files,
         RequestUploadFilesToRemote(admin, file)
  PROVE  IInv'
<1>1. /\ peer[admin] # NoSocket /\ IsWhole(admin, file) /\ Ask(file)
      /\ UNCHANGED <<link, sockets, peer, toAdmin, fileTX, verified, requests, reads,
                     writes, readId, signals, undefined, misled, damaged, errors>>
  BY DEF RequestUploadFilesToRemote, linkVars, workVars, ghosts, faultVars
<1>2. admin \in Processes /\ peer[admin] \in Sockets /\ Owner[peer[admin]] = admin
  BY <1>1, ClientIsNoAdmin DEF IInv, Types, LinkTypes, Links
<1>3. PICK ok \in SendResults(admin, peer[admin]) :
        IF ok
        THEN /\ Open(admin, file)
             /\ filesList' = [filesList EXCEPT ![admin] = @ \cup {file}]
             /\ Send(admin, <<Say("upload", peer[admin], file)>>)
        ELSE Close(admin, {file}) /\ UNCHANGED <<filesList, inbox, asked>>
  BY DEF RequestUploadFilesToRemote
<1>4. ok \in BOOLEAN /\ (~ok => link[peer[admin]] # "up")
  BY <1>2, SendFails
<1>5. CASE ok
  BY <1>1, <1>3, <1>5, UploadAsked
<1>6. CASE ~ok
  BY <1>1, <1>3, <1>4, <1>6, UploadNotAsked
<1> QED BY <1>5, <1>6

-----------------------------------------------------------------------------
(* The client is asked for transfers                                       *)

\* What changes nothing but the files of the client, its entries, and what is on its way.
LEMMA ClientTypes ==
  ASSUME FileTransferAssumption, Types,
         UNCHANGED <<link, sockets, peer, filesList, toAdmin, requests, reads, writes, readId,
                     signals, undefined, misled, asks, damaged, errors>>,
         fileTX' \in [Sockets -> [Files -> Nat]], open' \in [Processes -> SUBSET Files],
         verified' \in [Processes -> [Files -> SUBSET Nat]],
         \A p \in Processes, g \in Files : verified[p][g]' \subseteq Pieces(g),
         PacketTypes'
  PROVE  Types'
<1>1. LinkTypes' /\ FileTypes' /\ WorkTypes'
  BY DEF Types, LinkTypes, FileTypes, WorkTypes
<1> QED BY <1>1 DEF Types

\* An entry is made for the request at the head of the inbox, and the file opened for it
\* unless all of it has been received.
Enters(s, f, packets) ==
  /\ s \in sockets[Client] /\ (link[s] = "up" => AdminSends(s, f))
  /\ fileTX' = [fileTX EXCEPT ![s][f] = @ + 1]
  /\ open' \in [Processes -> SUBSET Files] /\ \A p \in Admins : open[p]' = open[p]
  /\ open[Client] \subseteq open[Client]' /\ open[Client]' \subseteq open[Client] \cup {f}
  /\ f \in open[Client]' \/ IsWhole(Client, f)
  /\ verified' \in [Processes -> [Files -> SUBSET Nat]]
  /\ \A p \in Processes, g \in Files : verified[p][g]' \subseteq Pieces(g)
  /\ \A p \in Processes, g \in Files : IsWhole(p, g) => IsWhole(p, g)'
  /\ Reply(Client, packets)
  /\ \A x \in ToSet(packets) :
       x.type \in {"accepted", "refused", "request"} /\ x.socket = s /\ x.file = f
  /\ \A x \in ToSet(packets) :
       (fileTX[s][f] > 0)' /\ link[s] = "up" => AdminPacket(x)'

LEMMA EntryMade ==
  ASSUME FileTransferAssumption, IInv, inbox[Client] # <<>>, NEW e \in Packets,
         e = Head(inbox[Client]), e.type \in {"upload", "download"}, NEW s \in Sockets,
         NEW f \in Files, s = e.socket, f = e.file,
         UNCHANGED <<link, sockets, peer, filesList, toAdmin, requests, reads, writes, readId,
                     signals, undefined, misled, asks, damaged, errors>>,
         NEW packets \in Seq(Packets), Enters(s, f, packets)
  PROVE  IInv'
<1> USE DEF Enters
<1>1. Types /\ Links /\ Fine /\ Entered /\ PacketFine(Client, e)
  BY HeadPacket, ClientIsNoAdmin DEF IInv
<1>2. Client \in Processes /\ Client \notin Admins
  BY ClientIsNoAdmin
<1>3. Exchange(Client, 1, packets)
  BY DEF Reply
<1>4. Exchanged(Client, packets)
  BY <1>1, <1>2, <1>3, ExchangeFacts
<1>5. /\ fileTX' \in [Sockets -> [Files -> Nat]] /\ fileTX[s][f]' > 0
      /\ \A t \in Sockets, g \in Files :
           /\ fileTX[t][g] \in Nat
           /\ fileTX[t][g]' = IF t = s /\ g = f THEN fileTX[t][g] + 1 ELSE fileTX[t][g]
  <2>1. fileTX \in [Sockets -> [Files -> Nat]]
    BY <1>1 DEF Types, FileTypes
  <2>2. \A t \in Sockets, g \in Files :
          fileTX[t][g]' = IF t = s /\ g = f THEN fileTX[t][g] + 1 ELSE fileTX[t][g]
    BY <2>1
  <2>3. PICK n \in Nat, row \in [Files -> Nat] : n = fileTX[s][f] /\ row = fileTX[s]
    BY <2>1, SMTT(20)
  <2>4. n + 1 \in Nat /\ n + 1 > 0
    OBVIOUS
  <2>5. [row EXCEPT ![f] = n + 1] \in [Files -> Nat]
    BY <2>4
  <2>6. fileTX' = [fileTX EXCEPT ![s] = [row EXCEPT ![f] = n + 1]]
    BY <2>3
  <2>7. fileTX' \in [Sockets -> [Files -> Nat]]
    BY <2>1, <2>5, <2>6, SMTT(20)
  <2>8. fileTX[s][f]' = n + 1
    BY <2>2, <2>3, SMTT(20)
  <2>9. fileTX[s][f]' > 0
    BY <2>4, <2>8
  <2>10. \A t \in Sockets, g \in Files : fileTX[t][g] \in Nat
    BY <2>1
  <2> HIDE DEF Enters
  <2> QED BY <2>2, <2>7, <2>9, <2>10
<1>6. Types'
  BY <1>1, <1>4, <1>5, ClientTypes DEF Exchanged
<1>7. Steady
  <2>1. asked \subseteq asked' /\ misled \subseteq misled'
    BY <1>4 DEF Exchanged
  <2>2. \A t \in Sockets, g \in Files : AdminHas(t, g) => AdminHas(t, g)'
    BY ClientIsNoAdmin DEF AdminHas
  <2>3. ASSUME NEW t \in Sockets, NEW g \in Files, fileTX[t][g] > 0
        PROVE  (fileTX[t][g] > 0)'
    <3> HIDE DEF Enters
    <3>1. PICK n \in Nat : n = fileTX[t][g]
      BY <1>5
    <3>2. CASE t = s /\ g = f
      <4>1. fileTX[t][g]' = n + 1
        BY <1>5, <3>1, <3>2
      <4> QED BY <4>1
    <3>3. CASE ~(t = s /\ g = f)
      <4>1. fileTX[t][g]' = n
        BY <1>5, <3>1, <3>3
      <4> QED BY <2>3, <3>1, <4>1
    <3> QED BY <3>2, <3>3
  <2> QED BY <2>1, <2>2, <2>3 DEF Steady
<1>8. Links'
  BY <1>1 DEF Links
<1>9. ReadsFine' /\ WritesFine' /\ SignalsFine' /\ IdsFine'
  BY <1>1, <1>6, <1>7, WorkKept DEF workVars
<1>10. EntriesFine'
  <2>1. link[s] # "unused"
    BY <1>1 DEF PacketFine
  <2>2. link[s]' = "up" => AdminSends(s, f)'
    BY <1>7, <2>1, EndsKept
  <2>3. EntryFine(s, f)'
    BY <1>2, <2>1, <2>2 DEF EntryFine
  <2>4. \A t \in Sockets, g \in Files :
          \/ EntryFine(t, g)'
          \/ (fileTX[t][g] > 0)' => fileTX[t][g] > 0
    <3>1. ASSUME NEW t \in Sockets, NEW g \in Files, ~(t = s /\ g = f)
          PROVE  (fileTX[t][g] > 0)' => fileTX[t][g] > 0
      BY <1>5, <3>1, SMTT(20)
    <3> QED BY <2>3, <3>1
  <2> QED BY <1>1, <1>7, <2>4, EntriesKept DEF Fine
<1>11. ListsFine'
  BY <1>1, <1>7, ListsKept DEF Fine
<1>12. Entered'
  <2>1. ASSUME NEW g \in open[Client]' PROVE \E t \in Sockets : (fileTX[t][g] > 0)'
    <3>1. CASE g = f
      BY <1>5, <3>1
    <3>2. CASE g \in open[Client]
      <4>1. PICK t \in Sockets : fileTX[t][g] > 0
        BY <1>1, <3>2 DEF Entered
      <4>2. g \in Files
        BY <1>1, <1>2, <3>2 DEF Types, FileTypes
      <4>3. (fileTX[t][g] > 0)'
        BY <1>5, <4>1, <4>2, SMTT(20)
      <4> QED BY <4>3
    <3> QED BY <3>1, <3>2
  <2> QED BY <2>1 DEF Entered
<1>13. PacketsFine'
  <2>1. ASSUME NEW x \in ToSet(packets), link[x.socket] = "up"
        PROVE  PacketFine(OtherEnd(Client, x.socket), x)'
    <3>1. x.type \in {"accepted", "refused", "request"} /\ x.socket = s /\ x.file = f
      OBVIOUS
    <3>2. OtherEnd(Client, s) = Owner[s] /\ Owner[s] # Client
      BY ClientIsNoAdmin DEF OtherEnd
    <3>3. AdminPacket(x)'
      BY <1>5, <2>1, <3>1
    <3>4. x.type = "request" => \A i \in x.first .. x.last : <<x.socket, x.file, i>> \in asked'
      BY <1>4 DEF Exchanged
    <3>5. link[s]' # "unused" /\ x.type # "data"
      BY <2>1, <3>1
    <3> QED BY <3>1, <3>2, <3>3, <3>4, <3>5 DEF PacketFine
  <2> QED BY <1>2, <1>4, <1>7, <2>1, SentAreFine
<1>14. \A t \in Sockets, g \in Files :
         \/ fileTX[t][g]' = fileTX[t][g]
         \/ /\ AsksFor(Head(inbox[Client]), g) /\ Head(inbox[Client]).socket = t
            /\ fileTX[t][g]' = fileTX[t][g] + 1
  BY <1>5, SMTT(20) DEF AsksFor
<1>15. Turns'
  <2>1. \A t \in Sockets, g \in Files : (fileTX[t][g] > 0)' =>
          fileTX[t][g] > 0 \/ (inbox[Client] # <<>> /\ Head(inbox[Client]).socket = t)
    BY <1>14
  <2> QED BY <1>2, <1>3, <1>6, <2>1, TurnsKept
<1>16. Counted'
  <2>1. \A x \in ToSet(packets) : x.type \notin {"upload", "download"}
    OBVIOUS
  <2>2. PICK p \in Processes, taken \in {0, 1} : p = Client /\ taken = 1
    BY <1>2
  <2>3. \A t \in Sockets, g \in Files :
          \/ fileTX[t][g]' = fileTX[t][g]
          \/ /\ p = Client /\ taken = 1 /\ AsksFor(Head(inbox[Client]), g)
             /\ fileTX[t][g]' = fileTX[t][g] + 1
    BY <1>14, <2>2, SMTT(20)
  <2>4. Exchange(p, taken, packets) /\ inbox[p] # <<>>
    BY <1>3, <2>2
  <2> QED BY <1>6, <2>1, <2>3, <2>4, CountKept, ZenonT(40)
<1> QED BY <1>6, <1>8, <1>9, <1>10, <1>11, <1>12, <1>13, <1>15, <1>16 DEF IInv, Fine

\* A packet is handled after which the client has files closed that no peer needs it to have
\* open, with nothing sent over a connection that is up.
LEMMA ClientCloses ==
  ASSUME FileTransferAssumption, IInv, inbox[Client] # <<>>,
         UNCHANGED <<link, sockets, peer, filesList, toAdmin, requests, reads, writes, readId,
                     signals, undefined, misled, asks, damaged, errors, fileTX>>,
         open' \in [Processes -> SUBSET Files], \A p \in Admins : open[p]' = open[p],
         open[Client]' \subseteq open[Client],
         verified' \in [Processes -> [Files -> SUBSET Nat]],
         \A p \in Processes, g \in Files : verified[p][g]' \subseteq Pieces(g),
         \A p \in Processes, g \in Files : IsWhole(p, g) => IsWhole(p, g)',
         NEW packets \in Seq(Packets), Reply(Client, packets),
         \A x \in ToSet(packets) :
           x.type \notin {"upload", "download"} /\ link[x.socket] # "up",
         \A t \in Sockets, g \in Files :
           link[t] = "up" /\ fileTX[t][g] > 0 /\ g \in open[Client] =>
             g \in open[Client]' \/ (IsWhole(Client, g) /\ IsWhole(Owner[t], g))'
  PROVE  IInv'
<1>1. Types /\ Links /\ Fine /\ Entered /\ Turns
  BY DEF IInv
<1>2. Client \in Processes /\ Client \notin Admins
  BY ClientIsNoAdmin
<1>3. Exchange(Client, 1, packets)
  BY DEF Reply
<1>4. Exchanged(Client, packets)
  BY <1>1, <1>2, <1>3, ExchangeFacts
<1>5. Types'
  BY <1>1, <1>4, ClientTypes DEF Exchanged, Types, FileTypes
<1>6. Steady
  <2>1. asked \subseteq asked' /\ misled \subseteq misled'
    BY <1>4 DEF Exchanged
  <2>2. \A t \in Sockets, g \in Files : AdminHas(t, g) => AdminHas(t, g)'
    BY ClientIsNoAdmin DEF AdminHas
  <2> QED BY <2>1, <2>2 DEF Steady
<1>7. Links'
  BY <1>1 DEF Links
<1>8. ReadsFine' /\ WritesFine' /\ SignalsFine' /\ IdsFine'
  BY <1>1, <1>5, <1>6, WorkKept DEF workVars
<1>9. EntriesFine' /\ ListsFine'
  BY <1>1, <1>6, EntriesKept, ListsKept DEF Fine
<1>10. Entered'
  BY <1>1 DEF Entered
<1>11. PacketsFine'
  <2>1. \A x \in ToSet(packets) :
          link[x.socket] = "up" => PacketFine(OtherEnd(Client, x.socket), x)'
    OBVIOUS
  <2> QED BY <1>2, <1>4, <1>6, <2>1, SentAreFine
<1>12. Turns'
  <2>1. \A t \in Sockets, g \in Files : (fileTX[t][g] > 0)' => fileTX[t][g] > 0
    OBVIOUS
  <2> QED BY <1>2, <1>3, <1>5, <2>1, TurnsKept
<1>13. Counted'
  BY <1>2, <1>3, <1>5, CountKept
<1> QED BY <1>5, <1>7, <1>8, <1>9, <1>10, <1>11, <1>12, <1>13 DEF IInv, Fine

\* The answer cannot be sent: the file is closed, which no connection that is up has entered.
LEMMA EntryNotMade ==
  ASSUME FileTransferAssumption, IInv, inbox[Client] # <<>>, NEW e \in Packets,
         e = Head(inbox[Client]), link[e.socket] # "up",
         UNCHANGED <<link, sockets, peer, filesList, toAdmin, requests, reads, writes, readId,
                     signals, undefined, misled, asks, damaged, errors, fileTX>>,
         open' \in [Processes -> SUBSET Files], \A p \in Admins : open[p]' = open[p],
         open[Client]' \subseteq open[Client],
         verified' \in [Processes -> [Files -> SUBSET Nat]],
         \A p \in Processes, g \in Files : verified[p][g]' \subseteq Pieces(g),
         \A p \in Processes, g \in Files : IsWhole(p, g) => IsWhole(p, g)',
         NEW packets \in Seq(Packets), Reply(Client, packets),
         \A x \in ToSet(packets) :
           x.type \notin {"upload", "download"} /\ x.socket = e.socket
  PROVE  IInv'
<1>1. ASSUME NEW t \in Sockets, NEW g \in Files, link[t] = "up", fileTX[t][g] > 0
      PROVE  FALSE
  <2>1. InTurn(t)
    BY <1>1 DEF IInv, Turns
  <2>2. PICK queue \in Seq(Packets) : queue = inbox[Client]
    BY ClientIsNoAdmin DEF IInv, Types, PacketTypes
  <2>3. 1 \in 1 .. Len(queue) /\ Head(queue) = queue[1]
    BY <2>2
  <2>4. queue[1].socket = t
    BY <1>1, <2>1, <2>2, <2>3 DEF InTurn
  <2> QED BY <1>1, <2>2, <2>3, <2>4
<1>2. \A x \in ToSet(packets) :
        x.type \notin {"upload", "download"} /\ link[x.socket] # "up"
  OBVIOUS
<1>3. \A t \in Sockets, g \in Files :
        link[t] = "up" /\ fileTX[t][g] > 0 /\ g \in open[Client] =>
          g \in open[Client]' \/ (IsWhole(Client, g) /\ IsWhole(Owner[t], g))'
  BY <1>1
<1> QED BY <1>2, <1>3, ClientCloses

LEMMA ClientFileTXDonePreserves ==
  ASSUME FileTransferAssumption, IInv, ClientFileTXDone
  PROVE  IInv'
<1>1. /\ Client \in Processes /\ Client \notin Admins /\ inbox[Client] # <<>> /\ Types
      /\ Head(inbox[Client]).type = "done"
      /\ UNCHANGED <<link, sockets, peer, filesList, toAdmin, requests, reads, writes, readId,
                     signals, undefined, misled, asks, damaged, errors, fileTX, verified>>
      /\ Reply(Client, <<>>)
  BY ClientIsNoAdmin DEF ClientFileTXDone, Receives, linkVars, adminVars, workVars, ghosts,
                         faultVars, IInv
<1>2. PICK e \in Packets : /\ e = Head(inbox[Client]) /\ e.type = "done"
                           /\ PacketFine(Client, e)
  BY <1>1, HeadPacket
<1>3. PICK s \in Sockets : s = e.socket
  BY PacketFacts
<1>4. PICK f \in Files : f = e.file
  BY PacketFacts
<1>5. IF Watching(f) = {s} /\ fileTX[s][f] = 1 THEN Close(Client, {f}) ELSE UNCHANGED open
  BY <1>2, <1>3, <1>4 DEF ClientFileTXDone
<1>6. IsWhole(Owner[s], f) /\ IsWhole(Client, f)
  BY <1>1, <1>2, <1>3, <1>4 DEF PacketFine, ClientPacket
<1>7. /\ verified' \in [Processes -> [Files -> SUBSET Nat]]
      /\ \A p \in Processes, g \in Files : verified[p][g]' \subseteq Pieces(g)
      /\ \A p \in Processes, g \in Files : IsWhole(p, g) => IsWhole(p, g)'
  BY <1>1 DEF Types, FileTypes, IsWhole
<1>8. /\ open' \in [Processes -> SUBSET Files] /\ \A p \in Admins : open[p]' = open[p]
      /\ open[Client]' \subseteq open[Client]
      /\ \A g \in Files : g \in open[Client] =>
           g \in open[Client]' \/ (g = f /\ Watching(f) = {s})
  <2>1. open \in [Processes -> SUBSET Files]
    BY <1>1 DEF Types, FileTypes
  <2>2. \A p \in Admins : p \in Processes /\ p # Client
    BY ClientIsNoAdmin
  <2>3. CASE Watching(f) = {s} /\ Close(Client, {f})
    BY <1>1, <2>1, <2>2, <2>3 DEF Close
  <2>4. CASE UNCHANGED open
    BY <2>1, <2>4
  <2> QED BY <1>5, <2>3, <2>4
<1>9. ASSUME NEW t \in Sockets, NEW g \in Files, fileTX[t][g] > 0, g \in open[Client],
             g \notin open[Client]'
      PROVE  (IsWhole(Client, g) /\ IsWhole(Owner[t], g))'
  <2>1. g = f /\ Watching(f) = {s}
    BY <1>8, <1>9
  <2>2. t = s
    BY <1>9, <2>1 DEF Watching
  <2> QED BY <1>1, <1>6, <1>7, <2>1, <2>2, ClientIsNoAdmin
<1>10. \A t \in Sockets, g \in Files :
         link[t] = "up" /\ fileTX[t][g] > 0 /\ g \in open[Client] =>
           g \in open[Client]' \/ (IsWhole(Client, g) /\ IsWhole(Owner[t], g))'
  BY <1>9
<1>11. PICK packets \in Seq(Packets) : packets = <<>> /\ ToSet(packets) = {}
  BY NoElement
<1>12. Reply(Client, packets)
  BY <1>1, <1>11
<1>13. \A x \in ToSet(packets) :
         x.type \notin {"upload", "download"} /\ link[x.socket] # "up"
  BY <1>11
<1> QED BY <1>1, <1>7, <1>8, <1>10, <1>12, <1>13, ClientCloses

LEMMA RememberedFacts ==
  ASSUME FileTransferAssumption, Types, NEW p \in Processes, NEW f \in Files,
         NEW kept \in Remembered(p, f), verified' = [verified EXCEPT ![p][f] = kept]
  PROVE  /\ verified' \in [Processes -> [Files -> SUBSET Nat]]
         /\ \A q \in Processes, g \in Files : verified[q][g]' \subseteq Pieces(g)
         /\ \A q \in Processes, g \in Files : IsWhole(q, g) => IsWhole(q, g)'
<1>1. /\ verified \in [Processes -> [Files -> SUBSET Nat]]
      /\ \A q \in Processes, g \in Files : verified[q][g] \subseteq Pieces(g)
  BY DEF Types, FileTypes
<1>2. kept \subseteq verified[p][f]
  BY DEF Remembered
<1>3. IsWhole(p, f) => kept = verified[p][f]
  BY DEF Remembered
<1>4. \A q \in Processes, g \in Files :
        verified'[q][g] = IF q = p /\ g = f THEN kept ELSE verified[q][g]
  BY <1>1
<1>5. kept \in SUBSET Nat
  BY <1>1, <1>2
<1>6. verified' \in [Processes -> [Files -> SUBSET Nat]]
  BY <1>1, <1>5
<1> QED BY <1>1, <1>2, <1>3, <1>4, <1>6, ZenonT(40) DEF IsWhole

LEMMA AnswerDownloadPreserves ==
  ASSUME FileTransferAssumption, IInv, ProcessAdminRequestDownloadFilePacket
  PROVE  IInv'
<1>1. /\ Client \in Processes /\ Client \notin Admins /\ inbox[Client] # <<>> /\ Types
      /\ Head(inbox[Client]).type = "download" /\ IsWhole(Client, Head(inbox[Client]).file)
      /\ UNCHANGED <<link, sockets, peer, filesList, toAdmin, requests, reads, writes, readId,
                     signals, undefined, misled, asks, damaged, errors, verified>>
  BY ClientIsNoAdmin DEF ProcessAdminRequestDownloadFilePacket, Receives, linkVars, adminVars,
                         workVars, ghosts, faultVars, IInv
<1>2. PICK e \in Packets : e = Head(inbox[Client]) /\ e.type = "download"
  BY <1>1, HeadPacket
<1>3. PICK s \in Sockets : s = e.socket
  BY PacketFacts
<1>4. PICK f \in Files : f = e.file
  BY PacketFacts
<1>5. PICK ok \in SendResults(Client, s) :
        IF ok
        THEN /\ Open(Client, f)
             /\ fileTX' = [fileTX EXCEPT ![s][f] = @ + 1]
             /\ Reply(Client, <<Say("accepted", s, f)>>)
        ELSE /\ Close(Client, {f})
             /\ UNCHANGED fileTX
             /\ Reply(Client, <<>>)
  BY <1>2, <1>3, <1>4 DEF ProcessAdminRequestDownloadFilePacket
<1>6. ok \in BOOLEAN /\ (~ok => link[s] # "up")
  BY <1>1, SendFails
<1>7. /\ verified' \in [Processes -> [Files -> SUBSET Nat]]
      /\ \A p \in Processes, g \in Files : verified[p][g]' \subseteq Pieces(g)
      /\ \A p \in Processes, g \in Files : IsWhole(p, g) => IsWhole(p, g)'
  BY <1>1 DEF Types, FileTypes, IsWhole
<1>8. open \in [Processes -> SUBSET Files]
  BY <1>1 DEF Types, FileTypes
<1>9. IsWhole(Client, f) /\ IsWhole(Client, f)'
  BY <1>1, <1>2, <1>4, <1>7
<1>10. CASE ok
  <2>1. s \in sockets[Client]
    BY <1>10 DEF SendResults
  <2>2. /\ open' \in [Processes -> SUBSET Files] /\ \A p \in Admins : open[p]' = open[p]
        /\ open[Client]' = open[Client] \cup {f}
    BY <1>1, <1>5, <1>8, <1>10, ClientIsNoAdmin, SMTT(20) DEF Open
  <2>3. PICK x \in Packets : /\ x = Say("accepted", s, f) /\ x.type = "accepted"
                             /\ x.socket = s /\ x.file = f
    BY MadePackets
  <2>4. PICK packets \in Seq(Packets) : packets = <<x>> /\ ToSet(packets) = {x}
    BY OneElement
  <2>5. (fileTX[s][f] > 0)' => AdminPacket(x)'
    BY <1>9, <2>2, <2>3 DEF AdminPacket, ClientSends
  <2>6. Reply(Client, packets) /\ fileTX' = [fileTX EXCEPT ![s][f] = @ + 1]
    BY <1>5, <1>10, <2>3, <2>4
  <2>7. \A y \in ToSet(packets) :
          y.type \in {"accepted", "refused", "request"} /\ y.socket = s /\ y.file = f
    BY <2>3, <2>4
  <2>8. \A y \in ToSet(packets) :
          (fileTX[s][f] > 0)' /\ link[s] = "up" => AdminPacket(y)'
    BY <2>4, <2>5
  <2>9. link[s] = "up" => AdminSends(s, f)
    BY <1>9 DEF AdminSends
  <2>10. open[Client] \subseteq open[Client]' /\ f \in open[Client]'
    BY <2>2
  <2>11. /\ open[Client]' \subseteq open[Client] \cup {f}
         /\ f \in open[Client]' \/ IsWhole(Client, f)
    BY <2>2
  <2>12. /\ e.type \in {"upload", "download"} /\ s = e.socket /\ f = e.file
         /\ e = Head(inbox[Client]) /\ inbox[Client] # <<>>
    BY <1>1, <1>2, <1>3, <1>4
  <2>13. Enters(s, f, packets)
    BY <1>7, <2>1, <2>2, <2>6, <2>7, <2>8, <2>9, <2>10, <2>11 DEF Enters
  <2> QED BY <1>1, <2>12, <2>13, EntryMade
<1>11. CASE ~ok
  <2>1. /\ open' \in [Processes -> SUBSET Files] /\ \A p \in Admins : open[p]' = open[p]
        /\ open[Client]' \subseteq open[Client]
    BY <1>1, <1>5, <1>8, <1>11, ClientIsNoAdmin, SMTT(20) DEF Close
  <2>2. PICK packets \in Seq(Packets) : packets = <<>> /\ ToSet(packets) = {}
    BY NoElement
  <2>3. Reply(Client, packets) /\ UNCHANGED fileTX
    BY <1>5, <1>11, <2>2
  <2>4. \A x \in ToSet(packets) :
          x.type \notin {"upload", "download"} /\ x.socket = e.socket
    BY <2>2
  <2>5. link[e.socket] # "up"
    BY <1>3, <1>6, <1>11
  <2> QED BY <1>1, <1>2, <1>7, <2>1, <2>3, <2>4, <2>5, EntryNotMade
<1> QED BY <1>6, <1>10, <1>11

LEMMA AnswerUploadPreserves ==
  ASSUME FileTransferAssumption, IInv, ProcessAdminRequestUploadFilePacket
  PROVE  IInv'
<1>1. /\ Client \in Processes /\ Client \notin Admins /\ inbox[Client] # <<>> /\ Types
      /\ Head(inbox[Client]).type = "upload"
      /\ UNCHANGED <<link, sockets, peer, filesList, toAdmin, requests, reads, writes, readId,
                     signals, undefined, misled, asks, damaged, errors>>
  BY ClientIsNoAdmin DEF ProcessAdminRequestUploadFilePacket, AnswerUpload, Receives, linkVars,
                         adminVars, workVars, ghosts, faultVars, IInv
<1>2. PICK e \in Packets : /\ e = Head(inbox[Client]) /\ e.type = "upload"
                           /\ PacketFine(Client, e)
  BY <1>1, HeadPacket
<1>3. PICK s \in Sockets : s = e.socket
  BY PacketFacts
<1>4. PICK f \in Files : f = e.file
  BY PacketFacts
<1>5. PICK refusal : refusal = IF IsWhole(Client, f) THEN <<Say("refused", s, f)>> ELSE <<>>
  OBVIOUS
<1>6. PICK ok \in SendResults(Client, s), kept \in Remembered(Client, f) :
        /\ verified' = [verified EXCEPT ![Client][f] = kept]
        /\ open' = [open EXCEPT ![Client] =
             (IF IsWhole(Client, f) THEN @ ELSE @ \cup {f}) \ (IF ok THEN {} ELSE {f})]
        /\ fileTX' = [fileTX EXCEPT ![s][f] = IF ok THEN @ + 1 ELSE @]
        /\ Reply(Client, refusal \o (IF ok THEN <<RequestFileData(s, f, 0, 0)>> ELSE <<>>))
  BY <1>2, <1>3, <1>4, <1>5, ZenonT(40) DEF ProcessAdminRequestUploadFilePacket, AnswerUpload
<1>7. ok \in BOOLEAN /\ (~ok => link[s] # "up")
  BY <1>1, SendFails
<1>8. /\ verified' \in [Processes -> [Files -> SUBSET Nat]]
      /\ \A p \in Processes, g \in Files : verified[p][g]' \subseteq Pieces(g)
      /\ \A p \in Processes, g \in Files : IsWhole(p, g) => IsWhole(p, g)'
  BY <1>1, <1>6, RememberedFacts
<1>9. open \in [Processes -> SUBSET Files] /\ fileTX \in [Sockets -> [Files -> Nat]]
  BY <1>1 DEF Types, FileTypes
<1>10. /\ open' \in [Processes -> SUBSET Files] /\ \A p \in Admins : open[p]' = open[p]
       /\ open[Client]' = (IF IsWhole(Client, f) THEN open[Client] ELSE open[Client] \cup {f})
                            \ (IF ok THEN {} ELSE {f})
  <2>1. \A p \in Admins : p \in Processes /\ p # Client
    BY ClientIsNoAdmin
  <2>2. (IF IsWhole(Client, f) THEN open[Client] ELSE open[Client] \cup {f})
          \ (IF ok THEN {} ELSE {f}) \in SUBSET Files
    BY <1>1, <1>9
  <2> QED BY <1>1, <1>6, <1>9, <2>1, <2>2
<1>11. IsWhole(Owner[s], f) /\ (link[s] = "up" => AdminSends(s, f))
  BY <1>1, <1>2, <1>3, <1>4 DEF PacketFine, ClientPacket
<1>12. IsWhole(Owner[s], f)'
  BY <1>8, <1>11, ClientIsNoAdmin
<1>13. /\ refusal \in Seq(Packets)
       /\ \A x \in ToSet(refusal) :
            /\ x.type = "refused" /\ x.socket = s /\ x.file = f
            /\ AdminPacket(x)'
  <2>1. PICK x \in Packets : /\ x = Say("refused", s, f) /\ x.type = "refused"
                             /\ x.socket = s /\ x.file = f
    BY MadePackets
  <2>2. CASE IsWhole(Client, f)
    <3>1. refusal \in Seq(Packets) /\ ToSet(refusal) = {x}
      BY <1>5, <2>1, <2>2, OneElement
    <3>2. AdminPacket(x)'
      BY <1>1, <1>8, <1>12, <2>1, <2>2 DEF AdminPacket
    <3> QED BY <2>1, <3>1, <3>2
  <2>3. CASE ~IsWhole(Client, f)
    BY <1>5, <2>3, NoElement
  <2> QED BY <2>2, <2>3
<1>14. CASE ok
  <2>1. s \in sockets[Client]
    BY <1>14 DEF SendResults
  <2>2. /\ open[Client] \subseteq open[Client]' /\ open[Client]' \subseteq open[Client] \cup {f}
        /\ f \in open[Client]' \/ IsWhole(Client, f)
    BY <1>10, <1>14
  <2>3. 0 \in Indices
    BY PiecesAreIndices
  <2>4. PICK x \in Packets : /\ x = RequestFileData(s, f, 0, 0) /\ x.type = "request"
                             /\ x.socket = s /\ x.file = f
    BY <2>3, MadePackets
  <2>5. PICK request \in Seq(Packets) : request = <<x>> /\ ToSet(request) = {x}
    BY OneElement
  <2>6. PICK packets : packets = refusal \o request
    OBVIOUS
  <2>7. packets \in Seq(Packets) /\ ToSet(packets) = ToSet(refusal) \cup {x}
    <3>1. PICK first \in Seq(Packets) : first = refusal
      BY <1>13
    <3>2. first \o request \in Seq(Packets)
      OBVIOUS
    <3>3. ToSet(first \o request) = ToSet(first) \cup ToSet(request)
      BY ToSetConcat
    <3> QED BY <2>5, <2>6, <3>1, <3>2, <3>3
  <2>8. (fileTX[s][f] > 0)' => AdminPacket(x)'
    BY <2>4 DEF AdminPacket, ClientReceives
  <2>9. Reply(Client, packets) /\ fileTX' = [fileTX EXCEPT ![s][f] = @ + 1]
    BY <1>6, <1>14, <2>4, <2>5, <2>6
  <2>10. \A y \in ToSet(packets) :
           y.type \in {"accepted", "refused", "request"} /\ y.socket = s /\ y.file = f
    BY <1>13, <2>4, <2>7
  <2>11. \A y \in ToSet(packets) :
           (fileTX[s][f] > 0)' /\ link[s] = "up" => AdminPacket(y)'
    BY <1>13, <2>7, <2>8
  <2>12. /\ e.type \in {"upload", "download"} /\ s = e.socket /\ f = e.file
         /\ e = Head(inbox[Client]) /\ inbox[Client] # <<>>
    BY <1>1, <1>2, <1>3, <1>4
  <2>13. Enters(s, f, packets)
    BY <1>8, <1>10, <1>11, <2>1, <2>2, <2>9, <2>10, <2>11 DEF Enters
  <2> QED BY <1>1, <2>7, <2>12, <2>13, EntryMade
<1>15. CASE ~ok
  <2>1. open[Client]' \subseteq open[Client]
    BY <1>10, <1>15
  <2>2. PICK packets \in Seq(Packets) : packets = refusal
    BY <1>13
  <2>3. Reply(Client, refusal \o <<>>)
    BY <1>6, <1>15
  <2>4. Reply(Client, packets)
    <3>1. packets \o <<>> = packets
      OBVIOUS
    <3> QED BY <2>2, <2>3, <3>1
  <2>5. fileTX' = fileTX
    <3>1. fileTX' = [fileTX EXCEPT ![s][f] = fileTX[s][f]]
      BY <1>6, <1>15
    <3> QED BY <1>9, <3>1
  <2>6. \A x \in ToSet(packets) :
          x.type \notin {"upload", "download"} /\ x.socket = e.socket
    BY <1>3, <1>13, <2>2
  <2>7. link[e.socket] # "up"
    BY <1>3, <1>7, <1>15
  <2> QED BY <1>1, <1>2, <1>8, <1>10, <2>1, <2>4, <2>5, <2>6, <2>7, EntryNotMade
<1> QED BY <1>7, <1>14, <1>15

-----------------------------------------------------------------------------
(* An administrator is answered                                            *)

\* A packet of the present peer is handled, which opens or closes files.
Handles(admin, packets) ==
  /\ open' \in [Processes -> SUBSET Files] /\ filesList' \in [Admins -> SUBSET Files]
  /\ \A p \in Processes : p # admin => open[p]' = open[p]
  /\ \A a \in Admins : a # admin => filesList[a]' = filesList[a]
  /\ verified' \in [Processes -> [Files -> SUBSET Nat]]
  /\ \A p \in Processes, g \in Files : verified[p][g]' \subseteq Pieces(g)
  /\ \A p \in Processes, g \in Files : IsWhole(p, g) => IsWhole(p, g)'
  /\ Reply(admin, packets)
  /\ \A g \in Files : link[peer[admin]] = "up" /\ AdminHas(peer[admin], g) =>
       \/ AdminHas(peer[admin], g)'
       \/ /\ IsWhole(Client, g)'
          /\ IsWhole(admin, g)' \/ <<peer[admin], g>> \in misled
  /\ \A g \in filesList[admin]' : g \in filesList[admin] \/ ListFine(admin, g)'
  /\ \A x \in ToSet(packets) :
       x.type = "request" /\ Owner[x.socket] = admin /\ ClientPacket(x)'

LEMMA AdminHandles ==
  ASSUME FileTransferAssumption, IInv, NEW admin \in Admins, inbox[admin] # <<>>,
         peer[admin] # NoSocket,
         UNCHANGED <<link, sockets, peer, toAdmin, fileTX, requests, reads, writes, readId,
                     signals, undefined, misled, asks, damaged, errors>>,
         NEW packets \in Seq(Packets), Handles(admin, packets)
  PROVE  IInv'
<1>1. Types /\ Links /\ Fine /\ Entered /\ Turns
  BY DEF IInv
<1>2. /\ admin \in Processes /\ admin # Client /\ Client \in Processes /\ Client \notin Admins
      /\ \A t \in Sockets : OtherEnd(admin, t) = Client
  BY ClientIsNoAdmin DEF OtherEnd
<1>3. Exchange(admin, 1, packets)
  BY DEF Handles, Reply
<1>4. Exchanged(admin, packets)
  BY <1>1, <1>2, <1>3, ExchangeFacts
<1>5. Types'
  <2>1. LinkTypes' /\ FileTypes' /\ PacketTypes' /\ WorkTypes'
    BY <1>1, <1>4 DEF Types, LinkTypes, FileTypes, WorkTypes, Exchanged, Handles
  <2> QED BY <2>1 DEF Types
<1>6. /\ \A p \in Processes, g \in Files : IsWhole(p, g) => IsWhole(p, g)'
      /\ open[Client]' = open[Client]
  BY <1>2 DEF Handles
<1>7. Steady
  <2>1. asked \subseteq asked' /\ misled \subseteq misled'
    BY <1>4 DEF Exchanged
  <2>2. ASSUME NEW t \in Sockets, NEW g \in Files, link[t] = "up", AdminHas(t, g)
        PROVE  \/ AdminHas(t, g)'
               \/ (IsWhole(Client, g) /\ (IsWhole(Owner[t], g) \/ <<t, g>> \in misled))'
    <3>1. CASE Owner[t] = admin
      <4>1. t = peer[admin]
        BY <1>1, <2>2, <3>1 DEF Links
      <4> QED BY <2>2, <3>1, <4>1 DEF Handles
    <3>2. CASE Owner[t] # admin
      <4>1. /\ open[Owner[t]]' = open[Owner[t]] /\ filesList[Owner[t]]' = filesList[Owner[t]]
        BY <3>2, ClientIsNoAdmin DEF Handles
      <4> QED BY <2>2, <4>1 DEF AdminHas
    <3> QED BY <3>1, <3>2
  <2> QED BY <1>6, <2>1, <2>2 DEF Steady
<1>8. Links'
  BY <1>1 DEF Links, Handles
<1>9. ReadsFine' /\ WritesFine' /\ SignalsFine' /\ IdsFine'
  BY <1>1, <1>5, <1>7, WorkKept DEF workVars
<1>10. EntriesFine'
  BY <1>1, <1>7, EntriesKept DEF Fine
<1>11. ListsFine'
  <2>1. ASSUME NEW a \in Admins, NEW g \in filesList[a]'
        PROVE  ListFine(a, g)' \/ (g \in filesList[a] /\ peer[a]' = peer[a])
    BY <2>1 DEF Handles
  <2> QED BY <1>1, <1>7, <2>1, ListsKept DEF Fine
<1>12. Entered'
  BY <1>1, <1>6 DEF Entered
<1>13. \A x \in ToSet(packets) :
         x.type = "request" /\ Owner[x.socket] = admin /\ ClientPacket(x)'
  BY DEF Handles
<1>14. PacketsFine'
  <2>1. ASSUME NEW x \in ToSet(packets), link[x.socket] = "up"
        PROVE  PacketFine(OtherEnd(admin, x.socket), x)'
    <3>1. x.type = "request" /\ Owner[x.socket] = admin /\ ClientPacket(x)'
      BY <1>13
    <3>2. OtherEnd(admin, x.socket) = Client
      BY <1>2 DEF OtherEnd
    <3>3. \A i \in x.first .. x.last : <<x.socket, x.file, i>> \in asked'
      BY <1>4, <3>1 DEF Exchanged
    <3>4. link[x.socket]' # "unused"
      BY <2>1
    <3> QED BY <1>2, <3>1, <3>2, <3>3, <3>4 DEF PacketFine
  <2> QED BY <1>2, <1>4, <1>7, <2>1, SentAreFine
<1>15. Turns'
  <2>1. \A t \in Sockets, g \in Files : (fileTX[t][g] > 0)' => fileTX[t][g] > 0
    OBVIOUS
  <2> QED BY <1>2, <1>3, <1>5, <2>1, TurnsKept
<1>16. Counted'
  <2>1. \A x \in ToSet(packets) : x.type \notin {"upload", "download"}
    BY <1>13
  <2> QED BY <1>2, <1>3, <1>5, <2>1, CountKept
<1> QED BY <1>5, <1>8, <1>9, <1>10, <1>11, <1>12, <1>14, <1>15, <1>16 DEF IInv, Fine

\* A file is closed that both ends have all of, or the administrator was told so.
LEMMA AdminCloses ==
  ASSUME FileTransferAssumption, IInv, NEW admin \in Admins, inbox[admin] # <<>>,
         peer[admin] # NoSocket, NEW f \in Files, IsWhole(Client, f),
         IsWhole(admin, f) \/ <<peer[admin], f>> \in misled,
         Close(admin, {f}), Reply(admin, <<>>),
         filesList' \in {filesList, [filesList EXCEPT ![admin] = @ \ {f}]},
         UNCHANGED <<link, sockets, peer, toAdmin, fileTX, requests, reads, writes, readId,
                     signals, undefined, misled, asks, damaged, errors, verified>>
  PROVE  IInv'
<1>1. /\ Types /\ open \in [Processes -> SUBSET Files] /\ filesList \in [Admins -> SUBSET Files]
      /\ admin \in Processes /\ Client \in Processes
  BY ClientIsNoAdmin DEF IInv, Types, FileTypes
<1>2. /\ open' \in [Processes -> SUBSET Files]
      /\ \A p \in Processes : open[p]' = IF p = admin THEN open[p] \ {f} ELSE open[p]
  BY <1>1 DEF Close
<1>3. /\ filesList' \in [Admins -> SUBSET Files]
      /\ \A a \in Admins : a # admin => filesList[a]' = filesList[a]
      /\ filesList[admin]' \subseteq filesList[admin]
      /\ \A g \in filesList[admin] : g # f => g \in filesList[admin]'
  <2>1. CASE filesList' = filesList
    BY <1>1, <2>1
  <2>2. CASE filesList' = [filesList EXCEPT ![admin] = @ \ {f}]
    BY <1>1, <2>2
  <2> QED BY <2>1, <2>2
<1>4. /\ verified' \in [Processes -> [Files -> SUBSET Nat]]
      /\ \A p \in Processes, g \in Files : verified[p][g]' \subseteq Pieces(g)
      /\ \A p \in Processes, g \in Files : IsWhole(p, g) => IsWhole(p, g)'
  BY <1>1 DEF Types, FileTypes, IsWhole
<1>5. PICK packets \in Seq(Packets) : packets = <<>> /\ ToSet(packets) = {}
  BY NoElement
<1>6. ASSUME NEW g \in Files, link[peer[admin]] = "up", AdminHas(peer[admin], g)
      PROVE  \/ AdminHas(peer[admin], g)'
             \/ /\ IsWhole(Client, g)'
                /\ IsWhole(admin, g)' \/ <<peer[admin], g>> \in misled
  <2>1. CASE g = f
    BY <1>1, <1>4, <2>1
  <2>2. CASE g # f
    <3>1. Owner[peer[admin]] = admin
      BY DEF IInv, Links
    <3> QED BY <1>1, <1>2, <1>3, <1>6, <2>2, <3>1 DEF AdminHas
  <2> QED BY <2>1, <2>2
<1>7. Reply(admin, packets)
  BY <1>5
<1>8. Handles(admin, packets)
  BY <1>2, <1>3, <1>4, <1>5, <1>6, <1>7 DEF Handles
<1> QED BY <1>8, AdminHandles

LEMMA AdminFileTXDonePreserves ==
  ASSUME FileTransferAssumption, IInv, NEW admin \in Admins, AdminFileTXDone(admin)
  PROVE  IInv'
<1>1. /\ admin \in Processes /\ admin # Client /\ inbox[admin] # <<>>
      /\ Head(inbox[admin]).type = "done" /\ Head(inbox[admin]).socket = peer[admin]
      /\ UNCHANGED <<link, sockets, peer, toAdmin, fileTX, requests, reads, writes, readId,
                     signals, undefined, misled, asks, damaged, errors, verified, filesList>>
  BY ClientIsNoAdmin DEF AdminFileTXDone, Receives, FromPeer, linkVars, adminVars, workVars,
                         ghosts, faultVars
<1>2. PICK e \in Packets : /\ e = Head(inbox[admin]) /\ e.type = "done"
                           /\ PacketFine(admin, e)
  BY <1>1, HeadPacket
<1>3. PICK f \in Files : f = e.file
  BY PacketFacts
<1>4. peer[admin] \in Sockets /\ peer[admin] # NoSocket /\ e.socket = peer[admin]
  BY <1>1, <1>2, PacketFacts, ClientIsNoAdmin
<1>5. IsWhole(Client, f) /\ (IsWhole(admin, f) \/ <<peer[admin], f>> \in misled)
  BY <1>1, <1>2, <1>3, <1>4 DEF PacketFine, AdminPacket
<1>6. Close(admin, {f}) /\ Reply(admin, <<>>)
  BY <1>2, <1>3 DEF AdminFileTXDone
<1> QED BY <1>1, <1>4, <1>5, <1>6, AdminCloses

LEMMA RefusedPreserves ==
  ASSUME FileTransferAssumption, IInv, NEW admin \in Admins, FileUploadRequestRefused(admin)
  PROVE  IInv'
<1>1. /\ admin \in Processes /\ admin # Client /\ inbox[admin] # <<>>
      /\ Head(inbox[admin]).type = "refused" /\ Head(inbox[admin]).socket = peer[admin]
      /\ UNCHANGED <<link, sockets, peer, toAdmin, fileTX, requests, reads, writes, readId,
                     signals, undefined, misled, asks, damaged, errors, verified>>
  BY ClientIsNoAdmin DEF FileUploadRequestRefused, Receives, FromPeer, linkVars, workVars,
                         ghosts, faultVars
<1>2. PICK e \in Packets : /\ e = Head(inbox[admin]) /\ e.type = "refused"
                           /\ PacketFine(admin, e)
  BY <1>1, HeadPacket
<1>3. PICK f \in Files : f = e.file
  BY PacketFacts
<1>4. peer[admin] \in Sockets /\ peer[admin] # NoSocket /\ e.socket = peer[admin]
  BY <1>1, <1>2, PacketFacts, ClientIsNoAdmin
<1>5. IsWhole(Client, f) /\ IsWhole(admin, f)
  BY <1>1, <1>2, <1>3, <1>4 DEF PacketFine, AdminPacket
<1>6. /\ Close(admin, {f}) /\ Reply(admin, <<>>)
      /\ filesList' = [filesList EXCEPT ![admin] = @ \ {f}]
  BY <1>2, <1>3 DEF FileUploadRequestRefused
<1> QED BY <1>1, <1>4, <1>5, <1>6, AdminCloses

LEMMA AcceptedPreserves ==
  ASSUME FileTransferAssumption, IInv, NEW admin \in Admins, FileDownloadRequestAccepted(admin)
  PROVE  IInv'
<1>1. /\ admin \in Processes /\ admin # Client /\ Client \in Processes /\ inbox[admin] # <<>>
      /\ Head(inbox[admin]).type = "accepted" /\ Head(inbox[admin]).socket = peer[admin]
      /\ UNCHANGED <<link, sockets, peer, toAdmin, fileTX, requests, reads, writes, readId,
                     signals, undefined, misled, asks, damaged, errors>>
      /\ Types /\ open \in [Processes -> SUBSET Files] /\ filesList \in [Admins -> SUBSET Files]
  BY ClientIsNoAdmin DEF FileDownloadRequestAccepted, Receives, FromPeer, linkVars, workVars,
                         ghosts, faultVars, IInv, Types, FileTypes
<1>2. PICK e \in Packets : /\ e = Head(inbox[admin]) /\ e.type = "accepted"
                           /\ PacketFine(admin, e)
  BY <1>1, HeadPacket
<1>3. PICK f \in Files : f = e.file
  BY PacketFacts
<1>4. PICK s \in Sockets : s = peer[admin] /\ s = e.socket /\ s # NoSocket
  BY <1>1, <1>2, PacketFacts, ClientIsNoAdmin
<1>5. /\ IsWhole(Client, f) /\ (link[s] = "up" => ClientSends(s, f))
      /\ Owner[s] = admin
  BY <1>1, <1>2, <1>3, <1>4 DEF PacketFine, AdminPacket
<1>6. PICK nothing \in Seq(Packets) : nothing = <<>> /\ ToSet(nothing) = {}
  BY NoElement
<1>7. CASE Reply(admin, <<>>) /\ UNCHANGED <<filesList, fileVars>>
  <2>1. UNCHANGED <<open, verified>> /\ Reply(admin, nothing)
    BY <1>6, <1>7 DEF fileVars
  <2>2. /\ verified' \in [Processes -> [Files -> SUBSET Nat]]
        /\ \A p \in Processes, g \in Files : verified[p][g]' \subseteq Pieces(g)
        /\ \A p \in Processes, g \in Files : IsWhole(p, g) => IsWhole(p, g)'
    BY <1>1, <2>1 DEF Types, FileTypes, IsWhole
  <2>3. \A g \in Files : AdminHas(s, g) => AdminHas(s, g)'
    BY <1>7, <2>1 DEF AdminHas
  <2>4. Handles(admin, nothing)
    BY <1>1, <1>4, <1>6, <1>7, <2>1, <2>2, <2>3 DEF Handles
  <2> QED BY <1>1, <1>4, <2>4, AdminHandles
<1>8. ASSUME NEW ok \in SendResults(admin, s), NEW kept \in Remembered(admin, f),
             filesList' = [filesList EXCEPT ![admin] = @ \cup {f}],
             verified' = [verified EXCEPT ![admin][f] = kept],
             IF ok THEN Open(admin, f) ELSE Close(admin, {f}),
             Reply(admin, IF ok THEN <<RequestFileData(s, f, 0, 0)>> ELSE <<>>)
      PROVE  IInv'
  <2>1. ok \in BOOLEAN /\ (~ok => link[s] # "up")
    BY <1>1, <1>5, <1>8, SendFails
  <2>2. /\ verified' \in [Processes -> [Files -> SUBSET Nat]]
        /\ \A p \in Processes, g \in Files : verified[p][g]' \subseteq Pieces(g)
        /\ \A p \in Processes, g \in Files : IsWhole(p, g) => IsWhole(p, g)'
    BY <1>1, <1>8, RememberedFacts
  <2>3. /\ filesList' \in [Admins -> SUBSET Files]
        /\ \A a \in Admins :
             filesList[a]' = IF a = admin THEN filesList[a] \cup {f} ELSE filesList[a]
    BY <1>1, <1>8
  <2>4. /\ open' \in [Processes -> SUBSET Files]
        /\ \A p \in Processes : p # admin => open[p]' = open[p]
        /\ open[admin]' = IF ok THEN open[admin] \cup {f} ELSE open[admin] \ {f}
    <3>1. CASE ok
      <4>1. Open(admin, f)
        BY <1>8, <3>1
      <4>2. open' = [open EXCEPT ![admin] = @ \cup {f}]
        BY <4>1 DEF Open
      <4> QED BY <1>1, <3>1, <4>2
    <3>2. CASE ~ok
      <4>1. Close(admin, {f})
        BY <1>8, <3>2
      <4>2. open' = [open EXCEPT ![admin] = @ \ {f}]
        BY <4>1 DEF Close
      <4> QED BY <1>1, <3>2, <4>2
    <3> QED BY <2>1, <3>1, <3>2
  <2>5. IsWhole(Client, f)' /\ (ClientSends(s, f) => ClientSends(s, f)')
    <3>1. open[Client]' = open[Client] /\ IsWhole(Client, f)'
      BY <1>1, <1>5, <2>2, <2>4
    <3>2. IsWhole(Owner[s], f) => IsWhole(Owner[s], f)'
      BY <1>1, <1>5, <2>2
    <3> QED BY <1>1, <3>1, <3>2 DEF ClientSends
  <2>6. link[s] = "up" => AdminHas(s, f)' /\ \A g \in Files : AdminHas(s, g) => AdminHas(s, g)'
    BY <1>1, <1>5, <2>1, <2>3, <2>4 DEF AdminHas
  <2>7. ListFine(admin, f)'
    BY <1>1, <1>4, <1>5, <2>5, <2>6 DEF ListFine, AdminReceives
  <2>8. \A g \in filesList[admin]' : g \in filesList[admin] \/ ListFine(admin, g)'
    BY <2>3, <2>7
  <2>9. PICK x \in Packets : /\ x = RequestFileData(s, f, 0, 0) /\ x.type = "request"
                             /\ x.socket = s /\ x.file = f
    <3>1. 0 \in Indices
      BY PiecesAreIndices
    <3> QED BY <3>1, MadePackets
  <2>10. ClientPacket(x)'
    BY <1>1, <1>5, <2>5, <2>6, <2>9 DEF ClientPacket, AdminReceives
  <2>11. \E packets \in Seq(Packets) : /\ Reply(admin, packets)
                                       /\ ToSet(packets) \subseteq {x}
    <3>1. CASE ok
      <4>1. PICK packets \in Seq(Packets) : packets = <<x>> /\ ToSet(packets) = {x}
        BY OneElement
      <4>2. Reply(admin, packets)
        BY <1>8, <2>9, <3>1, <4>1
      <4> QED BY <4>1, <4>2
    <3>2. CASE ~ok
      BY <1>6, <1>8, <3>2
    <3> QED BY <2>1, <3>1, <3>2
  <2>12. PICK packets \in Seq(Packets) : Reply(admin, packets) /\ ToSet(packets) \subseteq {x}
    BY <2>11
  <2>13. \A y \in ToSet(packets) :
           y.type = "request" /\ Owner[y.socket] = admin /\ ClientPacket(y)'
    BY <1>5, <2>9, <2>10, <2>12
  <2>14. \A g \in Files : link[peer[admin]] = "up" /\ AdminHas(peer[admin], g) =>
           AdminHas(peer[admin], g)'
    BY <1>1, <1>4, <2>6
  <2>15. Handles(admin, packets)
    BY <2>2, <2>3, <2>4, <2>8, <2>12, <2>13, <2>14 DEF Handles
  <2> QED BY <1>1, <1>4, <2>15, AdminHandles
<1>9. \/ Reply(admin, <<>>) /\ UNCHANGED <<filesList, fileVars>>
      \/ /\ filesList' = [filesList EXCEPT ![admin] = @ \cup {f}]
         /\ \E ok \in SendResults(admin, s), kept \in Remembered(admin, f) :
              /\ verified' = [verified EXCEPT ![admin][f] = kept]
              /\ IF ok THEN Open(admin, f) ELSE Close(admin, {f})
              /\ Reply(admin, IF ok THEN <<RequestFileData(s, f, 0, 0)>> ELSE <<>>)
  <2>1. f = Head(inbox[admin]).file
    BY <1>2, <1>3
  <2>2. \/ Reply(admin, <<>>) /\ UNCHANGED <<filesList, fileVars>>
        \/ /\ filesList' = [filesList EXCEPT ![admin] = @ \cup {Head(inbox[admin]).file}]
           /\ \E ok \in SendResults(admin, peer[admin]),
                 kept \in Remembered(admin, Head(inbox[admin]).file) :
                /\ verified' = [verified EXCEPT ![admin][Head(inbox[admin]).file] = kept]
                /\ IF ok THEN Open(admin, Head(inbox[admin]).file)
                   ELSE Close(admin, {Head(inbox[admin]).file})
                /\ Reply(admin, IF ok
                     THEN <<RequestFileData(peer[admin], Head(inbox[admin]).file, 0, 0)>>
                     ELSE <<>>)
    BY DEF FileDownloadRequestAccepted
  <2>3. PICK g, t : g = Head(inbox[admin]).file /\ t = peer[admin]
    OBVIOUS
  <2>4. g = f /\ t = s
    BY <1>4, <2>1, <2>3
  <2>5. \/ Reply(admin, <<>>) /\ UNCHANGED <<filesList, fileVars>>
        \/ /\ filesList' = [filesList EXCEPT ![admin] = @ \cup {g}]
           /\ \E ok \in SendResults(admin, t), kept \in Remembered(admin, g) :
                /\ verified' = [verified EXCEPT ![admin][g] = kept]
                /\ IF ok THEN Open(admin, g) ELSE Close(admin, {g})
                /\ Reply(admin, IF ok THEN <<RequestFileData(t, g, 0, 0)>> ELSE <<>>)
    BY <2>2, <2>3, Zenon
  <2> QED BY <2>4, <2>5, Zenon
<1> QED BY <1>7, <1>8, <1>9

-----------------------------------------------------------------------------
(* Connections come and go                                                 *)

LEMMA BreakPreserves ==
  ASSUME FileTransferAssumption, IInv, NEW socket \in Sockets, Break(socket)
  PROVE  IInv'
<1>1. /\ link' = [link EXCEPT ![socket] = "down"]
      /\ UNCHANGED <<sockets, inbox, peer, filesList, toAdmin, fileTX, requests, open, verified,
                     reads, writes, readId, signals, undefined, misled, asked, asks, damaged,
                     errors>>
  BY DEF Break, adminVars, fileVars, workVars, ghosts, faultVars
<1>2. Types /\ Links /\ Fine /\ Turns /\ Entered /\ Counted
  BY DEF IInv
<1>3. /\ link' \in [Sockets -> {"unused", "up", "down"}]
      /\ \A s \in Sockets : link[s]' = IF s = socket THEN "down" ELSE link[s]
  BY <1>1, <1>2 DEF Types, LinkTypes
<1>4. Types'
  <2>1. LinkTypes' /\ FileTypes' /\ PacketTypes' /\ WorkTypes'
    BY <1>1, <1>2, <1>3 DEF Types, LinkTypes, FileTypes, WorkTypes, PacketTypes
  <2> QED BY <2>1 DEF Types
<1>5. Steady
  BY <1>1, <1>3 DEF Steady, IsWhole, AdminHas
<1>6. Links'
  BY <1>1, <1>2, <1>3 DEF Links, Types, LinkTypes
<1>7. ReadsFine' /\ WritesFine' /\ SignalsFine' /\ IdsFine'
  BY <1>1, <1>2, <1>4, <1>5, WorkKept DEF workVars
<1>8. EntriesFine' /\ ListsFine' /\ PacketsFine'
  BY <1>1, <1>2, <1>5, EntriesKept, ListsKept, PacketsKept DEF Fine
<1>9. Turns' /\ Entered' /\ Counted'
  <2>1. Turns'
    BY <1>1, <1>2, <1>3 DEF Turns, InTurn
  <2>2. Entered'
    BY <1>1, <1>2 DEF Entered
  <2>3. Counted'
    BY <1>1, <1>2 DEF Counted, Asking
  <2> QED BY <2>1, <2>2, <2>3
<1> QED BY <1>4, <1>6, <1>7, <1>8, <1>9 DEF IInv, Fine

\* The last of some positions.
LEMMA MaxOfPositions ==
  ASSUME NEW n \in Nat, NEW I \in SUBSET (1 .. n), I # {}
  PROVE  Max(I) \in I
<1>1. PICK B : B = { j \in 0 .. n : n - j \in I }
  OBVIOUS
<1>2. PICK i \in I : TRUE
  OBVIOUS
<1>3. n - i \in 0 .. n /\ n - (n - i) = i
  OBVIOUS
<1>4. B \in SUBSET Nat /\ B # {}
  <2>1. n - i \in B
    BY <1>1, <1>3
  <2>2. \A j \in B : j \in Nat
    BY <1>1
  <2>3. B \subseteq Nat /\ B # {}
    BY <2>1, <2>2
  <2> QED BY <2>3
<1>5. PICK m \in B : \A j \in B : m <= j
  BY <1>4, LeastElement
<1>6. m \in 0 .. n /\ n - m \in I
  BY <1>1, <1>5
<1>7. ASSUME NEW j \in I PROVE n - m >= j
  <2>1. j \in Nat /\ n - j \in 0 .. n /\ n - (n - j) = j
    BY <1>7
  <2>2. n - j \in B
    BY <1>1, <1>7, <2>1
  <2>3. m <= n - j
    BY <1>5, <2>2
  <2> QED BY <1>6, <2>1, <2>3
<1>8. \E x \in I : \A y \in I : x >= y
  BY <1>6, <1>7
<1> QED BY <1>8 DEF Max

LEMMA LosePreserves ==
  ASSUME FileTransferAssumption, IInv, NEW p \in Processes, NEW socket \in Sockets,
         Lose(p, socket)
  PROVE  IInv'
<1>1. UNCHANGED <<link, sockets, peer, filesList, toAdmin, fileTX, requests, open, verified,
                  reads, writes, readId, signals, undefined, misled, asked, asks, damaged,
                  errors>>
  BY DEF Lose, linkVars, adminVars, fileVars, workVars, ghosts, faultVars
<1>2. Types /\ Links /\ Fine /\ Turns /\ Entered /\ Counted
  BY DEF IInv
<1>3. PICK queues \in [Processes -> Seq(Packets)] : queues = inbox
  BY <1>2 DEF Types, PacketTypes
<1>4. PICK q \in Seq(Packets) : q = queues[p]
  OBVIOUS
<1>5. PICK k \in 1 .. Len(q) : inbox' = [queues EXCEPT ![p] = RemoveAt(q, k)]
  <2>1. PICK sent : sent = {i \in DOMAIN q : q[i].socket = socket}
    OBVIOUS
  <2>2. sent \in SUBSET (1 .. Len(q)) /\ sent # {} /\ Len(q) \in Nat
    BY <1>3, <1>4, <2>1 DEF Lose
  <2>3. Max(sent) \in sent
    BY <2>2, MaxOfPositions
  <2>4. inbox' = [queues EXCEPT ![p] = RemoveAt(q, Max(sent))]
    BY <1>3, <1>4, <2>1 DEF Lose
  <2> QED BY <2>2, <2>3, <2>4
<1>6. PICK r \in Seq(Packets) : r = RemoveAt(q, k) /\ ToSet(r) \subseteq ToSet(q)
  BY RemoveContinues
<1>7. /\ inbox' \in [Processes -> Seq(Packets)]
      /\ \A t \in Processes : inbox[t]' = IF t = p THEN r ELSE queues[t]
  BY <1>5, <1>6
<1>8. Types'
  <2>1. LinkTypes' /\ FileTypes' /\ PacketTypes' /\ WorkTypes'
    BY <1>1, <1>2, <1>7 DEF Types, LinkTypes, FileTypes, WorkTypes, PacketTypes
  <2> QED BY <2>1 DEF Types
<1>9. \A t \in Processes : ToSet(inbox[t]') \subseteq ToSet(inbox[t])
  BY <1>3, <1>4, <1>6, <1>7
<1>10. Steady /\ Links' /\ EntriesFine' /\ ListsFine' /\ Entered'
  BY <1>1, StillFiles DEF IsWhole
<1>11. ReadsFine' /\ WritesFine' /\ SignalsFine' /\ IdsFine'
  BY <1>1, <1>2, <1>8, <1>10, WorkKept DEF workVars
<1>12. PacketsFine'
  BY <1>2, <1>9, <1>10, PacketsKept DEF Fine
<1>13. CASE p # Client
  <2>1. inbox[Client]' = inbox[Client]
    BY <1>3, <1>7, <1>13, ClientIsNoAdmin
  <2>2. Turns' /\ Counted'
    BY <1>1, <1>2, <2>1 DEF Turns, InTurn, Counted, Asking
  <2> QED BY <1>8, <1>10, <1>11, <1>12, <2>2 DEF IInv, Fine
<1>14. CASE p = Client
  <2>1. inbox[Client] = q /\ inbox[Client]' = r
    BY <1>3, <1>4, <1>7, <1>14
  <2>2. PICK at : Continues(q, r, Len(r), at)
    BY <1>6, RemoveContinues
  <2>3. Turns'
    <3>1. ASSUME NEW s \in Sockets, link[s] = "up" PROVE InTurn(s)'
      <4>1. InTurn(s)
        BY <1>2, <3>1 DEF Turns
      <4>2. Continues(inbox[Client], inbox[Client]', Len(r), at)
        BY <2>1, <2>2
      <4>3. \A i \in Len(r) + 1 .. Len(inbox[Client]') : inbox[Client]'[i].socket = s
        BY <2>1
      <4>4. \A f \in Files : (fileTX[s][f] > 0)' =>
              fileTX[s][f] > 0 \/ (inbox[Client] # <<>> /\ Head(inbox[Client]).socket = s)
        BY <1>1
      <4> QED BY <1>2, <1>8, <4>1, <4>2, <4>3, <4>4, TurnKept
    <3> QED BY <1>1, <3>1 DEF Turns
  <2>4. Counted'
    <3>1. ASSUME NEW s \in Sockets, NEW f \in Files
          PROVE  (fileTX[s][f] + Cardinality(Asking(inbox[Client], f)) <= asks[f])'
      <4>1. PICK n \in Nat : n = fileTX[s][f]
        BY <1>2 DEF Types, FileTypes
      <4>2. PICK a \in Nat : a = asks[f]
        BY <1>2 DEF Types, FileTypes, FileTransferAssumption
      <4>3. PICK b \in Nat, c \in Nat :
              b = Cardinality(Asking(q, f)) /\ c = Cardinality(Asking(r, f))
        BY AskingSize
      <4>4. n + b <= a
        BY <1>2, <2>1, <4>1, <4>2, <4>3 DEF Counted
      <4>5. c <= b
        <5>1. \A i \in 1 .. Len(r) : at[i] # 0
          <6>1. at \in [1 .. Len(r) -> 1 .. Len(q)]
            BY <2>2 DEF Continues
          <6>2. \A i \in 1 .. Len(r) : at[i] \in 1 .. Len(q)
            BY <6>1
          <6> QED BY <6>2
        <5>2. /\ Cardinality(Asking(r, f) \cap (1 .. Len(r))) <= Cardinality(Asking(q, f) \ {0})
              /\ Cardinality(Asking(q, f) \ {0}) =
                   IF 0 \in Asking(q, f) THEN Cardinality(Asking(q, f)) - 1
                                         ELSE Cardinality(Asking(q, f))
          BY <2>2, <5>1, AskingContinues
        <5>3. 0 \notin Asking(q, f) /\ Asking(r, f) \cap (1 .. Len(r)) = Asking(r, f)
          BY DEF Asking
        <5> QED BY <4>3, <5>2, <5>3
      <4>6. fileTX[s][f]' = n /\ asks[f]' = a /\ Asking(inbox[Client], f)' = Asking(r, f)
        BY <1>1, <2>1, <4>1, <4>2 DEF Asking
      <4>7. n + c <= a
        BY <4>4, <4>5
      <4> QED BY <4>3, <4>6, <4>7
    <3> QED BY <3>1 DEF Counted
  <2> QED BY <1>8, <1>10, <1>11, <1>12, <2>3, <2>4 DEF IInv, Fine
<1> QED BY <1>13, <1>14

LEMMA ConnectPreserves ==
  ASSUME FileTransferAssumption, IInv, NEW admin \in Admins, NEW socket \in Sockets,
         Connect(admin, socket)
  PROVE  IInv'
<1>1. /\ peer[admin] = NoSocket /\ Owner[socket] = admin /\ link[socket] = "unused"
      /\ link' = [s \in Sockets |-> IF s = socket THEN "up"
                                    ELSE IF s = toAdmin THEN "down" ELSE link[s]]
      /\ sockets' = [sockets EXCEPT ![admin] = @ \cup {socket},
                                    ![Client] = (@ \ ({toAdmin} \cap UDTSockets)) \cup {socket}]
      /\ peer' = [peer EXCEPT ![admin] = socket] /\ toAdmin' = socket
      /\ UNCHANGED <<inbox, filesList, fileTX, requests, open, verified, reads, writes, readId,
                     signals, undefined, misled, asked, asks, damaged, errors>>
  BY DEF Connect, fileVars, workVars, ghosts, faultVars
<1>2. Types /\ Links /\ Fine /\ Turns /\ Entered /\ Counted
  BY DEF IInv
<1>3. /\ admin \in Processes /\ admin # Client /\ Client \in Processes /\ NoSocket \notin Sockets
      /\ \A s \in Sockets : Owner[s] \in Admins /\ Owner[s] \in Processes /\ Owner[s] # Client
  BY ClientIsNoAdmin
<1>4. /\ link \in [Sockets -> {"unused", "up", "down"}]
      /\ sockets \in [Processes -> SUBSET Sockets]
      /\ peer \in [Admins -> Sockets \cup {NoSocket}]
      /\ toAdmin \in Sockets \cup {NoSocket}
      /\ requests \in [Processes -> SUBSET (Nat \X Sockets)]
  BY <1>2 DEF Types, LinkTypes, WorkTypes
<1>5. /\ link' \in [Sockets -> {"unused", "up", "down"}]
      /\ \A s \in Sockets : link[s]' = IF s = socket THEN "up"
                                       ELSE IF s = toAdmin THEN "down" ELSE link[s]
  BY <1>1, <1>4
<1>6. /\ peer' \in [Admins -> Sockets \cup {NoSocket}]
      /\ \A a \in Admins : peer[a]' = IF a = admin THEN socket ELSE peer[a]
  BY <1>1, <1>4
<1>7. /\ sockets' \in [Processes -> SUBSET Sockets]
      /\ sockets[admin]' = sockets[admin] \cup {socket}
      /\ sockets[Client]' = (sockets[Client] \ ({toAdmin} \cap UDTSockets)) \cup {socket}
  <2>1. sockets[admin] \cup {socket} \in SUBSET Sockets
    BY <1>3, <1>4
  <2>2. (sockets[Client] \ ({toAdmin} \cap UDTSockets)) \cup {socket} \in SUBSET Sockets
    BY <1>3, <1>4
  <2> QED BY <1>1, <1>3, <1>4, <2>1, <2>2
<1>8. Types'
  <2>1. LinkTypes' /\ FileTypes' /\ PacketTypes' /\ WorkTypes'
    BY <1>1, <1>2, <1>5, <1>6, <1>7 DEF Types, LinkTypes, FileTypes, WorkTypes, PacketTypes
  <2> QED BY <2>1 DEF Types
<1>9. \A s \in Sockets : link[s]' = "up" => s = socket
  <2>1. \A s \in Sockets : link[s] = "up" => toAdmin = s
    BY <1>2 DEF Links
  <2> QED BY <1>5, <2>1
<1>10. Steady
  <2>1. \A s \in Sockets : link[s] # "unused" =>
          link[s]' # "unused" /\ (link[s]' = "up" => link[s] = "up")
    BY <1>1, <1>5
  <2>2. \A s \in Sockets : ~(link[s] = "up" /\ link[s]' = "up")
    BY <1>1, <1>9
  <2>3. \A q \in Processes, f \in Files : IsWhole(q, f) => IsWhole(q, f)'
    BY <1>1 DEF IsWhole
  <2> QED BY <1>1, <2>1, <2>2, <2>3 DEF Steady
<1>11. Links'
  <2>1. \A s \in Sockets : link[s]' = "up" =>
          /\ toAdmin' = s /\ peer[Owner[s]]' = s
          /\ s \in sockets[Client]' /\ s \in sockets[Owner[s]]'
    BY <1>1, <1>3, <1>6, <1>7, <1>9
  <2>2. toAdmin' # NoSocket => link'[toAdmin'] # "unused"
    BY <1>1, <1>5
  <2>3. \A a \in Admins : peer[a]' # NoSocket =>
          Owner[peer[a]'] = a /\ link'[peer[a]'] # "unused"
    <3>1. ASSUME NEW a \in Admins, a # admin, peer[a] # NoSocket
          PROVE  Owner[peer[a]] = a /\ link'[peer[a]] # "unused"
      <4>1. peer[a] \in Sockets /\ Owner[peer[a]] = a /\ link[peer[a]] # "unused"
        BY <1>2, <1>4, <3>1 DEF Links
      <4> QED BY <1>5, <4>1
    <3>2. Owner[socket] = admin /\ link'[socket] # "unused"
      BY <1>1, <1>5
    <3> QED BY <1>6, <3>1, <3>2
  <2>4. \A a \in Admins : peer[a]' = NoSocket => filesList[a]' = {}
    BY <1>1, <1>2, <1>3, <1>6 DEF Links
  <2> QED BY <2>1, <2>2, <2>3, <2>4 DEF Links
<1>12. IdsFine'
  <2>1. requests[admin] = {}
    <3>1. \A r \in requests[admin] : r[2] = NoSocket /\ r[2] \in Sockets
      <4>1. \A r \in requests[admin] : r \in Nat \X Sockets
        BY <1>3, <1>4
      <4>2. \A r \in requests[admin] : r[2] = peer[admin]
        BY <1>2, <1>3 DEF Fine, IdsFine, RequestsFine
      <4> QED BY <1>1, <4>1, <4>2
    <3> QED BY <1>3, <3>1
  <2>2. \A p \in Processes :
          \/ requests[p]' = {}
          \/ /\ requests[p]' \subseteq requests[p] /\ readId[p] <= readId[p]'
             /\ p \in Admins => peer[p]' = peer[p]
    BY <1>1, <1>2, <1>6, <2>1 DEF Types, WorkTypes
  <2> QED BY <1>2, <1>8, <1>10, <2>2, IdsKept DEF Fine
<1>13. ReadsFine' /\ WritesFine' /\ SignalsFine'
  <2>1. \A p \in Processes : IdsGrow(p)
    BY <1>1, <1>2 DEF Types, WorkTypes, IdsGrow
  <2> QED BY <1>1, <1>2, <1>8, <1>10, <2>1, ReadsKept, WritesKept, SignalsKept DEF Fine
<1>14. PacketsFine'
  BY <1>1, <1>2, <1>10, PacketsKept DEF Fine
<1>15. EntriesFine'
  <2>1. \A s \in Sockets, f \in Files :
          /\ (fileTX[s][f] > 0)' => fileTX[s][f] > 0
          /\ s \in sockets[Client] => s \in sockets[Client]' \/ s \in UDTSockets
    BY <1>1, <1>7
  <2> QED BY <1>2, <1>10, <2>1, EntriesKept DEF Fine
<1>16. ListsFine'
  <2>1. ASSUME NEW a \in Admins, NEW f \in filesList[a]'
        PROVE  ListFine(a, f)' \/ (f \in filesList[a] /\ peer[a]' = peer[a])
    BY <1>1, <1>2, <1>6, <2>1 DEF Links
  <2> QED BY <1>2, <1>10, <2>1, ListsKept DEF Fine
<1>17. Turns'
  <2>1. PICK queue \in Seq(Packets) : queue = inbox[Client] /\ queue = inbox[Client]'
    BY <1>1, <1>2, <1>3 DEF Types, PacketTypes
  <2>2. \A i \in 1 .. Len(queue) : queue[i].socket # socket
    <3>1. ASSUME NEW i \in 1 .. Len(queue) PROVE link[queue[i].socket] # "unused"
      <4>1. queue[i] \in ToSet(queue)
        BY DEF ToSet
      <4> QED BY <1>2, <1>3, <2>1, <4>1 DEF Fine, PacketsFine, PacketFine
    <3> QED BY <1>1, <3>1
  <2>3. \A f \in Files : ~(fileTX[socket][f] > 0)
    BY <1>1, <1>2 DEF Fine, EntriesFine, EntryFine
  <2>4. InTurn(socket)'
    BY <1>1, <2>1, <2>2, <2>3 DEF InTurn
  <2> QED BY <1>9, <2>4 DEF Turns
<1>18. Entered'
  BY <1>1, <1>2 DEF Entered
<1>19. Counted'
  BY <1>1, <1>2 DEF Counted, Asking
<1> QED BY <1>8, <1>11, <1>12, <1>13, <1>14, <1>15, <1>16, <1>17, <1>18, <1>19 DEF IInv, Fine

LEMMA ClientDisconnectedPreserves ==
  ASSUME FileTransferAssumption, IInv, NEW socket \in Sockets, ClientPeerDisconnected(socket)
  PROVE  IInv'
<1>1. /\ link[socket] = "down"
      /\ sockets' = [sockets EXCEPT ![Client] = @ \ {socket}]
      /\ toAdmin' = IF socket = toAdmin THEN NoSocket ELSE toAdmin
      /\ requests' = [requests EXCEPT ![Client] = {request \in @ : request[2] # socket}]
      /\ fileTX' = [fileTX EXCEPT ![socket] = [file \in Files |-> 0]]
      /\ open' = [open EXCEPT ![Client] = @ \ {file \in Files : Watching(file) = {socket}}]
      /\ UNCHANGED <<link, inbox, peer, filesList, verified, reads, writes, readId, signals,
                     undefined, misled, asked, asks, damaged, errors>>
  BY DEF ClientPeerDisconnected, ClientForgets, Close, adminVars, workVars, ghosts, faultVars
<1>2. Types /\ Links /\ Fine /\ Turns /\ Entered /\ Counted
  BY DEF IInv
<1>3. /\ Client \in Processes /\ Client \notin Admins /\ NoSocket \notin Sockets
      /\ \A s \in Sockets : Owner[s] \in Admins /\ Owner[s] \in Processes /\ Owner[s] # Client
      /\ Admins \subseteq Processes
  BY ClientIsNoAdmin
<1>4. /\ sockets \in [Processes -> SUBSET Sockets]
      /\ toAdmin \in Sockets \cup {NoSocket}
      /\ requests \in [Processes -> SUBSET (Nat \X Sockets)]
      /\ fileTX \in [Sockets -> [Files -> Nat]] /\ open \in [Processes -> SUBSET Files]
      /\ readId \in [Processes -> Nat]
  BY <1>2 DEF Types, LinkTypes, FileTypes, WorkTypes
<1>5. /\ sockets' \in [Processes -> SUBSET Sockets]
      /\ sockets[Client]' = sockets[Client] \ {socket}
      /\ \A a \in Admins : sockets[a]' = sockets[a]
  BY <1>1, <1>3, <1>4
<1>6. /\ fileTX' \in [Sockets -> [Files -> Nat]]
      /\ \A s \in Sockets, f \in Files : fileTX[s][f]' = IF s = socket THEN 0 ELSE fileTX[s][f]
  BY <1>1, <1>4
<1>7. /\ open' \in [Processes -> SUBSET Files]
      /\ open[Client]' = { f \in open[Client] : Watching(f) # {socket} }
      /\ \A a \in Admins : open[a]' = open[a]
  BY <1>1, <1>3, <1>4
<1>8. /\ requests' \in [Processes -> SUBSET (Nat \X Sockets)]
      /\ \A p \in Processes : requests[p]' \subseteq requests[p]
  BY <1>1, <1>3, <1>4
<1>9. Types'
  <2>1. LinkTypes' /\ FileTypes' /\ PacketTypes' /\ WorkTypes'
    BY <1>1, <1>2, <1>4, <1>5, <1>6, <1>7, <1>8
       DEF Types, LinkTypes, FileTypes, WorkTypes, PacketTypes
  <2> QED BY <2>1 DEF Types
<1>10. Steady
  <2>1. \A s \in Sockets, f \in Files : AdminHas(s, f) => AdminHas(s, f)'
    BY <1>1, <1>3, <1>7 DEF AdminHas
  <2>2. ASSUME NEW s \in Sockets, NEW f \in Files, link[s] = "up", fileTX[s][f] > 0
        PROVE  (fileTX[s][f] > 0)' /\ (f \in open[Client] => f \in open[Client]')
    <3>1. s # socket /\ s \in Watching(f)
      BY <1>1, <2>2 DEF Watching
    <3> QED BY <1>6, <1>7, <2>2, <3>1
  <2>3. \A q \in Processes, f \in Files : IsWhole(q, f) => IsWhole(q, f)'
    BY <1>1 DEF IsWhole
  <2> QED BY <1>1, <2>1, <2>2, <2>3 DEF Steady
<1>11. Links'
  BY <1>1, <1>2, <1>3, <1>5 DEF Links
<1>12. ReadsFine' /\ WritesFine' /\ SignalsFine' /\ IdsFine'
  <2>1. \A p \in Processes : IdsGrow(p)
    BY <1>1, <1>4, <1>8 DEF IdsGrow
  <2>2. \A p \in Processes :
          \/ requests[p]' = {}
          \/ /\ requests[p]' \subseteq requests[p] /\ readId[p] <= readId[p]'
             /\ p \in Admins => peer[p]' = peer[p]
    BY <1>1, <1>4, <1>8
  <2>3. IdsFine'
    BY <1>2, <1>9, <1>10, <2>2, IdsKept DEF Fine
  <2> QED BY <1>1, <1>2, <1>9, <1>10, <2>1, <2>3, ReadsKept, WritesKept, SignalsKept DEF Fine
<1>13. PacketsFine' /\ ListsFine'
  BY <1>1, <1>2, <1>10, PacketsKept, ListsKept DEF Fine
<1>14. EntriesFine'
  <2>1. ASSUME NEW s \in Sockets, NEW f \in Files
        PROVE  \/ EntryFine(s, f)'
               \/ /\ (fileTX[s][f] > 0)' => fileTX[s][f] > 0
                  /\ s \in sockets[Client] => s \in sockets[Client]' \/ s \in UDTSockets
    <3>1. CASE s = socket
      <4>1. ~(fileTX[s][f] > 0)'
        BY <1>6, <3>1
      <4> QED BY <4>1 DEF EntryFine
    <3>2. CASE s # socket
      BY <1>5, <1>6, <3>2
    <3> QED BY <3>1, <3>2
  <2> QED BY <1>2, <1>10, <2>1, EntriesKept DEF Fine
<1>15. Turns'
  <2>1. ASSUME NEW s \in Sockets, link[s] = "up"
        PROVE  \A f \in Files : fileTX[s][f]' = fileTX[s][f]
    BY <1>1, <1>6, <2>1
  <2> QED BY <1>1, <1>2, <2>1 DEF Turns, InTurn
<1>16. Entered'
  <2>1. ASSUME NEW f \in open[Client]' PROVE \E s \in Sockets : (fileTX[s][f] > 0)'
    <3>1. f \in open[Client] /\ Watching(f) # {socket} /\ f \in Files
      BY <1>3, <1>4, <1>7
    <3>2. PICK s \in Sockets : fileTX[s][f] > 0
      BY <1>2, <3>1 DEF Entered
    <3>3. s \in Watching(f)
      BY <3>2 DEF Watching
    <3>4. PICK t \in Watching(f) : t # socket
      BY <3>1, <3>3
    <3>5. t \in Sockets /\ fileTX[t][f] > 0
      BY DEF Watching
    <3>6. (fileTX[t][f] > 0)'
      BY <1>6, <3>1, <3>4, <3>5
    <3> QED BY <3>5, <3>6
  <2> QED BY <2>1 DEF Entered
<1>17. Counted'
  <2>1. ASSUME NEW s \in Sockets, NEW f \in Files
        PROVE  (fileTX[s][f] + Cardinality(Asking(inbox[Client], f)) <= asks[f])'
    <3>1. PICK n \in Nat : n = fileTX[s][f]
      BY <1>4
    <3>2. PICK m \in Nat : m = fileTX[s][f]' /\ m <= n
      BY <1>6, <3>1
    <3>3. PICK a \in Nat : a = asks[f] /\ a = asks[f]'
      BY <1>1, <1>2 DEF Types, FileTypes, FileTransferAssumption
    <3>4. PICK c \in Nat : c = Cardinality(Asking(inbox[Client], f))
      BY <1>2, <1>3, AskingSize DEF Types, PacketTypes
    <3>5. Asking(inbox[Client], f)' = Asking(inbox[Client], f)
      BY <1>1 DEF Asking
    <3>6. n + c <= a
      <4>1. fileTX[s][f] + Cardinality(Asking(inbox[Client], f)) <= asks[f]
        BY <1>2 DEF Counted
      <4> QED BY <3>1, <3>3, <3>4, <4>1
    <3>7. m + c <= a
      BY <3>2, <3>6
    <3> QED BY <3>2, <3>3, <3>4, <3>5, <3>7
  <2> QED BY <2>1 DEF Counted
<1> QED BY <1>9, <1>11, <1>12, <1>13, <1>14, <1>15, <1>16, <1>17 DEF IInv, Fine

LEMMA AdminDisconnectedPreserves ==
  ASSUME FileTransferAssumption, IInv, NEW admin \in Admins, AdminPeerDisconnected(admin)
  PROVE  IInv'
<1>1. /\ peer[admin] # NoSocket /\ link[peer[admin]] = "down"
      /\ sockets' = [sockets EXCEPT ![admin] = @ \ {peer[admin]}]
      /\ peer' = [peer EXCEPT ![admin] = NoSocket]
      /\ open' = [open EXCEPT ![admin] = @ \ filesList[admin]]
      /\ filesList' = [filesList EXCEPT ![admin] = {}]
      /\ requests' = [requests EXCEPT ![admin] = {}]
      /\ UNCHANGED <<link, inbox, toAdmin, fileTX, verified, reads, writes, readId, signals,
                     undefined, misled, asked, asks, damaged, errors>>
  BY DEF AdminPeerDisconnected, AdminForgets, Close, workVars, ghosts, faultVars
<1>2. Types /\ Links /\ Fine /\ Turns /\ Entered /\ Counted
  BY DEF IInv
<1>3. /\ admin \in Processes /\ admin # Client /\ Client \in Processes
      /\ \A s \in Sockets : Owner[s] \in Admins /\ Owner[s] \in Processes /\ Owner[s] # Client
      /\ Admins \subseteq Processes
  BY ClientIsNoAdmin
<1>4. /\ sockets \in [Processes -> SUBSET Sockets]
      /\ peer \in [Admins -> Sockets \cup {NoSocket}]
      /\ requests \in [Processes -> SUBSET (Nat \X Sockets)]
      /\ filesList \in [Admins -> SUBSET Files] /\ open \in [Processes -> SUBSET Files]
      /\ readId \in [Processes -> Nat]
  BY <1>2 DEF Types, LinkTypes, FileTypes, WorkTypes
<1>5. /\ sockets' \in [Processes -> SUBSET Sockets]
      /\ \A p \in Processes : p # admin => sockets[p]' = sockets[p]
  BY <1>1, <1>3, <1>4
<1>6. /\ peer' \in [Admins -> Sockets \cup {NoSocket}]
      /\ \A a \in Admins : peer[a]' = IF a = admin THEN NoSocket ELSE peer[a]
  BY <1>1, <1>4
<1>7. /\ open' \in [Processes -> SUBSET Files]
      /\ \A p \in Processes : p # admin => open[p]' = open[p]
  BY <1>1, <1>3, <1>4
<1>8. /\ filesList' \in [Admins -> SUBSET Files]
      /\ \A a \in Admins : filesList[a]' = IF a = admin THEN {} ELSE filesList[a]
  BY <1>1, <1>4
<1>9. /\ requests' \in [Processes -> SUBSET (Nat \X Sockets)]
      /\ \A p \in Processes : requests[p]' = IF p = admin THEN {} ELSE requests[p]
  BY <1>1, <1>3, <1>4
<1>10. Types'
  <2>1. LinkTypes' /\ FileTypes' /\ PacketTypes' /\ WorkTypes'
    BY <1>1, <1>2, <1>5, <1>6, <1>7, <1>8, <1>9
       DEF Types, LinkTypes, FileTypes, WorkTypes, PacketTypes
  <2> QED BY <2>1 DEF Types
<1>11. \A s \in Sockets : link[s] = "up" => Owner[s] # admin
  BY <1>1, <1>2 DEF Links
<1>12. Steady
  <2>1. \A s \in Sockets, f \in Files : link[s] = "up" /\ AdminHas(s, f) => AdminHas(s, f)'
    BY <1>3, <1>7, <1>8, <1>11 DEF AdminHas
  <2>2. open[Client]' = open[Client]
    BY <1>3, <1>7
  <2>3. \A q \in Processes, f \in Files : IsWhole(q, f) => IsWhole(q, f)'
    BY <1>1 DEF IsWhole
  <2> QED BY <1>1, <2>1, <2>2, <2>3 DEF Steady
<1>13. Links'
  <2>1. \A s \in Sockets : link[s]' = "up" =>
          /\ toAdmin' = s /\ peer[Owner[s]]' = s
          /\ s \in sockets[Client]' /\ s \in sockets[Owner[s]]'
    BY <1>1, <1>2, <1>3, <1>5, <1>6, <1>11 DEF Links
  <2>2. toAdmin' # NoSocket => link'[toAdmin'] # "unused"
    BY <1>1, <1>2 DEF Links
  <2>3. \A a \in Admins : peer[a]' # NoSocket =>
          Owner[peer[a]'] = a /\ link'[peer[a]'] # "unused"
    BY <1>1, <1>2, <1>6 DEF Links
  <2>4. \A a \in Admins : peer[a]' = NoSocket => filesList[a]' = {}
    BY <1>2, <1>6, <1>8 DEF Links
  <2> QED BY <2>1, <2>2, <2>3, <2>4 DEF Links
<1>14. ReadsFine' /\ WritesFine' /\ SignalsFine' /\ IdsFine'
  <2>1. \A p \in Processes : IdsGrow(p)
    BY <1>1, <1>4, <1>9 DEF IdsGrow
  <2>2. \A p \in Processes :
          \/ requests[p]' = {}
          \/ /\ requests[p]' \subseteq requests[p] /\ readId[p] <= readId[p]'
             /\ p \in Admins => peer[p]' = peer[p]
    BY <1>1, <1>4, <1>6, <1>9
  <2>3. IdsFine'
    BY <1>2, <1>10, <1>12, <2>2, IdsKept DEF Fine
  <2> QED BY <1>1, <1>2, <1>10, <1>12, <2>1, <2>3, ReadsKept, WritesKept, SignalsKept DEF Fine
<1>15. PacketsFine'
  BY <1>1, <1>2, <1>12, PacketsKept DEF Fine
<1>16. EntriesFine'
  BY <1>1, <1>2, <1>3, <1>5, <1>12, EntriesKept DEF Fine
<1>17. ListsFine'
  <2>1. \A a \in Admins : \A f \in filesList[a]' : f \in filesList[a] /\ peer[a]' = peer[a]
    BY <1>6, <1>8
  <2> QED BY <1>2, <1>12, <2>1, ListsKept DEF Fine
<1>18. Turns' /\ Entered'
  BY <1>1, <1>2, <1>3, <1>7 DEF Turns, InTurn, Entered
<1>19. Counted'
  BY <1>1, <1>2 DEF Counted, Asking
<1> QED BY <1>10, <1>13, <1>14, <1>15, <1>16, <1>17, <1>18, <1>19 DEF IInv, Fine

LEMMA DiePreserves ==
  ASSUME FileTransferAssumption, IInv, Die, undefined' \subseteq {"null", "first"}
  PROVE  IInv'
<1>1. /\ link' = [s \in Sockets |-> IF link[s] = "up" THEN "down" ELSE link[s]]
      /\ sockets' = [sockets EXCEPT ![Client] = {}]
      /\ inbox' = [inbox EXCEPT ![Client] = <<>>]
      /\ toAdmin' = NoSocket
      /\ fileTX' = [socket \in Sockets |-> [file \in Files |-> 0]]
      /\ requests' = [requests EXCEPT ![Client] = {}]
      /\ open' = [open EXCEPT ![Client] = {}]
      /\ reads' = [reads EXCEPT ![Client] = <<>>]
      /\ writes' = [writes EXCEPT ![Client] = <<>>]
      /\ readId' = [readId EXCEPT ![Client] = 0]
      /\ signals' = [signals EXCEPT ![Client] = <<>>]
      /\ UNCHANGED <<peer, filesList, verified, misled, asked, asks, damaged, errors>>
  BY DEF Die, adminVars, faultVars
<1>2. Types /\ Links /\ Fine /\ Turns /\ Entered /\ Counted
  BY DEF IInv
<1>3. /\ Client \in Processes /\ Client \notin Admins /\ NoSocket \notin Sockets
      /\ \A s \in Sockets : Owner[s] \in Admins /\ Owner[s] \in Processes /\ Owner[s] # Client
      /\ Admins \subseteq Processes
      /\ \A p \in Processes : p \in Admins \/ p = Client
  BY ClientIsNoAdmin
<1>4. /\ link \in [Sockets -> {"unused", "up", "down"}]
      /\ sockets \in [Processes -> SUBSET Sockets]
      /\ peer \in [Admins -> Sockets \cup {NoSocket}]
      /\ inbox \in [Processes -> Seq(Packets)]
      /\ requests \in [Processes -> SUBSET (Nat \X Sockets)]
      /\ open \in [Processes -> SUBSET Files]
      /\ reads \in [Processes -> Seq(ReadRequest)] /\ writes \in [Processes -> Seq(Writes)]
      /\ readId \in [Processes -> Nat] /\ signals \in [Processes -> Seq(Signals)]
  BY <1>2 DEF Types, LinkTypes, FileTypes, WorkTypes, PacketTypes
<1>5. /\ link' \in [Sockets -> {"unused", "up", "down"}]
      /\ \A s \in Sockets : link[s]' # "up" /\ (link[s] # "unused" => link[s]' # "unused")
  BY <1>1, <1>4
<1>6. LinkTypes'
  BY <1>1, <1>2, <1>3, <1>4, <1>5 DEF Types, LinkTypes
<1>7. /\ open' \in [Processes -> SUBSET Files] /\ open[Client]' = {}
      /\ fileTX' \in [Sockets -> [Files -> Nat]]
      /\ \A s \in Sockets, f \in Files : fileTX[s][f]' = 0
  BY <1>1, <1>3, <1>4
<1>8. FileTypes'
  BY <1>1, <1>2, <1>7 DEF Types, FileTypes
<1>9. /\ <<>> \in Seq(Packets) /\ <<>> \in Seq(ReadRequest) /\ <<>> \in Seq(Writes)
      /\ <<>> \in Seq(Signals) /\ 0 \in Nat
  OBVIOUS
<1>10. PacketTypes'
  BY <1>1, <1>2, <1>4, <1>9 DEF Types, PacketTypes
<1>11. WorkTypes'
  BY <1>1, <1>3, <1>4, <1>9 DEF WorkTypes
<1>12. Types'
  BY <1>6, <1>8, <1>10, <1>11 DEF Types
<1>13. /\ inbox[Client]' = <<>> /\ reads[Client]' = <<>> /\ writes[Client]' = <<>>
       /\ signals[Client]' = <<>> /\ requests[Client]' = {}
       /\ \A a \in Admins :
            /\ inbox[a]' = inbox[a] /\ reads[a]' = reads[a] /\ writes[a]' = writes[a]
            /\ signals[a]' = signals[a] /\ requests[a]' = requests[a]
            /\ readId[a]' = readId[a] /\ readId[a] \in Nat
  BY <1>1, <1>3, <1>4
<1>14. ToSet(<<>>) = {}
  BY NoElement
<1>15. Steady
  BY <1>1, <1>5 DEF Steady, IsWhole
<1>16. Links'
  BY <1>1, <1>2, <1>4, <1>5 DEF Links
<1>17. PacketsFine'
  <2>1. \A p \in Processes : \A e \in ToSet(inbox[p]') : e \in ToSet(inbox[p])
    BY <1>3, <1>13, <1>14
  <2> QED BY <1>2, <1>15, <2>1, PacketsKept DEF Fine
<1>18. ReadsFine'
  <2>1. \A a \in Admins : IdsGrow(a)
    BY <1>13 DEF IdsGrow
  <2>2. \A p \in Processes : \A e \in ToSet(reads[p]') : e \in ToSet(reads[p]) /\ IdsGrow(p)
    BY <1>3, <1>13, <1>14, <2>1
  <2> QED BY <1>2, <1>12, <1>15, <2>2, ReadsKept DEF Fine
<1>19. SignalsFine'
  <2>1. \A a \in Admins : IdsGrow(a)
    BY <1>13 DEF IdsGrow
  <2>2. \A p \in Processes : \A e \in ToSet(signals[p]') : e \in ToSet(signals[p]) /\ IdsGrow(p)
    BY <1>3, <1>13, <1>14, <2>1
  <2> QED BY <1>2, <1>12, <1>15, <2>2, SignalsKept DEF Fine
<1>20. WritesFine'
  <2>1. \A p \in Processes : \A e \in ToSet(writes[p]') : e \in ToSet(writes[p])
    BY <1>3, <1>13, <1>14
  <2> QED BY <1>2, <1>15, <2>1, WritesKept DEF Fine
<1>21. IdsFine'
  <2>1. \A p \in Processes :
          \/ requests[p]' = {}
          \/ /\ requests[p]' \subseteq requests[p] /\ readId[p] <= readId[p]'
             /\ p \in Admins => peer[p]' = peer[p]
    BY <1>1, <1>3, <1>13
  <2> QED BY <1>2, <1>12, <1>15, <2>1, IdsKept DEF Fine
<1>22. EntriesFine'
  <2>1. \A s \in Sockets, f \in Files : ~(fileTX[s][f] > 0)'
    BY <1>7
  <2> QED BY <2>1 DEF EntriesFine, EntryFine
<1>23. ListsFine'
  BY <1>1, <1>2, <1>15, ListsKept DEF Fine
<1>24. Turns'
  BY <1>5 DEF Turns
<1>25. Entered'
  BY <1>7 DEF Entered
<1>26. Counted'
  <2>1. ASSUME NEW s \in Sockets, NEW f \in Files
        PROVE  (fileTX[s][f] + Cardinality(Asking(inbox[Client], f)) <= asks[f])'
    <3>1. Asking(<<>>, f) = {} /\ Cardinality({}) = 0
      BY FS_EmptySet DEF Asking
    <3>2. PICK a \in Nat : a = asks[f]'
      BY <1>8 DEF FileTypes, FileTransferAssumption
    <3>3. Asking(inbox[Client], f)' = Asking(<<>>, f)
      BY <1>13 DEF Asking
    <3>4. fileTX[s][f]' = 0
      BY <1>7
    <3>5. Cardinality(Asking(inbox[Client], f))' = 0
      BY <3>1, <3>3
    <3> QED BY <3>2, <3>4, <3>5
  <2> QED BY <2>1 DEF Counted
<1> QED BY <1>12, <1>16, <1>17, <1>18, <1>19, <1>20, <1>21, <1>22, <1>23, <1>24, <1>25, <1>26
        DEF IInv, Fine

-----------------------------------------------------------------------------
(* The invariant holds                                                     *)

LEMMA InitIsFine ==
  ASSUME FileTransferAssumption, Init
  PROVE  IInv
<1>1. /\ Client \in Processes /\ Client \notin Admins /\ NoSocket \notin Sockets
      /\ \A p \in Processes : p \in Admins \/ p = Client
  BY ClientIsNoAdmin
<1>2. /\ <<>> \in Seq(Packets) /\ <<>> \in Seq(ReadRequest) /\ <<>> \in Seq(Writes)
      /\ <<>> \in Seq(Signals) /\ 0 \in Nat /\ ToSet(<<>>) = {}
  BY NoElement
<1>3. LinkTypes
  BY DEF Init, LinkTypes, FileTransferAssumption
<1>4. FileTypes
  <2>1. /\ verified \in [Processes -> [Files -> SUBSET Nat]]
        /\ \A p \in Processes, f \in Files : verified[p][f] \subseteq Pieces(f)
    <3>1. \A f \in Files : Pieces(f) \in SUBSET Nat
      BY PiecesAreIndices
    <3>2. PICK have : have = [p \in Processes |-> IF p = Client THEN ClientFiles ELSE Uploads[p]]
      OBVIOUS
    <3>3. verified = [p \in Processes |-> [f \in Files |->
                        IF f \in have[p] THEN Pieces(f) ELSE {}]]
      BY <3>2 DEF Init
    <3> QED BY <3>1, <3>3
  <2>2. /\ asks \in [Files -> 0 .. MaxAsks] /\ misled \subseteq Sockets \X Files
        /\ filesList \in [Admins -> SUBSET Files] /\ open \in [Processes -> SUBSET Files]
        /\ fileTX \in [Sockets -> [Files -> Nat]]
    BY <1>2 DEF Init, FileTransferAssumption
  <2> QED BY <2>1, <2>2 DEF FileTypes
<1>5. PacketTypes
  BY <1>2 DEF Init, PacketTypes
<1>6. WorkTypes
  BY <1>2 DEF Init, WorkTypes
<1>7. Links
  BY <1>1 DEF Init, Links
<1>8. PacketsFine /\ ReadsFine /\ WritesFine /\ SignalsFine
  BY <1>2 DEF Init, PacketsFine, ReadsFine, WritesFine, SignalsFine
<1>9. IdsFine
  BY DEF Init, IdsFine, RequestsFine
<1>10. \A s \in Sockets, f \in Files : fileTX[s][f] = 0
  BY DEF Init
<1>11. EntriesFine
  BY <1>10 DEF EntriesFine, EntryFine
<1>12. ListsFine
  BY DEF Init, ListsFine
<1>13. Turns
  BY DEF Init, Turns
<1>14. Entered
  BY <1>1 DEF Init, Entered
<1>15. Counted
  <2>1. inbox[Client] = <<>> /\ \A f \in Files : asks[f] = 0
    BY <1>1 DEF Init
  <2>2. \A f \in Files : Asking(inbox[Client], f) = {}
    BY <2>1 DEF Asking
  <2>3. Cardinality({}) = 0
    BY FS_EmptySet
  <2>4. ASSUME NEW s \in Sockets, NEW f \in Files
        PROVE  fileTX[s][f] + Cardinality(Asking(inbox[Client], f)) <= asks[f]
    <3>1. Cardinality(Asking(inbox[Client], f)) = 0
      BY <2>2, <2>3
    <3> QED BY <1>10, <2>1, <3>1
  <2> QED BY <2>4 DEF Counted
<1> QED BY <1>3, <1>4, <1>5, <1>6, <1>7, <1>8, <1>9, <1>11, <1>12, <1>13, <1>14, <1>15
        DEF IInv, Types, Fine

LEMMA DeathPreserves ==
  ASSUME FileTransferAssumption, IInv, DenyFileDownload \/ DieOfFirst
  PROVE  IInv'
<1>1. undefined \subseteq {"null", "first"}
  BY DEF IInv, Types, LinkTypes
<1>2. Die /\ undefined' \subseteq {"null", "first"}
  BY <1>1 DEF DenyFileDownload, DieOfFirst
<1> QED BY <1>2, DiePreserves

LEMMA StutterPreserves ==
  ASSUME FileTransferAssumption, IInv, UNCHANGED vars
  PROVE  IInv'
<1>1. UNCHANGED <<link, sockets, inbox, peer, filesList, toAdmin, fileTX, requests, open, verified,
                  reads, writes, readId, signals, undefined, misled, asked, asks, damaged, errors>>
  BY DEF vars, linkVars, adminVars, fileVars, workVars, ghosts, faultVars
<1>2. Types'
  <2>1. LinkTypes' /\ FileTypes' /\ PacketTypes' /\ WorkTypes'
    BY <1>1 DEF IInv, Types, LinkTypes, FileTypes, PacketTypes, WorkTypes
  <2> QED BY <2>1 DEF Types
<1>3. \A p \in Processes, f \in Files : IsWhole(p, f) => IsWhole(p, f)'
  BY <1>1 DEF IsWhole
<1>4. Steady
  BY <1>1, <1>3, StillFiles
<1>5. Types /\ Fine /\ UNCHANGED <<workVars, requests, peer>>
  BY <1>1 DEF IInv, workVars
<1>6. ReadsFine' /\ WritesFine' /\ SignalsFine' /\ IdsFine'
  BY <1>2, <1>4, <1>5, WorkKept
<1> QED BY <1>1, <1>2, <1>3, <1>6, InnerStep

\* One step for each action.
LEMMA NextPreserves ==
  ASSUME FileTransferAssumption, IInv, [Next]_vars
  PROVE  IInv'
<1>1. CASE \E admin \in Admins, socket \in Sockets : Connect(admin, socket)
  BY <1>1, ConnectPreserves
<1>2. CASE \E admin \in Admins, file \in Files : RequestUploadFilesToRemote(admin, file)
  BY <1>2, RequestUploadPreserves
<1>3. CASE \E admin \in Admins, file \in Files : RequestDownloadFileFromRemote(admin, file)
  BY <1>3, RequestDownloadPreserves
<1>4. ASSUME NEW admin \in Admins, AdminPackets(admin) PROVE IInv'
  BY <1>4, IgnorePreserves, AcceptedPreserves, RefusedPreserves, RequestedPreserves,
     ReceivedPreserves, AdminFileTXDonePreserves DEF AdminPackets
<1>5. ASSUME NEW admin \in Admins, AdminSignals(admin) PROVE IInv'
  <2>1. admin \in Processes
    BY ClientIsNoAdmin
  <2> QED BY <1>5, <2>1, AdminFileDataReadPreserves, FileTXErrorPreserves,
             AdminPieceVerifiedPreserves DEF AdminSignals
<1>6. CASE \E admin \in Admins : AdminPeerDisconnected(admin)
  BY <1>6, AdminDisconnectedPreserves
<1>7. CASE \E socket \in Sockets : Break(socket) \/ ClientPeerDisconnected(socket)
  BY <1>7, BreakPreserves, ClientDisconnectedPreserves
<1>8. CASE \E p \in Processes, socket \in Sockets : Lose(p, socket)
  BY <1>8, LosePreserves
<1>9. CASE \E p \in Processes : ReadBlock(p) \/ WriteBlock(p)
  BY <1>9, ReadBlockPreserves, WriteBlockPreserves
<1>10. CASE ClientPackets
  BY <1>10, AnswerUploadPreserves, AnswerDownloadPreserves, DeathPreserves, RequestedPreserves,
     ReceivedPreserves, ClientFileTXDonePreserves DEF ClientPackets
<1>11. CASE ClientSignals
  <2>1. Client \in Processes
    BY ClientIsNoAdmin
  <2> QED BY <1>11, <2>1, ClientFileDataReadPreserves, FileTXErrorPreserves,
             ClientPieceVerifiedPreserves, DeathPreserves DEF ClientSignals
<1>12. CASE UNCHANGED vars
  BY <1>12, StutterPreserves
<1>13. Next \/ UNCHANGED vars
  OBVIOUS
<1> QED BY <1>1, <1>2, <1>3, <1>4, <1>5, <1>6, <1>7, <1>8, <1>9, <1>10, <1>11, <1>12, <1>13
        DEF Next

-----------------------------------------------------------------------------
(* What the invariant says                                                 *)

LEMMA HeldPacket ==
  ASSUME FileTransferAssumption, IInv, NEW p \in Processes, NEW e \in ToSet(inbox[p])
  PROVE  e.socket \in Sockets /\ e.file \in Files
<1>1. inbox[p] \in Seq(Packets)
  BY DEF IInv, Types, PacketTypes
<1>2. e \in Packets
  BY <1>1, ToSetFacts
<1> QED BY <1>2, PacketFacts

LEMMA FineTypes ==
  ASSUME FileTransferAssumption, IInv
  PROVE  TypeOK
<1>1. Types /\ Counted
  BY DEF IInv
<1>2. Packets \subseteq Packet /\ Writes \subseteq WriteRequest /\ Signals \subseteq Signal
  BY DEF Packets, Packet, Writes, Signals
<1>3. inbox \in [Processes -> Seq(Packet)]
  <2>1. \A p \in Processes : inbox[p] \in Seq(Packet)
    BY <1>1, <1>2 DEF Types, PacketTypes
  <2> QED BY <1>1, <2>1 DEF Types, PacketTypes
<1>4. writes \in [Processes -> Seq(WriteRequest)] /\ signals \in [Processes -> Seq(Signal)]
  <2>1. \A p \in Processes : writes[p] \in Seq(WriteRequest) /\ signals[p] \in Seq(Signal)
    BY <1>1, <1>2 DEF Types, WorkTypes
  <2> QED BY <1>1, <2>1 DEF Types, WorkTypes
<1>5. fileTX \in [Sockets -> [Files -> 0 .. MaxAsks]]
  <2>1. ASSUME NEW s \in Sockets, NEW f \in Files
        PROVE  fileTX[s][f] \in 0 .. MaxAsks
    <3>1. MaxAsks \in Nat
      BY DEF FileTransferAssumption
    <3>2. fileTX[s][f] \in Nat /\ asks[f] \in 0 .. MaxAsks
      BY <1>1 DEF Types, FileTypes
    <3>3. Cardinality(Asking(inbox[Client], f)) \in Nat
      BY <1>1, ClientIsNoAdmin, AskingSize DEF Types, PacketTypes
    <3>4. fileTX[s][f] + Cardinality(Asking(inbox[Client], f)) <= asks[f]
      BY <1>1 DEF Counted
    <3> QED BY <3>1, <3>2, <3>3, <3>4
  <2>2. fileTX \in [Sockets -> [Files -> Nat]]
    BY <1>1 DEF Types, FileTypes
  <2>3. \A s \in Sockets : fileTX[s] \in [Files -> 0 .. MaxAsks]
    BY <2>1, <2>2
  <2> QED BY <2>2, <2>3
<1> QED BY <1>1, <1>3, <1>4, <1>5 DEF TypeOK, Types, LinkTypes, FileTypes, PacketTypes, WorkTypes

LEMMA SenderFacts ==
  ASSUME FileTransferAssumption, IInv, NEW p \in Processes, NEW e \in ToSet(inbox[p]),
         link[e.socket] = "up"
  PROVE  SenderKeepsFile(p, e)
<1>1. /\ \A a \in Processes : a \in Admins \/ a = Client
      /\ Client \notin Admins
  BY ClientIsNoAdmin
<1>2. PacketFine(p, e)
  BY DEF IInv, Fine, PacketsFine
<1>3. CASE p = Client
  BY <1>1, <1>2, <1>3
     DEF PacketFine, ClientPacket, ClientSends, SenderKeepsFile, OtherEnd
<1>4. CASE p \in Admins
  <2>1. SUFFICES ASSUME e.type = "request"
                 PROVE  \/ IsWhole(Client, e.file)
                        \/ e.file \in open[p] /\ e.file \in filesList[p]
    BY <1>1, <1>4 DEF SenderKeepsFile, OtherEnd
  <2>2. Owner[e.socket] = p /\ fileTX[e.socket][e.file] > 0
    BY <1>2, <1>4, <2>1 DEF PacketFine, AdminPacket, ClientReceives
  <2>3. e.socket \in Sockets /\ e.file \in Files
    BY HeldPacket
  <2>4. AdminSends(e.socket, e.file)
    BY <2>2, <2>3 DEF IInv, Fine, EntriesFine, EntryFine
  <2> QED BY <2>2, <2>4 DEF AdminSends, AdminHas
<1> QED BY <1>1, <1>3, <1>4

LEMMA ReceiverFacts ==
  ASSUME FileTransferAssumption, IInv, NEW p \in Processes, NEW e \in ToSet(inbox[p]),
         link[e.socket] = "up"
  PROVE  ReceiverKeepsFile(p, e)
<1>1. /\ \A a \in Processes : a \in Admins \/ a = Client
      /\ Client \notin Admins
  BY ClientIsNoAdmin
<1>2. PacketFine(p, e)
  BY DEF IInv, Fine, PacketsFine
<1>3. CASE p = Client
  <2>1. SUFFICES ASSUME e.type = "data"
                 PROVE  IsWhole(Client, e.file) \/ e.file \in open[Client]
    BY <1>1, <1>3 DEF ReceiverKeepsFile
  <2>2. fileTX[e.socket][e.file] > 0
    BY <1>2, <1>3, <2>1 DEF PacketFine, ClientPacket, ClientReceives
  <2>3. e.socket \in Sockets /\ e.file \in Files
    BY HeldPacket
  <2> QED BY <2>2, <2>3 DEF IInv, Fine, EntriesFine, EntryFine
<1>4. CASE p \in Admins
  BY <1>1, <1>2, <1>4
     DEF PacketFine, AdminPacket, AdminReceives, AdminHas, ReceiverKeepsFile
<1> QED BY <1>1, <1>3, <1>4

LEMMA HeldEntries ==
  ASSUME FileTransferAssumption, IInv, UDTSockets = {}
  PROVE  NothingLeftOpen
<1>1. SUFFICES ASSUME sockets[Client] = {}, NEW f \in open[Client]
               PROVE  FALSE
  BY DEF NothingLeftOpen
<1>2. f \in Files
  BY ClientIsNoAdmin DEF IInv, Types, FileTypes
<1>3. PICK s \in Sockets : fileTX[s][f] > 0
  BY DEF IInv, Entered
<1>4. EntryFine(s, f)
  BY <1>2 DEF IInv, Fine, EntriesFine
<1> QED BY <1>1, <1>3, <1>4 DEF EntryFine

-----------------------------------------------------------------------------
(* Places in the queues                                                    *)

\* The places in some queues that hold an item of a set.
Spots(queues, items) ==
  { s \in Processes \X Nat :
      s[2] \in 1 .. Len(queues[s[1]]) /\ queues[s[1]][s[2]] \in items }

\* There are `out' fewer of them, and `in' more at most.
Shifts(old, new, items, out, in) ==
  /\ IsFiniteSet(Spots(new, items)) /\ Cardinality(Spots(new, items)) \in Nat
  /\ Cardinality(Spots(new, items)) + out <= Cardinality(Spots(old, items)) + in

\* Each queue continues the one before: a place may be gone, and one may be new.
Moves(old, new, n, at, items, gone, added, more) ==
  /\ \A p \in Processes : /\ Continues(old[p], new[p], n[p], at[p])
                           /\ Len(old[p]) \in Nat /\ Len(new[p]) \in Nat
                           /\ \A i \in 1 .. n[p] : <<p, at[p][i]>> # gone
  /\ \A s \in Spots(new, items) : s[2] \notin 1 .. n[s[1]] => s = added /\ more = 1

LEMMA SpotsMove ==
  ASSUME NEW old, NEW new, NEW n, NEW at, NEW items, NEW gone, NEW added, NEW more \in {0, 1},
         Moves(old, new, n, at, items, gone, added, more), IsFiniteSet(Spots(old, items))
  PROVE  Shifts(old, new, items, IF gone \in Spots(old, items) THEN 1 ELSE 0, more)
<1>0. /\ \A p \in Processes : Continues(old[p], new[p], n[p], at[p])
      /\ \A p \in Processes : \A i \in 1 .. n[p] : <<p, at[p][i]>> # gone
      /\ \A s \in Spots(new, items) : s[2] \notin 1 .. n[s[1]] => s = added /\ more = 1
      /\ \A p \in Processes : Len(old[p]) \in Nat /\ Len(new[p]) \in Nat
  BY DEF Moves
<1>1. PICK kept : kept = { s \in Spots(new, items) : s[2] \in 1 .. n[s[1]] }
  OBVIOUS
<1>2. PICK left : left = Spots(old, items) \ {gone}
  OBVIOUS
<1>3. PICK h : h = [s \in kept |-> <<s[1], at[s[1]][s[2]]>>]
  OBVIOUS
<1>4. ASSUME NEW s \in kept
      PROVE  /\ s[1] \in Processes /\ s[2] \in 1 .. n[s[1]] /\ s[2] \in Nat
             /\ s = <<s[1], s[2]>> /\ h[s] = <<s[1], at[s[1]][s[2]]>>
             /\ h[s] \in left /\ at[s[1]][s[2]] \in Nat
  <2>1. /\ s \in Processes \X Nat /\ s[2] \in 1 .. n[s[1]]
        /\ new[s[1]][s[2]] \in items
    BY <1>1 DEF Spots
  <2>2. PICK p \in Processes, i \in Nat : s = <<p, i>>
    BY <2>1
  <2>3. s[1] = p /\ s[2] = i
    BY <2>2
  <2>4. i \in 1 .. n[p] /\ new[p][i] \in items
    BY <2>1, <2>3
  <2>5. /\ at[p] \in [1 .. n[p] -> 1 .. Len(old[p])]
        /\ new[p][i] = old[p][at[p][i]]
    BY <1>0, <2>4 DEF Continues
  <2>6. at[p][i] \in 1 .. Len(old[p]) /\ Len(old[p]) \in Nat
    BY <1>0, <2>4, <2>5
  <2>7. at[p][i] \in Nat
    BY <2>6
  <2>8. <<p, at[p][i]>> \in Spots(old, items)
    BY <2>4, <2>5, <2>6, <2>7 DEF Spots
  <2>9. <<p, at[p][i]>> # gone
    BY <1>0, <2>4
  <2>10. h[s] = <<p, at[p][i]>>
    BY <1>3, <2>3
  <2> QED BY <1>2, <2>2, <2>3, <2>4, <2>7, <2>8, <2>9, <2>10
<1>5. h \in Injection(kept, left)
  <2>1. h \in [kept -> left]
    BY <1>3, <1>4
  <2>2. ASSUME NEW s \in kept, NEW t \in kept, h[s] = h[t] PROVE s = t
    <3>1. s[1] = t[1] /\ at[s[1]][s[2]] = at[t[1]][t[2]]
      BY <1>4, <2>2
    <3>2. PICK p, i, j : p = s[1] /\ i = s[2] /\ j = t[2]
      OBVIOUS
    <3>3. p \in Processes /\ i \in 1 .. n[p] /\ j \in 1 .. n[p] /\ at[p][i] = at[p][j]
          /\ at[p][i] \in Nat /\ i \in Nat /\ j \in Nat
      BY <1>4, <3>1, <3>2
    <3>4. i < j => at[p][i] < at[p][j]
      BY <1>0, <3>3 DEF Continues
    <3>5. j < i => at[p][j] < at[p][i]
      BY <1>0, <3>3 DEF Continues
    <3>6. i = j
      BY <3>3, <3>4, <3>5
    <3>7. s = <<p, i>> /\ t = <<p, j>>
      BY <1>4, <3>1, <3>2
    <3> QED BY <3>6, <3>7
  <2> QED BY <2>1, <2>2 DEF Injection, IsInjective
<1>6. /\ IsFiniteSet(left) /\ Cardinality(Spots(old, items)) \in Nat
      /\ Cardinality(left) = IF gone \in Spots(old, items)
           THEN Cardinality(Spots(old, items)) - 1 ELSE Cardinality(Spots(old, items))
  BY <1>2, FS_RemoveElement, FS_CardinalityType
<1>7. IsFiniteSet(kept) /\ Cardinality(kept) <= Cardinality(left)
  BY <1>5, <1>6, FS_Injection
<1>8. Cardinality(kept) \in Nat /\ Cardinality(left) \in Nat
  BY <1>6, <1>7, FS_CardinalityType
<1>9. /\ IsFiniteSet(Spots(new, items)) /\ Cardinality(Spots(new, items)) \in Nat
      /\ Cardinality(Spots(new, items)) <= Cardinality(kept) + more
  <2>1. CASE more = 0
    <3>1. Spots(new, items) = kept
      BY <1>0, <1>1, <2>1
    <3> QED BY <1>7, <1>8, <2>1, <3>1
  <2>2. CASE more = 1
    <3>1. Spots(new, items) \subseteq kept \cup {added}
      BY <1>0, <1>1
    <3>2. /\ IsFiniteSet(kept \cup {added})
          /\ Cardinality(kept \cup {added}) =
               IF added \in kept THEN Cardinality(kept) ELSE Cardinality(kept) + 1
      BY <1>7, FS_AddElement
    <3>3. /\ IsFiniteSet(Spots(new, items))
          /\ Cardinality(Spots(new, items)) <= Cardinality(kept \cup {added})
      BY <3>1, <3>2, FS_Subset
    <3>4. Cardinality(Spots(new, items)) \in Nat
      BY <3>3, FS_CardinalityType
    <3> QED BY <1>8, <2>2, <3>2, <3>3, <3>4
  <2> QED BY <2>1, <2>2
<1> QED BY <1>6, <1>7, <1>8, <1>9 DEF Shifts

\* A queue that has not changed continues itself.
Same(q) == [i \in 1 .. Len(q) |-> i]

LEMMA SameContinues ==
  ASSUME NEW S, NEW q \in Seq(S)
  PROVE  Continues(q, q, Len(q), Same(q)) /\ Len(q) \in Nat
<1>1. Len(q) \in Nat
  BY LenProperties
<1> QED BY <1>1 DEF Continues, Same

\* Nothing changes.
LEMMA SpotsStay ==
  ASSUME NEW old, NEW items, IsFiniteSet(Spots(old, items))
  PROVE  Shifts(old, old, items, 0, 0)
BY FS_CardinalityType DEF Shifts

\* Queues are emptied.
LEMMA SpotsGo ==
  ASSUME NEW S, NEW old \in [Processes -> Seq(S)], NEW new \in [Processes -> Seq(S)],
         NEW items, IsFiniteSet(Spots(old, items)),
         \A p \in Processes : new[p] = old[p] \/ new[p] = <<>>
  PROVE  Shifts(old, new, items, 0, 0)
<1>1. Spots(new, items) \subseteq Spots(old, items)
  <2>1. Len(<<>>) = 0
    OBVIOUS
  <2> QED BY <2>1 DEF Spots
<1>2. IsFiniteSet(Spots(new, items))
      /\ Cardinality(Spots(new, items)) <= Cardinality(Spots(old, items))
  BY <1>1, FS_Subset
<1>3. Cardinality(Spots(new, items)) \in Nat /\ Cardinality(Spots(old, items)) \in Nat
  BY <1>2, FS_CardinalityType
<1> QED BY <1>2, <1>3 DEF Shifts

\* The head of a queue is taken.
LEMMA SpotsTail ==
  ASSUME NEW S, NEW old \in [Processes -> Seq(S)], NEW p \in Processes, old[p] # <<>>,
         NEW items, IsFiniteSet(Spots(old, items)),
         NEW new, new = [old EXCEPT ![p] = Tail(@)]
  PROVE  Shifts(old, new, items, IF Head(old[p]) \in items THEN 1 ELSE 0, 0)
<1>2. PICK x \in Seq(S) : x = old[p]
  OBVIOUS
<1>3. PICK along : /\ Continues(x, Tail(x), Len(Tail(x)), along)
                   /\ \A i \in 1 .. Len(Tail(x)) : along[i] # 1
  BY <1>2, TailContinues
<1>4. PICK n, at : /\ n = [q \in Processes |-> Len(new[q])]
                   /\ at = [q \in Processes |-> IF q = p THEN along ELSE Same(old[q])]
  OBVIOUS
<1>5. /\ x # <<>> /\ Tail(x) \in Seq(S) /\ Len(x) \in Nat \ {0} /\ Len(Tail(x)) \in Nat
      /\ Head(x) = x[1]
  BY <1>2, TailFacts
<1>6. new[p] = Tail(x) /\ \A q \in Processes : q # p => new[q] = old[q]
  BY <1>2
<1>7. ASSUME NEW q \in Processes
      PROVE  Continues(old[q], new[q], n[q], at[q]) /\ Len(old[q]) \in Nat /\ Len(new[q]) \in Nat
  <2>1. CASE q = p BY <1>2, <1>3, <1>4, <1>5, <1>6, <2>1
  <2>2. CASE q # p
    <3>1. old[q] \in Seq(S)
      OBVIOUS
    <3> QED BY <1>4, <1>6, <2>2, <3>1, SameContinues
  <2> QED BY <2>1, <2>2
<1>8. ASSUME NEW q \in Processes, NEW i \in 1 .. n[q] PROVE <<q, at[q][i]>> # <<p, 1>>
  BY <1>3, <1>4, <1>6
<1>9. \A s \in Spots(new, items) : s[2] \in 1 .. n[s[1]]
  BY <1>4 DEF Spots
<1>10. <<p, 1>> \in Spots(old, items) <=> Head(old[p]) \in items
  BY <1>2, <1>5 DEF Spots
<1>11. PICK gone : gone = <<p, 1>>
  OBVIOUS
<1>12. Moves(old, new, n, at, items, gone, gone, 0)
  BY <1>7, <1>8, <1>9, <1>11 DEF Moves
<1>13. Shifts(old, new, items, IF gone \in Spots(old, items) THEN 1 ELSE 0, 0)
  BY <1>12, SpotsMove
<1> QED BY <1>10, <1>11, <1>13

\* An item is added to a queue.
Appended(old, new, p, e) ==
  new[p] = Append(old[p], e) /\ \A q \in Processes : q # p => new[q] = old[q]

LEMMA SpotsAppend ==
  ASSUME NEW S, NEW old \in [Processes -> Seq(S)], NEW p \in Processes, NEW e \in S,
         NEW items, IsFiniteSet(Spots(old, items)),
         NEW new, Appended(old, new, p, e)
  PROVE  Shifts(old, new, items, 0, IF e \in items THEN 1 ELSE 0)
<1>2. PICK x \in Seq(S) : x = old[p]
  OBVIOUS
<1>3. PICK n, at : /\ n = [q \in Processes |-> Len(old[q])]
                   /\ at = [q \in Processes |-> Same(old[q])]
  OBVIOUS
<1>4. /\ Append(x, e) \in Seq(S) /\ Len(Append(x, e)) = Len(x) + 1 /\ Len(x) \in Nat
      /\ Append(x, e)[Len(x) + 1] = e
      /\ \A i \in 1 .. Len(x) : Append(x, e)[i] = x[i]
  BY AppendFacts
<1>5. new[p] = Append(x, e) /\ \A q \in Processes : q # p => new[q] = old[q]
  BY <1>2 DEF Appended
<1>6. ASSUME NEW q \in Processes
      PROVE  Continues(old[q], new[q], n[q], at[q]) /\ Len(old[q]) \in Nat /\ Len(new[q]) \in Nat
  <2>1. CASE q = p
    <3>1. PICK y : y = Append(x, e)
      OBVIOUS
    <3>2. Continues(x, y, Len(x), Same(x))
      BY <1>4, <3>1 DEF Continues, Same
    <3>3. n[q] = Len(x) /\ at[q] = Same(x) /\ old[q] = x /\ new[q] = y
      BY <1>2, <1>3, <1>5, <2>1, <3>1
    <3>4. Len(x) \in Nat /\ Len(y) \in Nat
      BY <1>4, <3>1
    <3> QED BY <3>2, <3>3, <3>4
  <2>2. CASE q # p
    <3>1. old[q] \in Seq(S)
      OBVIOUS
    <3> QED BY <1>3, <1>5, <2>2, <3>1, SameContinues
  <2> QED BY <2>1, <2>2
<1>7. \A q \in Processes : \A i \in 1 .. n[q] : <<q, at[q][i]>> # <<p, 0>>
  BY <1>3, <1>6 DEF Same
<1>8. PICK more \in {0, 1} : more = IF e \in items THEN 1 ELSE 0
  OBVIOUS
<1>9. ASSUME NEW s \in Spots(new, items), s[2] \notin 1 .. n[s[1]]
      PROVE  s = <<p, Len(x) + 1>> /\ more = 1
  <2>1. PICK q \in Processes, i \in Nat : s = <<q, i>>
    BY DEF Spots
  <2>2. s[1] = q /\ s[2] = i /\ i \in 1 .. Len(new[q]) /\ new[q][i] \in items
    BY <2>1 DEF Spots
  <2>3. i \notin 1 .. Len(old[q])
    BY <1>3, <1>9, <2>2
  <2>4. q = p
    BY <1>5, <2>2, <2>3
  <2>5. i \in 1 .. Len(x) + 1 /\ i \notin 1 .. Len(x)
    BY <1>2, <1>4, <1>5, <2>2, <2>3, <2>4
  <2>6. i = Len(x) + 1
    BY <1>4, <2>5
  <2>7. e \in items
    BY <1>4, <1>5, <2>2, <2>4, <2>6
  <2> QED BY <1>8, <2>1, <2>4, <2>6, <2>7
<1>10. <<p, 0>> \notin Spots(old, items)
  BY DEF Spots
<1>11. PICK gone, added : gone = <<p, 0>> /\ added = <<p, Len(x) + 1>>
  OBVIOUS
<1>12. Moves(old, new, n, at, items, gone, added, more)
  BY <1>6, <1>7, <1>9, <1>11 DEF Moves
<1>13. Shifts(old, new, items, IF gone \in Spots(old, items) THEN 1 ELSE 0, more)
  BY <1>8, <1>12, SpotsMove
<1>14. gone \notin Spots(old, items)
  BY <1>10, <1>11
<1>15. Shifts(old, new, items, 0, more)
  BY <1>13, <1>14
<1> QED BY <1>8, <1>15

\* A packet goes to one inbox, and the one that is handled is gone.
LEMMA SpotsExchange ==
  ASSUME FileTransferAssumption, Types, NEW p \in Processes, NEW taken \in {0, 1},
         taken = 1 => inbox[p] # <<>>, NEW packets \in Seq(Packets), Exchange(p, taken, packets),
         NEW items, IsFiniteSet(Spots(inbox, items)),
         \A i, j \in 1 .. Len(packets) : packets[i] \in items /\ packets[j] \in items => i = j
  PROVE  Shifts(inbox, inbox', items,
                IF taken = 1 /\ Head(inbox[p]) \in items THEN 1 ELSE 0,
                IF \E e \in ToSet(packets) : e \in items THEN 1 ELSE 0)
<1> DEFINE News(q) == { packet \in ToSet(packets) :
                          OtherEnd(p, packet.socket) = q /\ link[packet.socket] = "up" }
<1>1. PICK n, at :
        /\ n = [q \in Processes |-> IF q = p /\ taken = 1 THEN Len(inbox[q]) - 1
                                                          ELSE Len(inbox[q])]
        /\ at = [q \in Processes |-> IF q = p /\ taken = 1
                                     THEN [i \in 1 .. Len(inbox[q]) - 1 |-> i + 1]
                                     ELSE Same(inbox[q])]
  OBVIOUS
<1>2. PICK come : come = [q \in Processes |-> Selected(packets, News(q))]
  OBVIOUS
<1>3. ASSUME NEW q \in Processes
      PROVE  /\ come[q] \in Seq(Packets)
             /\ \E by : SelectsBy(packets, News(q), come[q], by)
  <2>1. PICK news : news = News(q)
    OBVIOUS
  <2>2. Selected(packets, news) \in Seq(Packets)
        /\ \E by : SelectsBy(packets, news, Selected(packets, news), by)
    BY SelectedProperties
  <2> QED BY <1>2, <2>1, <2>2
<1> HIDE DEF News
<1>4. ASSUME NEW q \in Processes
      PROVE  /\ Continues(inbox[q], inbox[q]', n[q], at[q])
             /\ Len(inbox[q]) \in Nat /\ Len(inbox[q]') \in Nat /\ n[q] \in Nat
             /\ Len(inbox[q]') = n[q] + Len(come[q]) /\ Len(come[q]) \in Nat
             /\ \A i \in 1 .. Len(come[q]) : inbox[q]'[n[q] + i] = come[q][i]
             /\ q = p /\ taken = 1 => \A i \in 1 .. n[q] : at[q][i] # 1
             /\ \A i \in 1 .. n[q] : at[q][i] # 0
  <2>1. PICK x \in Seq(Packets), y \in Seq(Packets) : x = inbox[q] /\ y = come[q]
    BY <1>3 DEF Types, PacketTypes
  <2>2. Len(x) \in Nat /\ Len(y) \in Nat
    BY LenProperties
  <2>3. PICK r : r = IF q = p THEN SubSeq(x, taken + 1, Len(x)) ELSE x
    OBVIOUS
  <2>4. inbox[q]' = r \o y
    BY <1>2, <2>1, <2>3 DEF Exchange, News
  <2>5. CASE q = p /\ taken = 1
    <3>1. x # <<>>
      BY <2>1, <2>5
    <3>2. SubSeq(x, taken + 1, Len(x)) = Tail(x)
      BY <2>5, <3>1, RestFacts
    <3>3. r = Tail(x) /\ n[q] = Len(x) - 1 /\ at[q] = [i \in 1 .. Len(x) - 1 |-> i + 1]
      BY <1>1, <2>1, <2>3, <2>5, <3>2
    <3>4. /\ Tail(x) \in Seq(Packets) /\ Len(x) \in Nat \ {0} /\ Len(Tail(x)) = Len(x) - 1
          /\ \A i \in 1 .. Len(Tail(x)) : Tail(x)[i] = x[i + 1]
      BY <3>1, TailFacts
    <3>5. PICK t \in Seq(Packets) : t = Tail(x)
      BY <3>4
    <3>6. PICK z : z = t \o y
      OBVIOUS
    <3>7. /\ Len(z) = Len(t) + Len(y)
          /\ \A i \in 1 .. Len(t) : z[i] = t[i]
          /\ \A i \in 1 .. Len(y) : z[Len(t) + i] = y[i]
      BY <3>6, ConcatFacts
    <3>8. Continues(x, z, n[q], at[q])
      BY <2>2, <3>3, <3>4, <3>5, <3>7 DEF Continues
    <3>9. inbox[q]' = z
      BY <2>4, <3>3, <3>5, <3>6
    <3>10. Len(t) = n[q] /\ n[q] \in Nat
      BY <3>3, <3>4, <3>5
    <3>11. Len(z) \in Nat /\ Len(z) = n[q] + Len(y)
           /\ \A i \in 1 .. Len(y) : z[n[q] + i] = y[i]
      BY <2>2, <3>7, <3>10
    <3>12. \A i \in 1 .. n[q] : at[q][i] # 1 /\ at[q][i] # 0
      BY <3>3, <3>10
    <3> QED BY <2>1, <2>2, <3>8, <3>9, <3>10, <3>11, <3>12
  <2>6. CASE ~(q = p /\ taken = 1)
    <3>1. r = x
      <4>1. SubSeq(x, 1, Len(x)) = x
        BY SubSeqFull
      <4> QED BY <2>3, <2>6, <4>1
    <3>2. n[q] = Len(x) /\ at[q] = Same(x)
      BY <1>1, <2>1, <2>6
    <3>3. PICK z : z = x \o y
      OBVIOUS
    <3>4. /\ Len(z) = Len(x) + Len(y)
          /\ \A i \in 1 .. Len(x) : z[i] = x[i]
          /\ \A i \in 1 .. Len(y) : z[Len(x) + i] = y[i]
      BY <3>3, ConcatFacts
    <3>5. Continues(x, z, n[q], at[q])
      BY <2>2, <3>2, <3>4 DEF Continues, Same
    <3>6. inbox[q]' = z
      BY <2>4, <3>1, <3>3
    <3>7. \A i \in 1 .. n[q] : at[q][i] # 0
      BY <2>2, <3>2 DEF Same
    <3>8. Len(z) \in Nat
      BY <2>2, <3>4
    <3> QED BY <2>1, <2>2, <2>6, <3>2, <3>4, <3>5, <3>6, <3>7, <3>8
  <2> QED BY <2>5, <2>6
<1>5. PICK new : new = inbox'
  OBVIOUS
<1>6. PICK beyond : beyond = { s \in Spots(new, items) : s[2] \notin 1 .. n[s[1]] }
  OBVIOUS
<1>7. ASSUME NEW s \in beyond
      PROVE  \E k \in 1 .. Len(packets), i \in Nat :
               /\ packets[k] \in items /\ i \in 1 .. Len(come[s[1]])
               /\ s = <<OtherEnd(p, packets[k].socket), n[s[1]] + i>>
               /\ \A by : SelectsBy(packets, News(s[1]), come[s[1]], by) => by[i] = k
  <2>1. PICK q \in Processes, j \in Nat : s = <<q, j>>
    BY <1>6 DEF Spots
  <2>2. s[1] = q /\ s[2] = j /\ j \in 1 .. Len(new[q]) /\ new[q][j] \in items
        /\ j \notin 1 .. n[q]
    BY <1>6, <2>1 DEF Spots
  <2>3. PICK i \in Nat : i \in 1 .. Len(come[q]) /\ j = n[q] + i
    <3>1. j - n[q] \in Nat /\ j - n[q] \in 1 .. Len(come[q])
      BY <1>4, <1>5, <2>2
    <3>2. j = n[q] + (j - n[q])
      BY <1>4
    <3> QED BY <3>1, <3>2
  <2>4. come[q][i] \in items
    BY <1>4, <1>5, <2>2, <2>3
  <2>5. PICK by : SelectsBy(packets, News(q), come[q], by)
    BY <1>3
  <2>6. /\ by[i] \in 1 .. Len(packets) /\ packets[by[i]] = come[q][i]
        /\ packets[by[i]] \in News(q)
    BY <2>3, <2>5 DEF SelectsBy
  <2>7. OtherEnd(p, packets[by[i]].socket) = q
    BY <2>6 DEF News
  <2>8. ASSUME NEW b, SelectsBy(packets, News(q), come[q], b) PROVE b[i] = by[i]
    <3>1. b[i] \in 1 .. Len(packets) /\ packets[b[i]] = come[q][i]
      BY <2>3, <2>8 DEF SelectsBy
    <3> QED BY <2>4, <2>6, <3>1
  <2> QED BY <2>1, <2>2, <2>3, <2>4, <2>6, <2>7, <2>8
<1>8. ASSUME NEW s \in beyond, NEW t \in beyond PROVE s = t
  <2>1. PICK k \in 1 .. Len(packets), i \in Nat :
               /\ packets[k] \in items /\ i \in 1 .. Len(come[s[1]])
               /\ s = <<OtherEnd(p, packets[k].socket), n[s[1]] + i>>
               /\ \A by : SelectsBy(packets, News(s[1]), come[s[1]], by) => by[i] = k
    BY <1>7
  <2>2. PICK l \in 1 .. Len(packets), j \in Nat :
               /\ packets[l] \in items /\ j \in 1 .. Len(come[t[1]])
               /\ t = <<OtherEnd(p, packets[l].socket), n[t[1]] + j>>
               /\ \A by : SelectsBy(packets, News(t[1]), come[t[1]], by) => by[j] = l
    BY <1>7
  <2>3. k = l
    BY <2>1, <2>2
  <2>4. PICK q \in Processes : q = s[1] /\ q = t[1]
    <3>1. s[1] \in Processes
      BY <1>6 DEF Spots
    <3> QED BY <2>1, <2>2, <2>3, <3>1
  <2>5. PICK by : SelectsBy(packets, News(q), come[q], by)
    BY <1>3, <2>4
  <2>6. by[i] = by[j] /\ i \in 1 .. Len(come[q]) /\ j \in 1 .. Len(come[q])
    BY <2>1, <2>2, <2>3, <2>4, <2>5
  <2>7. by[i] \in 1 .. Len(packets) /\ Len(packets) \in Nat
    BY <2>5, <2>6, LenProperties DEF SelectsBy
  <2>8. ~(i < j) /\ ~(j < i)
    BY <2>5, <2>6, <2>7 DEF SelectsBy
  <2>9. i = j
    BY <2>8
  <2> QED BY <2>1, <2>2, <2>3, <2>4, <2>9
<1>9. PICK more \in {0, 1} : more = IF \E e \in ToSet(packets) : e \in items THEN 1 ELSE 0
  OBVIOUS
<1>10. PICK gone, added :
         /\ gone = IF taken = 1 THEN <<p, 1>> ELSE <<p, 0>>
         /\ added = CHOOSE s : s \in beyond
  OBVIOUS
<1>11. Moves(inbox, new, n, at, items, gone, added, more)
  <2>1. ASSUME NEW q \in Processes, NEW i \in 1 .. n[q] PROVE <<q, at[q][i]>> # gone
    BY <1>4, <1>10
  <2>2. ASSUME NEW s \in Spots(new, items), s[2] \notin 1 .. n[s[1]]
        PROVE  s = added /\ more = 1
    <3>1. s \in beyond
      BY <1>6, <2>2
    <3>2. added \in beyond
      BY <1>10, <3>1
    <3>3. PICK k \in 1 .. Len(packets) : packets[k] \in items
      BY <1>7, <3>1
    <3>4. packets[k] \in ToSet(packets)
      BY <3>3, ToSetFacts
    <3> QED BY <1>8, <1>9, <3>1, <3>2, <3>3, <3>4
  <2> QED BY <1>4, <1>5, <2>1, <2>2 DEF Moves
<1>12. Shifts(inbox, new, items, IF gone \in Spots(inbox, items) THEN 1 ELSE 0, more)
  BY <1>9, <1>11, SpotsMove
<1>13. gone \in Spots(inbox, items) <=> taken = 1 /\ Head(inbox[p]) \in items
  <2>1. CASE taken = 0
    <3>1. gone = <<p, 0>>
      BY <1>10, <2>1
    <3> QED BY <2>1, <3>1 DEF Spots
  <2>2. CASE taken = 1
    <3>1. PICK x \in Seq(Packets) : x = inbox[p]
      BY DEF Types, PacketTypes
    <3>2. x # <<>>
      BY <2>2, <3>1
    <3>3. Head(x) = x[1] /\ Len(x) \in Nat \ {0}
      BY <3>2, TailFacts
    <3>4. gone = <<p, 1>>
      BY <1>10, <2>2
    <3> QED BY <2>2, <3>1, <3>3, <3>4 DEF Spots
  <2> QED BY <2>1, <2>2
<1> QED BY <1>5, <1>9, <1>12, <1>13

\* One piece of a range at most is of a set, as are those of some requests for a file.
Meets(C, first, last) == \E c \in C : c \in first .. last
OneOf(items, f, C, first, last) ==
  /\ \A e \in items : e.file = f => e.piece \in C
  /\ \A c, d \in C : c \in first .. last /\ d \in first .. last => c = d

\* Of pieces that are queued to be read, one at most is of a set.
LEMMA SpotsRead ==
  ASSUME FileTransferAssumption, Types, NEW p \in Processes, NEW s \in Sockets, NEW f \in Files,
         NEW first \in Indices, NEW last \in Indices, first <= last,
         ReadPieces(p, s, f, first, last),
         NEW items, IsFiniteSet(Spots(reads, items)), NEW C \in SUBSET Nat,
         OneOf(items, f, C, first, last)
  PROVE  Shifts(reads, reads', items, 0, IF Meets(C, first, last) THEN 1 ELSE 0)
<1>0. /\ \A e \in items : e.file = f => e.piece \in C
      /\ \A c, d \in C : c \in first .. last /\ d \in first .. last => c = d
  BY DEF OneOf
<1>1. PICK count \in Nat : count = last - first + 1
  BY IndicesAreNumbers
<1>2. first \in Nat /\ last \in Nat /\ readId[p] \in Nat
  BY IndicesAreNumbers DEF Types, WorkTypes
<1>3. PICK id \in Nat : id = readId[p]
  BY <1>2
<1> DEFINE news == [n \in 1 .. count |->
                     [id |-> id + n - 1, file |-> f, piece |-> first + n - 1]]
<1>4. reads' = [reads EXCEPT ![p] = @ \o news]
  BY <1>1, <1>3 DEF ReadPieces
<1>5. PICK x \in Seq(ReadRequest) : x = reads[p]
  BY DEF Types, WorkTypes
<1>6. PICK any : any = { news[n] : n \in 1 .. count } \cup ReadRequest
  OBVIOUS
<1>7. news \in Seq(any) /\ Len(news) = count /\ x \in Seq(any)
  <2>1. news \in [1 .. count -> any]
    BY <1>6
  <2>2. news \in Seq(any) /\ Len(news) = count
    BY <2>1, SeqDef
  <2>3. x \in Seq(any)
    BY <1>6
  <2> QED BY <2>2, <2>3
<1>8. PICK k \in Seq(any) : k = news
  BY <1>7
<1>9. \A i \in 1 .. count : k[i].file = f /\ k[i].piece = first + i - 1
  BY <1>8
<1> HIDE DEF news
<1>10. PICK z : z = x \o k
  OBVIOUS
<1>11. /\ Len(z) = Len(x) + count /\ Len(x) \in Nat /\ z \in Seq(any)
       /\ \A i \in 1 .. Len(x) : z[i] = x[i]
       /\ \A i \in 1 .. count : z[Len(x) + i] = k[i]
  <2>1. PICK y \in Seq(any) : y = x
    BY <1>7
  <2>2. PICK w : w = y \o k
    OBVIOUS
  <2>3. /\ w \in Seq(any) /\ Len(w) = Len(y) + Len(k) /\ Len(y) \in Nat
        /\ \A i \in 1 .. Len(y) : w[i] = y[i]
        /\ \A i \in 1 .. Len(k) : w[Len(y) + i] = k[i]
    BY <2>2, ConcatFacts
  <2>4. w = z /\ Len(k) = count
    BY <1>7, <1>8, <1>10, <2>1, <2>2
  <2> QED BY <2>1, <2>3, <2>4
<1>12. PICK new : new = reads'
  OBVIOUS
<1>13. new[p] = z /\ \A q \in Processes : q # p => new[q] = reads[q]
  BY <1>4, <1>5, <1>8, <1>10, <1>12 DEF Types, WorkTypes
<1>14. PICK n, at : /\ n = [q \in Processes |-> Len(reads[q])]
                    /\ at = [q \in Processes |-> Same(reads[q])]
  OBVIOUS
<1>15. PICK more \in {0, 1} : more = IF Meets(C, first, last) THEN 1 ELSE 0
  OBVIOUS
<1>16. PICK gone, added :
         /\ gone = <<p, 0>>
         /\ added = <<p, Len(x) + (CHOOSE c : c \in C /\ c \in first .. last) - first + 1>>
  OBVIOUS
<1>17. ASSUME NEW q \in Processes
       PROVE  /\ Continues(reads[q], new[q], n[q], at[q])
              /\ Len(reads[q]) \in Nat /\ Len(new[q]) \in Nat
              /\ \A i \in 1 .. n[q] : <<q, at[q][i]>> # gone
  <2>1. PICK y \in Seq(ReadRequest) : y = reads[q]
    BY DEF Types, WorkTypes
  <2>2. Len(y) \in Nat
    BY LenProperties
  <2>3. n[q] = Len(y) /\ at[q] = Same(y)
    BY <1>14, <2>1
  <2>4. \A i \in 1 .. n[q] : <<q, at[q][i]>> # gone
    BY <1>16, <2>2, <2>3 DEF Same
  <2>5. CASE q = p
    <3>1. Continues(x, z, Len(x), Same(x)) /\ Len(z) \in Nat
      BY <1>11 DEF Continues, Same
    <3> QED BY <1>5, <1>13, <2>1, <2>2, <2>3, <2>4, <2>5, <3>1
  <2>6. CASE q # p
    <3>1. new[q] = y
      BY <1>13, <2>1, <2>6
    <3> QED BY <2>1, <2>2, <2>3, <2>4, <3>1, SameContinues
  <2> QED BY <2>5, <2>6
<1>18. ASSUME NEW t \in Spots(new, items), t[2] \notin 1 .. n[t[1]]
       PROVE  t = added /\ more = 1
  <2>1. PICK q \in Processes, j \in Nat : t = <<q, j>>
    BY DEF Spots
  <2>2. t[1] = q /\ t[2] = j /\ j \in 1 .. Len(new[q]) /\ new[q][j] \in items
    BY <2>1 DEF Spots
  <2>3. j \notin 1 .. Len(reads[q])
    BY <1>14, <1>18, <2>2
  <2>4. q = p
    BY <1>13, <2>2, <2>3
  <2>5. j \in 1 .. Len(x) + count /\ j \notin 1 .. Len(x)
    BY <1>5, <1>11, <1>13, <2>2, <2>3, <2>4
  <2>6. PICK i \in 1 .. count : j = Len(x) + i
    <3>1. j - Len(x) \in 1 .. count /\ j = Len(x) + (j - Len(x))
      BY <1>11, <2>5
    <3> QED BY <3>1
  <2>7. k[i] \in items
    BY <1>11, <1>13, <2>2, <2>4, <2>6
  <2>8. PICK c : c = first + i - 1
    OBVIOUS
  <2>9. c \in C /\ c \in first .. last /\ i = c - first + 1 /\ c \in Nat
    <3>1. c \in C
      BY <1>0, <1>9, <2>7, <2>8
    <3>2. c \in first .. last /\ i = c - first + 1 /\ c \in Nat
      BY <1>1, <1>2, <2>8
    <3> QED BY <3>1, <3>2
  <2>10. (CHOOSE d : d \in C /\ d \in first .. last) = c
    BY <1>0, <2>9
  <2>11. added = <<p, Len(x) + c - first + 1>>
    BY <1>16, <2>10
  <2>12. j = Len(x) + c - first + 1
    BY <1>2, <1>11, <2>6, <2>9
  <2>13. Meets(C, first, last)
    BY <2>9 DEF Meets
  <2> QED BY <1>15, <2>1, <2>4, <2>11, <2>12, <2>13
<1>19. Moves(reads, new, n, at, items, gone, added, more)
  BY <1>17, <1>18 DEF Moves
<1>20. Shifts(reads, new, items, IF gone \in Spots(reads, items) THEN 1 ELSE 0, more)
  BY <1>15, <1>19, SpotsMove
<1>21. gone \notin Spots(reads, items)
  BY <1>16 DEF Spots
<1> QED BY <1>12, <1>15, <1>20, <1>21

\* A packet is lost.
LEMMA SpotsLose ==
  ASSUME NEW S, NEW old \in [Processes -> Seq(S)], NEW p \in Processes, NEW k \in 1 .. Len(old[p]),
         NEW new, new = [old EXCEPT ![p] = RemoveAt(@, k)],
         NEW items, IsFiniteSet(Spots(old, items))
  PROVE  Shifts(old, new, items, 0, 0)
<1>1. PICK x \in Seq(S) : x = old[p]
  OBVIOUS
<1>2. PICK along : Continues(x, RemoveAt(x, k), Len(RemoveAt(x, k)), along)
  BY <1>1, RemoveContinues
<1>3. RemoveAt(x, k) \in Seq(S)
  BY <1>1, RemoveContinues
<1>4. new[p] = RemoveAt(x, k) /\ \A q \in Processes : q # p => new[q] = old[q]
  BY <1>1
<1>5. PICK n, at : /\ n = [q \in Processes |-> Len(new[q])]
                   /\ at = [q \in Processes |-> IF q = p THEN along ELSE Same(old[q])]
  OBVIOUS
<1>6. PICK gone : gone = <<p, 0>>
  OBVIOUS
<1>7. ASSUME NEW q \in Processes
      PROVE  /\ Continues(old[q], new[q], n[q], at[q])
             /\ Len(old[q]) \in Nat /\ Len(new[q]) \in Nat
  <2>1. CASE q = p
    <3>1. PICK y \in Seq(S) : y = RemoveAt(x, k)
      BY <1>3
    <3>2. Len(x) \in Nat /\ Len(y) \in Nat
      BY LenProperties
    <3> QED BY <1>1, <1>2, <1>4, <1>5, <2>1, <3>1, <3>2
  <2>2. CASE q # p
    <3>1. old[q] \in Seq(S)
      OBVIOUS
    <3> QED BY <1>4, <1>5, <2>2, <3>1, SameContinues
  <2> QED BY <2>1, <2>2
<1>8. ASSUME NEW q \in Processes, NEW i \in 1 .. n[q] PROVE <<q, at[q][i]>> # gone
  <2>1. at[q] \in [1 .. n[q] -> 1 .. Len(old[q])] /\ Len(old[q]) \in Nat
    BY <1>7 DEF Continues
  <2>2. at[q][i] \in 1 .. Len(old[q])
    BY <2>1
  <2>3. at[q][i] # 0
    BY <2>1, <2>2
  <2> QED BY <1>6, <2>3
<1>9. \A s \in Spots(new, items) : s[2] \in 1 .. n[s[1]]
  BY <1>5 DEF Spots
<1>10. Moves(old, new, n, at, items, gone, gone, 0)
  BY <1>7, <1>8, <1>9 DEF Moves
<1>11. Shifts(old, new, items, IF gone \in Spots(old, items) THEN 1 ELSE 0, 0)
  BY <1>10, SpotsMove
<1>12. gone \notin Spots(old, items)
  BY <1>6 DEF Spots
<1> QED BY <1>11, <1>12

-----------------------------------------------------------------------------
(* Chains of pieces                                                        *)

\* The window that is asked for when a piece is verified that ends one.
NextWindow(a) ==
  IF a = 0 THEN 1 .. 2 * PiecesInOneRequest
           ELSE a + PiecesInOneRequest + 1 .. a + 2 * PiecesInOneRequest

\* Pieces that are asked for one after the other: of a window that a piece leads to at most
\* one, and then that piece, too.
Chains ==
  { C \in SUBSET Nat :
      \A a \in Nat : a % PiecesInOneRequest = 0 =>
        \A c \in C : c \in NextWindow(a) =>
          a \in C /\ \A d \in C : d \in NextWindow(a) => d = c }

LEMMA MultiplesApart ==
  ASSUME NEW P \in Nat \ {0}, NEW a \in Nat, NEW b \in Nat, a % P = 0, b % P = 0, a < b
  PROVE  a + P <= b
<1>1. PICK i \in Nat, j \in Nat : a = i * P /\ b = j * P
  <2>1. ASSUME NEW c \in Nat, c % P = 0 PROVE \E i \in Nat : c = i * P
    BY <2>1
  <2> QED BY <2>1
<1>3. a = P * i /\ b = P * j
  BY <1>1
<1>4. i < j
  BY <1>3
<1>5. PICK d \in Nat : j = i + 1 + d
  <2>1. j - i - 1 \in Nat /\ j = i + 1 + (j - i - 1)
    BY <1>4
  <2> QED BY <2>1
<1>6. b = a + P + P * d /\ P * d >= 0
  BY <1>3, <1>5
<1> QED BY <1>6

LEMMA WindowsApart ==
  ASSUME FileTransferAssumption, NEW a \in Nat, NEW b \in Nat,
         a % PiecesInOneRequest = 0, b % PiecesInOneRequest = 0,
         NEW c \in NextWindow(a), c \in NextWindow(b)
  PROVE  a = b /\ a < c
<1>1. PICK P \in Nat \ {0} : P = PiecesInOneRequest
  BY DEF FileTransferAssumption
<1>2. 0 % P = 0
  BY <1>1
<1>3. ASSUME NEW x \in Nat, NEW y \in Nat, x % P = 0, y % P = 0, x < y,
             c \in NextWindow(x), c \in NextWindow(y)
      PROVE  FALSE
  <2>1. x + P <= y
    BY <1>3, MultiplesApart
  <2>2. c \in y + P + 1 .. y + 2 * P
    BY <1>1, <1>3 DEF NextWindow
  <2>3. c \in 1 .. 2 * P \/ c \in x + P + 1 .. x + 2 * P
    BY <1>1, <1>3 DEF NextWindow
  <2>4. CASE c \in 1 .. 2 * P
    <3>1. 0 + P <= y
      <4>1. 0 \in Nat /\ 0 < y
        BY <1>3
      <4> QED BY <1>2, <1>3, <4>1, MultiplesApart
    <3> QED BY <2>2, <2>4, <3>1
  <2>5. CASE c \in x + P + 1 .. x + 2 * P
    BY <2>1, <2>2, <2>5
  <2> QED BY <2>3, <2>4, <2>5
<1>4. ~(a < b) /\ ~(b < a)
  BY <1>1, <1>3
<1>5. a < c
  BY <1>1 DEF NextWindow
<1> QED BY <1>4, <1>5

\* Every piece is the last of a chain.
LEMMA ChainTo ==
  ASSUME FileTransferAssumption
  PROVE  \A k \in Nat : \E C \in Chains : k \in C
<1> DEFINE HasChain(k) == \E C \in Chains : k \in C /\ C \subseteq 0 .. k
           Q == { n \in Nat : \A k \in 0 .. n : HasChain(k) }
<1>1. ASSUME NEW k \in Nat, \A i \in Nat : i < k => HasChain(i) PROVE HasChain(k)
  <2>1. CASE \E a \in Nat : a % PiecesInOneRequest = 0 /\ k \in NextWindow(a)
    <3>1. PICK a \in Nat : a % PiecesInOneRequest = 0 /\ k \in NextWindow(a)
      BY <2>1
    <3>2. a < k
      BY <3>1, WindowsApart
    <3>3. PICK D \in Chains : a \in D /\ D \subseteq 0 .. a
      BY <1>1, <3>2
    <3>4. PICK C \in SUBSET Nat : C = D \cup {k}
      BY DEF Chains
    <3>5. ASSUME NEW b \in Nat, b % PiecesInOneRequest = 0, NEW c \in C, c \in NextWindow(b)
          PROVE  b \in C /\ \A d \in C : d \in NextWindow(b) => d = c
      <4>1. CASE c = k
        <5>1. b = a
          BY <3>1, <3>5, <4>1, WindowsApart
        <5>2. ASSUME NEW d \in C, d \in NextWindow(b) PROVE d = c
          <6>1. a < d /\ d \in Nat
            BY <3>5, <5>1, <5>2, WindowsApart
          <6> QED BY <3>3, <3>4, <4>1, <6>1
        <5> QED BY <3>3, <3>4, <5>1, <5>2
      <4>2. CASE c # k
        <5>1. c \in D
          BY <3>4, <4>2
        <5>2. b \in D /\ \A d \in D : d \in NextWindow(b) => d = c
          BY <3>5, <5>1 DEF Chains
        <5>3. k \notin NextWindow(b)
          <6>1. SUFFICES ASSUME k \in NextWindow(b) PROVE FALSE
            OBVIOUS
          <6>2. b = a
            BY <3>1, <3>5, <6>1, WindowsApart
          <6>3. a < c /\ c \in Nat
            BY <3>5, <6>2, WindowsApart
          <6> QED BY <3>3, <5>1, <6>3
        <5> QED BY <3>4, <5>2, <5>3
      <4> QED BY <4>1, <4>2
    <3>6. C \in Chains
      BY <3>5 DEF Chains
    <3>7. k \in C /\ C \subseteq 0 .. k
      BY <3>2, <3>3, <3>4
    <3> QED BY <3>6, <3>7
  <2>2. CASE ~ \E a \in Nat : a % PiecesInOneRequest = 0 /\ k \in NextWindow(a)
    <3>1. {k} \in Chains
      BY <2>2 DEF Chains
    <3> QED BY <3>1
  <2> QED BY <2>1, <2>2
<1> HIDE DEF HasChain
<1>2. 0 \in Q
  <2>1. HasChain(0)
    BY <1>1
  <2> QED BY <2>1
<1>3. ASSUME NEW n \in Q PROVE n + 1 \in Q
  <2>1. n \in Nat /\ \A k \in 0 .. n : HasChain(k)
    OBVIOUS
  <2>2. HasChain(n + 1)
    <3>1. \A i \in Nat : i < n + 1 => HasChain(i)
      BY <2>1
    <3> QED BY <1>1, <2>1, <3>1
  <2>3. \A k \in 0 .. n + 1 : HasChain(k)
    BY <2>1, <2>2
  <2> QED BY <2>1, <2>3
<1>4. Q = Nat
  <2>1. Q \in SUBSET Nat
    OBVIOUS
  <2> HIDE DEF Q
  <2> QED BY <1>2, <1>3, <2>1, SetInduction
<1>5. ASSUME NEW k \in Nat PROVE \E C \in Chains : k \in C
  <2>1. k \in Q
    BY <1>4
  <2>2. HasChain(k)
    BY <2>1
  <2> QED BY <2>2 DEF HasChain
<1> QED BY <1>5

-----------------------------------------------------------------------------
(* What is on its way of a chain                                           *)

\* What asks for a transfer, and what brings a piece.
Asks == {"upload", "download", "accepted"}
Brings == Asks \cup {"request", "data"}

\* The packets, requests and signals that are about a chain of pieces of a file, and the
\* packets that ask for the file.
Bringing(f, C) ==
  { e \in Packets :
      /\ e.file = f
      /\ \/ e.type \in Asks
         \/ e.type = "request" /\ \E c \in C : c \in e.first .. e.last
         \/ e.type = "data" /\ e.piece \in C }
Reading(f, C)    == { e \in ReadRequest : e.file = f /\ e.piece \in C }
Writing(f, C)    == { e \in Writes : e.file = f /\ e.piece \in C }
Signalling(f, C) == { e \in Signals : e.file = f /\ e.piece \in C }

\* There are no more of them than transfers of the file were asked for.
Limited(f, C) ==
  /\ IsFiniteSet(Spots(inbox, Bringing(f, C))) /\ IsFiniteSet(Spots(reads, Reading(f, C)))
  /\ IsFiniteSet(Spots(writes, Writing(f, C))) /\ IsFiniteSet(Spots(signals, Signalling(f, C)))
  /\ Cardinality(Spots(inbox, Bringing(f, C))) + Cardinality(Spots(reads, Reading(f, C)))
       + Cardinality(Spots(writes, Writing(f, C)))
       + Cardinality(Spots(signals, Signalling(f, C))) <= asks[f]

\* A request asks for one piece of a chain at most.
Single(e) ==
  \A C \in Chains : \A c, d \in C : c \in e.first .. e.last /\ d \in e.first .. e.last => c = d

Thin == \A f \in Files, C \in Chains : Limited(f, C)
Singles == \A p \in Processes : \A e \in ToSet(inbox[p]) : e.type = "request" => Single(e)
Flow == Thin /\ Singles

\* What comes is no more than what goes, or was asked for now.
LEMMA LimitKept ==
  ASSUME NEW f, NEW C, Limited(f, C), asks[f] \in Nat, asks[f]' \in Nat,
         NEW i \in {0, 1}, NEW r \in {0, 1}, NEW w \in {0, 1}, NEW s \in {0, 1},
         NEW j \in {0, 1}, NEW t \in {0, 1}, NEW x \in {0, 1}, NEW u \in {0, 1},
         Shifts(inbox, inbox', Bringing(f, C), i, j),
         Shifts(reads, reads', Reading(f, C), r, t),
         Shifts(writes, writes', Writing(f, C), w, x),
         Shifts(signals, signals', Signalling(f, C), s, u),
         j + t + x + u + asks[f] <= i + r + w + s + asks[f]'
  PROVE  Limited(f, C)'
<1>1. PICK a, b, c, d : /\ a = Cardinality(Spots(inbox, Bringing(f, C)))
                        /\ b = Cardinality(Spots(reads, Reading(f, C)))
                        /\ c = Cardinality(Spots(writes, Writing(f, C)))
                        /\ d = Cardinality(Spots(signals, Signalling(f, C)))
  OBVIOUS
<1>2. a \in Nat /\ b \in Nat /\ c \in Nat /\ d \in Nat /\ a + b + c + d <= asks[f]
  BY <1>1, FS_CardinalityType DEF Limited
<1>3. PICK k, l, m, n : /\ k = Cardinality(Spots(inbox', Bringing(f, C)))
                        /\ l = Cardinality(Spots(reads', Reading(f, C)))
                        /\ m = Cardinality(Spots(writes', Writing(f, C)))
                        /\ n = Cardinality(Spots(signals', Signalling(f, C)))
  OBVIOUS
<1>4. /\ k \in Nat /\ l \in Nat /\ m \in Nat /\ n \in Nat
      /\ k + i <= a + j /\ l + r <= b + t /\ m + w <= c + x /\ n + s <= d + u
  BY <1>1, <1>3 DEF Shifts
<1>5. k + l + m + n <= asks[f]'
  BY <1>2, <1>4
<1>6. /\ IsFiniteSet(Spots(inbox', Bringing(f, C))) /\ IsFiniteSet(Spots(reads', Reading(f, C)))
      /\ IsFiniteSet(Spots(writes', Writing(f, C)))
      /\ IsFiniteSet(Spots(signals', Signalling(f, C)))
  BY DEF Shifts
<1>7. /\ IsFiniteSet(Spots(inbox, Bringing(f, C)))' /\ IsFiniteSet(Spots(reads, Reading(f, C)))'
      /\ IsFiniteSet(Spots(writes, Writing(f, C)))'
      /\ IsFiniteSet(Spots(signals, Signalling(f, C)))'
  BY <1>6
<1>8. (Cardinality(Spots(inbox, Bringing(f, C))) + Cardinality(Spots(reads, Reading(f, C)))
       + Cardinality(Spots(writes, Writing(f, C)))
       + Cardinality(Spots(signals, Signalling(f, C))) <= asks[f])'
  BY <1>3, <1>5
<1> QED BY <1>7, <1>8 DEF Limited

LEMMA SinglesKept ==
  ASSUME Singles,
         \A q \in Processes : \A e \in ToSet(inbox[q]') :
           e \in ToSet(inbox[q]) \/ (e.type = "request" => Single(e))
  PROVE  Singles'
BY DEF Singles

\* Finite places, and queues that do not change.
LEMMA FiniteSpots ==
  ASSUME Flow, NEW f \in Files, NEW C \in Chains
  PROVE  /\ Limited(f, C)
         /\ IsFiniteSet(Spots(inbox, Bringing(f, C))) /\ IsFiniteSet(Spots(reads, Reading(f, C)))
         /\ IsFiniteSet(Spots(writes, Writing(f, C)))
         /\ IsFiniteSet(Spots(signals, Signalling(f, C)))
         /\ inbox' = inbox => Shifts(inbox, inbox', Bringing(f, C), 0, 0)
         /\ reads' = reads => Shifts(reads, reads', Reading(f, C), 0, 0)
         /\ writes' = writes => Shifts(writes, writes', Writing(f, C), 0, 0)
         /\ signals' = signals => Shifts(signals, signals', Signalling(f, C), 0, 0)
<1>1. /\ Limited(f, C)
      /\ IsFiniteSet(Spots(inbox, Bringing(f, C))) /\ IsFiniteSet(Spots(reads, Reading(f, C)))
      /\ IsFiniteSet(Spots(writes, Writing(f, C)))
      /\ IsFiniteSet(Spots(signals, Signalling(f, C)))
  BY DEF Flow, Thin, Limited
<1> QED BY <1>1, SpotsStay

LEMMA AsksAreNumbers ==
  ASSUME FileTransferAssumption, Types, NEW f \in Files
  PROVE  asks[f] \in Nat
BY DEF FileTransferAssumption, Types, FileTypes

\* No queue changes.
LEMMA FlowStays ==
  ASSUME FileTransferAssumption, Types, Flow, UNCHANGED <<inbox, reads, writes, signals, asks>>
  PROVE  Flow'
<1>1. ASSUME NEW f \in Files, NEW C \in Chains PROVE Limited(f, C)'
  BY FiniteSpots, AsksAreNumbers DEF Limited
<1>2. Singles'
  BY SinglesKept DEF Flow
<1> QED BY <1>1, <1>2 DEF Flow, Thin

\* A packet is answered with at most one packet that brings pieces.
LEMMA FlowAnswers ==
  ASSUME FileTransferAssumption, Types, Types', Flow, NEW p \in Processes, NEW taken \in {0, 1},
         taken = 1 => inbox[p] # <<>>, NEW packets \in Seq(Packets), Exchange(p, taken, packets),
         UNCHANGED <<reads, writes, signals>>,
         \A f \in Files : asks[f]' = asks[f] \/ asks[f]' = asks[f] + 1,
         \A i, j \in 1 .. Len(packets) :
           packets[i].type \in Brings /\ packets[j].type \in Brings => i = j,
         \A e \in ToSet(packets) : e.type \in Brings =>
           /\ e.type = "request" => Single(e)
           /\ \/ asks[e.file]' = asks[e.file] + 1
              \/ /\ taken = 1 /\ Head(inbox[p]).type \in Asks
                 /\ Head(inbox[p]).file = e.file
  PROVE  Flow'
<1>1. Exchanged(p, packets)
  BY ExchangeFacts
<1>2. Singles'
  <2>1. \A q \in Processes : \A e \in ToSet(inbox[q]') :
          e \in ToSet(inbox[q]) \/ (e.type = "request" => Single(e))
    BY <1>1 DEF Exchanged, Brings
  <2> QED BY <2>1, SinglesKept DEF Flow
<1>3. ASSUME NEW f \in Files, NEW C \in Chains PROVE Limited(f, C)'
  <2>1. PICK B : B = Bringing(f, C)
    OBVIOUS
  <2>2. \A e \in B : e.type \in Brings /\ e.file = f
    BY <2>1 DEF Bringing, Brings
  <2>3. \A i, j \in 1 .. Len(packets) : packets[i] \in B /\ packets[j] \in B => i = j
    BY <2>2
  <2>4. PICK i \in {0, 1}, j \in {0, 1} :
          /\ i = IF taken = 1 /\ Head(inbox[p]) \in B THEN 1 ELSE 0
          /\ j = IF \E e \in ToSet(packets) : e \in B THEN 1 ELSE 0
    OBVIOUS
  <2>5. Shifts(inbox, inbox', B, i, j)
    <3>1. IsFiniteSet(Spots(inbox, B))
      BY <2>1, FiniteSpots
    <3>2. Shifts(inbox, inbox', B,
                 IF taken = 1 /\ Head(inbox[p]) \in B THEN 1 ELSE 0,
                 IF \E e \in ToSet(packets) : e \in B THEN 1 ELSE 0)
      BY <2>3, <3>1, SpotsExchange
    <3> QED BY <2>4, <3>2
  <2>6. j + asks[f] <= i + asks[f]'
    <3>1. asks[f] \in Nat /\ asks[f]' \in Nat
      BY AsksAreNumbers, FileTransferAssumption DEF Types, FileTypes
    <3>2. CASE j = 0
      BY <2>4, <3>1, <3>2
    <3>3. CASE j = 1
      <4>1. PICK e \in ToSet(packets) : e \in B
        BY <2>4, <3>3
      <4>2. CASE asks[f]' = asks[f] + 1
        BY <2>4, <3>1, <3>3, <4>2
      <4>3. CASE taken = 1 /\ Head(inbox[p]).type \in Asks /\ Head(inbox[p]).file = f
        <5>1. Head(inbox[p]) \in Packets
          <6>1. PICK q \in Seq(Packets) : q = inbox[p]
            BY DEF Types, PacketTypes
          <6>2. Head(q) \in ToSet(q) /\ ToSet(q) \subseteq Packets
            BY <4>3, <6>1, ToSetOf
          <6> QED BY <6>1, <6>2
        <5>2. Head(inbox[p]) \in B
          BY <2>1, <4>3, <5>1 DEF Bringing
        <5>3. i = 1
          BY <2>4, <4>3, <5>2
        <5> QED BY <3>1, <3>3, <5>3
      <4> QED BY <2>2, <4>1, <4>2, <4>3
    <3> QED BY <3>2, <3>3
  <2>7. /\ Limited(f, C) /\ Shifts(reads, reads', Reading(f, C), 0, 0)
        /\ Shifts(writes, writes', Writing(f, C), 0, 0)
        /\ Shifts(signals, signals', Signalling(f, C), 0, 0)
    BY FiniteSpots
  <2>8. asks[f] \in Nat /\ asks[f]' \in Nat
    BY AsksAreNumbers, FileTransferAssumption DEF Types, FileTypes
  <2>9. j + 0 + 0 + 0 + asks[f] <= i + 0 + 0 + 0 + asks[f]'
    BY <2>6, <2>8
  <2>10. Shifts(inbox, inbox', Bringing(f, C), i, j)
    BY <2>1, <2>5
  <2> QED BY <2>7, <2>8, <2>9, <2>10, LimitKept
<1> QED BY <1>2, <1>3 DEF Flow, Thin

\* Nothing comes to any inbox that asks for more than one piece of a chain.
LEMMA SinglesStay ==
  ASSUME Singles, \A q \in Processes : ToSet(inbox[q]') \subseteq ToSet(inbox[q])
  PROVE  Singles'
<1>1. \A q \in Processes : \A e \in ToSet(inbox[q]') :
        e \in ToSet(inbox[q]) \/ (e.type = "request" => Single(e))
  OBVIOUS
<1> QED BY <1>1, SinglesKept

\* A signal is taken, and what is sent is about its piece or the one that it leads to.
LEMMA FlowSignals ==
  ASSUME FileTransferAssumption, Types, Types', Flow, NEW p \in Processes,
         signals[p] # <<>>, TakeSignal(p), UNCHANGED <<reads, writes, asks>>,
         NEW packets \in Seq(Packets), Exchange(p, 0, packets),
         \A i, j \in 1 .. Len(packets) :
           packets[i].type \in Brings /\ packets[j].type \in Brings => i = j,
         \A e \in ToSet(packets) : e.type \in Brings =>
           /\ e.type = "request" => Single(e)
           /\ \A f \in Files, C \in Chains : e \in Bringing(f, C) =>
                Head(signals[p]).file = f /\ Head(signals[p]).piece \in C
  PROVE  Flow'
<1>1. Exchanged(p, packets)
  BY ExchangeFacts
<1>2. Singles'
  <2>1. \A q \in Processes : \A e \in ToSet(inbox[q]') :
          e \in ToSet(inbox[q]) \/ (e.type = "request" => Single(e))
    BY <1>1 DEF Exchanged, Brings
  <2> QED BY <2>1, SinglesKept DEF Flow
<1>3. signals \in [Processes -> Seq(Signals)] /\ signals' = [signals EXCEPT ![p] = Tail(@)]
  BY DEF Types, WorkTypes, TakeSignal
<1>4. Head(signals[p]) \in Signals
  <2>1. PICK q \in Seq(Signals) : q = signals[p]
    BY <1>3
  <2>2. Head(q) \in ToSet(q) /\ ToSet(q) \subseteq Signals
    BY <2>1, ToSetOf
  <2> QED BY <2>1, <2>2
<1>5. ASSUME NEW f \in Files, NEW C \in Chains PROVE Limited(f, C)'
  <2>1. PICK B, T : B = Bringing(f, C) /\ T = Signalling(f, C)
    OBVIOUS
  <2>2. \A e \in B : e.type \in Brings
    BY <2>1 DEF Bringing, Brings
  <2>3. \A i, j \in 1 .. Len(packets) : packets[i] \in B /\ packets[j] \in B => i = j
    BY <2>2
  <2>4. PICK s \in {0, 1}, j \in {0, 1} :
          /\ s = IF Head(signals[p]) \in T THEN 1 ELSE 0
          /\ j = IF \E e \in ToSet(packets) : e \in B THEN 1 ELSE 0
    OBVIOUS
  <2>5. IsFiniteSet(Spots(inbox, B)) /\ IsFiniteSet(Spots(signals, T))
    BY <2>1, FiniteSpots
  <2>6. Shifts(inbox, inbox', B, 0, j)
    <3>1. inbox[p] # <<>> \/ 0 # 1
      OBVIOUS
    <3>2. Shifts(inbox, inbox', B,
                 IF 0 = 1 /\ Head(inbox[p]) \in B THEN 1 ELSE 0,
                 IF \E e \in ToSet(packets) : e \in B THEN 1 ELSE 0)
      BY <2>3, <2>5, <3>1, SpotsExchange
    <3> QED BY <2>4, <3>2
  <2>7. Shifts(signals, signals', T, s, 0)
    <3>1. Shifts(signals, signals', T, IF Head(signals[p]) \in T THEN 1 ELSE 0, 0)
      BY <1>3, <2>5, SpotsTail
    <3> QED BY <2>4, <3>1
  <2>8. j <= s
    <3>1. ASSUME j = 1 PROVE s = 1
      <4>1. PICK e \in ToSet(packets) : e \in B
        BY <2>4, <3>1
      <4>2. Head(signals[p]).file = f /\ Head(signals[p]).piece \in C
        BY <2>1, <2>2, <4>1
      <4>3. Head(signals[p]) \in T
        BY <1>4, <2>1, <4>2 DEF Signalling
      <4> QED BY <2>4, <4>3
    <3> QED BY <2>4, <3>1
  <2>9. /\ Limited(f, C) /\ Shifts(reads, reads', Reading(f, C), 0, 0)
        /\ Shifts(writes, writes', Writing(f, C), 0, 0)
    BY FiniteSpots
  <2>10. asks[f] \in Nat /\ asks[f]' \in Nat
    BY AsksAreNumbers
  <2>11. j + 0 + 0 + 0 + asks[f] <= 0 + 0 + 0 + s + asks[f]'
    BY <2>8, <2>10
  <2>12. Shifts(inbox, inbox', Bringing(f, C), 0, j)
         /\ Shifts(signals, signals', Signalling(f, C), s, 0)
    BY <2>1, <2>6, <2>7
  <2> QED BY <2>9, <2>10, <2>11, <2>12, LimitKept
<1> QED BY <1>2, <1>5 DEF Flow, Thin

\* A signal is taken, and nothing is sent.
LEMMA FlowSilent ==
  ASSUME FileTransferAssumption, Types, Flow, NEW p \in Processes,
         signals[p] # <<>>, TakeSignal(p), UNCHANGED <<inbox, reads, writes, asks>>
  PROVE  Flow'
<1>1. signals \in [Processes -> Seq(Signals)] /\ signals' = [signals EXCEPT ![p] = Tail(@)]
  BY DEF Types, WorkTypes, TakeSignal
<1>2. ASSUME NEW f \in Files, NEW C \in Chains PROVE Limited(f, C)'
  <2>1. PICK s \in {0, 1} : s = IF Head(signals[p]) \in Signalling(f, C) THEN 1 ELSE 0
    OBVIOUS
  <2>2. Shifts(signals, signals', Signalling(f, C), s, 0)
    <3>1. IsFiniteSet(Spots(signals, Signalling(f, C)))
      BY FiniteSpots
    <3>2. Shifts(signals, signals', Signalling(f, C),
                 IF Head(signals[p]) \in Signalling(f, C) THEN 1 ELSE 0, 0)
      BY <1>1, <3>1, SpotsTail
    <3> QED BY <2>1, <3>2
  <2>3. /\ Limited(f, C) /\ Shifts(inbox, inbox', Bringing(f, C), 0, 0)
        /\ Shifts(reads, reads', Reading(f, C), 0, 0)
        /\ Shifts(writes, writes', Writing(f, C), 0, 0)
    BY FiniteSpots
  <2>4. asks[f] \in Nat /\ asks[f]' \in Nat
    BY AsksAreNumbers
  <2>5. 0 + 0 + 0 + 0 + asks[f] <= 0 + 0 + 0 + s + asks[f]'
    BY <2>4
  <2> QED BY <2>2, <2>3, <2>4, <2>5, LimitKept
<1>3. Singles'
  BY SinglesStay DEF Flow
<1> QED BY <1>2, <1>3 DEF Flow, Thin

\* The packet at the head of an inbox goes.
LEMMA PacketTaken ==
  ASSUME FileTransferAssumption, Types, Flow, NEW p \in Processes, inbox[p] # <<>>,
         Exchange(p, 1, <<>>), NEW f \in Files, NEW C \in Chains
  PROVE  Shifts(inbox, inbox', Bringing(f, C),
                IF Head(inbox[p]) \in Bringing(f, C) THEN 1 ELSE 0, 0)
<1>1. PICK none \in Seq(Packets) : none = <<>>
  BY NoElement
<1>2. Len(none) = 0 /\ ToSet(none) = {}
  BY <1>1, NoElement
<1>3. PICK B : B = Bringing(f, C)
  OBVIOUS
<1>4. IsFiniteSet(Spots(inbox, B)) /\ Exchange(p, 1, none)
  BY <1>1, <1>3, FiniteSpots
<1>5. \A i, j \in 1 .. Len(none) : none[i] \in B /\ none[j] \in B => i = j
  BY <1>2
<1>6. Shifts(inbox, inbox', B, IF 1 = 1 /\ Head(inbox[p]) \in B THEN 1 ELSE 0,
             IF \E e \in ToSet(none) : e \in B THEN 1 ELSE 0)
  BY <1>4, <1>5, SpotsExchange
<1> QED BY <1>2, <1>3, <1>6

LEMMA NothingSent ==
  ASSUME FileTransferAssumption, Types, Flow, NEW p \in Processes, inbox[p] # <<>>,
         Exchange(p, 1, <<>>)
  PROVE  Singles'
<1>1. PICK none \in Seq(Packets) : none = <<>>
  BY NoElement
<1>2. ToSet(none) = {} /\ Exchange(p, 1, none)
  BY <1>1, NoElement
<1>3. Exchanged(p, none)
  BY <1>2, ExchangeFacts
<1>4. \A q \in Processes : ToSet(inbox[q]') \subseteq ToSet(inbox[q])
  BY <1>2, <1>3 DEF Exchanged
<1> QED BY <1>4, SinglesStay DEF Flow

\* The pieces of a request are queued to be read.
LEMMA FlowRequested ==
  ASSUME FileTransferAssumption, IInv, Flow, NEW p \in Processes, Receives(p, "request"),
         ReadPieces(p, Head(inbox[p]).socket, Head(inbox[p]).file,
                    Head(inbox[p]).first, Head(inbox[p]).last),
         Reply(p, <<>>), UNCHANGED <<writes, signals, asks>>
  PROVE  Flow'
<1>1. inbox[p] # <<>> /\ Types /\ Exchange(p, 1, <<>>)
  BY DEF Receives, IInv, Reply
<1>2. PICK packet \in Packets : packet = Head(inbox[p])
  BY <1>1, HeadPacket
<1>3. packet.type = "request"
  BY <1>2 DEF Receives
<1>4. PICK s \in Sockets, f \in Files, first \in Indices, last \in Indices :
        /\ s = packet.socket /\ f = packet.file /\ first = packet.first /\ last = packet.last
        /\ first <= last
  BY <1>3, PacketFacts
<1>5. ReadPieces(p, s, f, first, last)
  BY <1>2, <1>4
<1>6. Single(packet)
  <2>1. PICK q \in Seq(Packets) : q = inbox[p]
    BY <1>1 DEF Types, PacketTypes
  <2>2. Head(q) \in ToSet(q)
    BY <1>1, <2>1, ToSetOf
  <2> QED BY <1>2, <1>3, <2>1, <2>2 DEF Flow, Singles
<1>7. ASSUME NEW g \in Files, NEW C \in Chains PROVE Limited(g, C)'
  <2>1. PICK i \in {0, 1} : i = IF Head(inbox[p]) \in Bringing(g, C) THEN 1 ELSE 0
    OBVIOUS
  <2>2. Shifts(inbox, inbox', Bringing(g, C), i, 0)
    <3>1. Shifts(inbox, inbox', Bringing(g, C),
                 IF Head(inbox[p]) \in Bringing(g, C) THEN 1 ELSE 0, 0)
      BY <1>1, PacketTaken
    <3> QED BY <2>1, <3>1
  <2>3. PICK D \in SUBSET Nat : D = IF g = f THEN C ELSE {}
    BY DEF Chains
  <2>4. PICK t \in {0, 1} : t = IF Meets(D, first, last) THEN 1 ELSE 0
    OBVIOUS
  <2>5. Shifts(reads, reads', Reading(g, C), 0, t)
    <3>0. PICK R : R = Reading(g, C)
      OBVIOUS
    <3>1. IsFiniteSet(Spots(reads, R))
      BY <3>0, FiniteSpots
    <3>2. \A e \in R : e.file = f => e.piece \in D
      BY <2>3, <3>0 DEF Reading
    <3>3. \A c, d \in D : c \in first .. last /\ d \in first .. last => c = d
      BY <1>4, <1>6, <2>3 DEF Single
    <3>4. OneOf(R, f, D, first, last)
      BY <3>2, <3>3 DEF OneOf
    <3>5. Shifts(reads, reads', R, 0, IF Meets(D, first, last) THEN 1 ELSE 0)
      BY <1>1, <1>4, <1>5, <2>3, <3>1, <3>4, SpotsRead
    <3> QED BY <2>4, <3>0, <3>5
  <2>6. t <= i
    <3>1. ASSUME t = 1 PROVE i = 1
      <4>1. g = f /\ \E c \in C : c \in first .. last
        BY <2>3, <2>4, <3>1 DEF Meets
      <4>2. packet \in Bringing(g, C)
        BY <1>3, <1>4, <4>1 DEF Bringing
      <4> QED BY <1>2, <2>1, <4>2
    <3> QED BY <2>1, <2>4, <3>1
  <2>7. /\ Limited(g, C) /\ Shifts(writes, writes', Writing(g, C), 0, 0)
        /\ Shifts(signals, signals', Signalling(g, C), 0, 0)
    BY FiniteSpots
  <2>8. asks[g] \in Nat /\ asks[g]' \in Nat
    BY <1>1, AsksAreNumbers
  <2>9. 0 + t + 0 + 0 + asks[g] <= i + 0 + 0 + 0 + asks[g]'
    BY <2>6, <2>8
  <2> QED BY <2>2, <2>5, <2>7, <2>8, <2>9, LimitKept
<1>8. Singles'
  BY <1>1, NothingSent
<1> QED BY <1>7, <1>8 DEF Flow, Thin

\* A piece is queued to be written.
LEMMA FlowReceived ==
  ASSUME FileTransferAssumption, IInv, Flow, NEW p \in Processes, Receives(p, "data"),
         QueueWrite(p, Head(inbox[p])), Reply(p, <<>>), UNCHANGED <<reads, signals, asks>>
  PROVE  Flow'
<1>1. inbox[p] # <<>> /\ Types /\ Exchange(p, 1, <<>>)
  BY DEF Receives, IInv, Reply
<1>2. PICK packet \in Packets : packet = Head(inbox[p])
  BY <1>1, HeadPacket
<1>3. packet.type = "data"
  BY <1>2 DEF Receives
<1>4. PICK write : write = [file |-> packet.file, piece |-> packet.piece]
  OBVIOUS
<1>5. write \in Writes /\ write.file = packet.file /\ write.piece = packet.piece
  BY <1>3, <1>4, PacketFacts DEF Writes, WriteRequest
<1>6. writes' = [writes EXCEPT ![p] = Append(@, write)]
      /\ writes \in [Processes -> Seq(Writes)]
  BY <1>1, <1>2, <1>4 DEF QueueWrite, Types, WorkTypes
<1>7. ASSUME NEW g \in Files, NEW C \in Chains PROVE Limited(g, C)'
  <2>1. PICK i \in {0, 1} : i = IF Head(inbox[p]) \in Bringing(g, C) THEN 1 ELSE 0
    OBVIOUS
  <2>2. Shifts(inbox, inbox', Bringing(g, C), i, 0)
    <3>1. Shifts(inbox, inbox', Bringing(g, C),
                 IF Head(inbox[p]) \in Bringing(g, C) THEN 1 ELSE 0, 0)
      BY <1>1, PacketTaken
    <3> QED BY <2>1, <3>1
  <2>3. PICK x \in {0, 1} : x = IF write \in Writing(g, C) THEN 1 ELSE 0
    OBVIOUS
  <2>4. Shifts(writes, writes', Writing(g, C), 0, x)
    <3>1. PICK old, new, W :
            /\ old \in [Processes -> Seq(Writes)]
            /\ old = writes /\ new = writes' /\ W = Writing(g, C)
      BY <1>6
    <3>2. Appended(old, new, p, write) /\ IsFiniteSet(Spots(old, W))
      BY <1>6, <3>1, FiniteSpots DEF Appended
    <3>3. Shifts(old, new, W, 0, IF write \in W THEN 1 ELSE 0)
      BY <1>5, <3>1, <3>2, SpotsAppend
    <3> QED BY <2>3, <3>1, <3>3
  <2>5. x <= i
    <3>1. ASSUME x = 1 PROVE i = 1
      <4>1. packet.file = g /\ packet.piece \in C
        BY <1>5, <2>3, <3>1 DEF Writing
      <4>2. packet \in Bringing(g, C)
        BY <1>3, <4>1 DEF Bringing
      <4> QED BY <1>2, <2>1, <4>2
    <3> QED BY <2>1, <2>3, <3>1
  <2>6. /\ Limited(g, C) /\ Shifts(reads, reads', Reading(g, C), 0, 0)
        /\ Shifts(signals, signals', Signalling(g, C), 0, 0)
    BY FiniteSpots
  <2>7. asks[g] \in Nat /\ asks[g]' \in Nat
    BY <1>1, AsksAreNumbers
  <2>8. 0 + 0 + x + 0 + asks[g] <= i + 0 + 0 + 0 + asks[g]'
    BY <2>5, <2>7
  <2> QED BY <2>2, <2>4, <2>6, <2>7, <2>8, LimitKept
<1>8. Singles'
  BY <1>1, NothingSent
<1> QED BY <1>7, <1>8 DEF Flow, Thin

-----------------------------------------------------------------------------
(* The threads of the FileManagers, losses and crashes                     *)

\* What was read or written is signalled, or dropped.
Emits(p, file, piece) ==
  \/ UNCHANGED signals
  \/ \E e \in Signals : e.file = file /\ e.piece = piece /\ Emit(p, e)

LEMMA SignalCome ==
  ASSUME FileTransferAssumption, Types, Flow, NEW p \in Processes, NEW file, NEW piece,
         Emits(p, file, piece), NEW f \in Files, NEW C \in Chains
  PROVE  \E u \in {0, 1} : /\ Shifts(signals, signals', Signalling(f, C), 0, u)
                           /\ u = 1 => file = f /\ piece \in C
<1>1. CASE UNCHANGED signals
  BY <1>1, FiniteSpots
<1>2. ASSUME NEW e \in Signals, e.file = file, e.piece = piece, Emit(p, e)
      PROVE  \E u \in {0, 1} : /\ Shifts(signals, signals', Signalling(f, C), 0, u)
                               /\ u = 1 => file = f /\ piece \in C
  <2>0. e \in Signals
    OBVIOUS
  <2>1. PICK u \in {0, 1} : u = IF e \in Signalling(f, C) THEN 1 ELSE 0
    OBVIOUS
  <2>2. PICK old, new, T :
          /\ old \in [Processes -> Seq(Signals)]
          /\ old = signals /\ new = signals' /\ T = Signalling(f, C)
    BY DEF Types, WorkTypes
  <2>3. Appended(old, new, p, e) /\ IsFiniteSet(Spots(old, T))
    BY <1>2, <2>2, FiniteSpots DEF Emit, Appended
  <2>4. Shifts(old, new, T, 0, IF e \in T THEN 1 ELSE 0)
    BY <2>0, <2>2, <2>3, SpotsAppend
  <2>5. u = 1 => file = f /\ piece \in C
    BY <1>2, <2>1 DEF Signalling
  <2> QED BY <2>1, <2>2, <2>4, <2>5
<1> QED BY <1>1, <1>2 DEF Emits

LEMMA FlowRead ==
  ASSUME FileTransferAssumption, IInv, Flow, NEW p \in Processes, ReadBlock(p)
  PROVE  Flow'
<1>1. /\ reads[p] # <<>> /\ reads' = [reads EXCEPT ![p] = Tail(@)]
      /\ UNCHANGED <<inbox, asks, writes>> /\ Types
      /\ reads \in [Processes -> Seq(ReadRequest)]
  BY DEF ReadBlock, IInv, Types, WorkTypes
<1>2. PICK request \in ReadRequest : request = Head(reads[p])
  <2>1. PICK x \in Seq(ReadRequest) : x = reads[p]
    BY <1>1
  <2>2. Head(x) \in ToSet(x) /\ ToSet(x) \subseteq ReadRequest
    BY <1>1, <2>1, ToSetOf
  <2> QED BY <2>1, <2>2
<1>3. PICK file \in Files, piece \in Indices : file = request.file /\ piece = request.piece
  BY DEF ReadRequest
<1>4. Emits(p, file, piece)
  <2>1. ASSUME NEW t \in {"dataRead", "error"}, piece \in Pieces(file),
               Emit(p, [type |-> t, id |-> request.id, file |-> file, piece |-> piece])
        PROVE  Emits(p, file, piece)
    <3>1. PICK e : e = [type |-> t, id |-> request.id, file |-> file, piece |-> piece]
      OBVIOUS
    <3>2. request.id \in Nat
      BY DEF ReadRequest
    <3>3. e \in Signals /\ e.file = file /\ e.piece = piece
      BY <2>1, <3>1, <3>2 DEF Signals, Signal
    <3> QED BY <2>1, <3>1, <3>3 DEF Emits
  <2>2. \/ /\ piece \in Pieces(file)
           /\ Emit(p, [type |-> "dataRead", id |-> request.id, file |-> file, piece |-> piece])
        \/ UNCHANGED signals
        \/ /\ piece \in Pieces(file)
           /\ Emit(p, [type |-> "error", id |-> request.id, file |-> file, piece |-> piece])
    BY <1>2, <1>3 DEF ReadBlock
  <2>3. UNCHANGED signals => Emits(p, file, piece)
    BY DEF Emits
  <2> QED BY <2>1, <2>2, <2>3
<1>5. ASSUME NEW f \in Files, NEW C \in Chains PROVE Limited(f, C)'
  <2>1. PICK r \in {0, 1} : r = IF Head(reads[p]) \in Reading(f, C) THEN 1 ELSE 0
    OBVIOUS
  <2>2. Shifts(reads, reads', Reading(f, C), r, 0)
    <3>1. IsFiniteSet(Spots(reads, Reading(f, C)))
      BY FiniteSpots
    <3>2. Shifts(reads, reads', Reading(f, C),
                 IF Head(reads[p]) \in Reading(f, C) THEN 1 ELSE 0, 0)
      BY <1>1, <3>1, SpotsTail
    <3> QED BY <2>1, <3>2
  <2>3. PICK u \in {0, 1} : /\ Shifts(signals, signals', Signalling(f, C), 0, u)
                            /\ u = 1 => file = f /\ piece \in C
    BY <1>1, <1>4, SignalCome
  <2>4. u <= r
    <3>1. ASSUME u = 1 PROVE r = 1
      <4>1. request \in Reading(f, C)
        BY <1>3, <2>3, <3>1 DEF Reading
      <4> QED BY <1>2, <2>1, <4>1
    <3> QED BY <2>1, <2>3, <3>1
  <2>5. /\ Limited(f, C) /\ Shifts(inbox, inbox', Bringing(f, C), 0, 0)
        /\ Shifts(writes, writes', Writing(f, C), 0, 0)
    BY <1>1, FiniteSpots
  <2>6. asks[f] \in Nat /\ asks[f]' \in Nat
    BY <1>1, AsksAreNumbers
  <2>7. 0 + 0 + 0 + u + asks[f] <= 0 + r + 0 + 0 + asks[f]'
    BY <1>1, <2>4, <2>6
  <2> QED BY <2>2, <2>3, <2>5, <2>6, <2>7, LimitKept
<1>6. Singles'
  BY <1>1, SinglesStay DEF Flow
<1> QED BY <1>5, <1>6 DEF Flow, Thin

LEMMA FlowWritten ==
  ASSUME FileTransferAssumption, IInv, Flow, NEW p \in Processes, WriteBlock(p)
  PROVE  Flow'
<1>1. /\ writes[p] # <<>> /\ writes' = [writes EXCEPT ![p] = Tail(@)]
      /\ UNCHANGED <<inbox, asks, reads>> /\ Types
      /\ writes \in [Processes -> Seq(Writes)]
  BY DEF WriteBlock, IInv, Types, WorkTypes
<1>2. PICK request \in Writes : request = Head(writes[p])
  <2>1. PICK x \in Seq(Writes) : x = writes[p]
    BY <1>1
  <2>2. Head(x) \in ToSet(x) /\ ToSet(x) \subseteq Writes
    BY <1>1, <2>1, ToSetOf
  <2> QED BY <2>1, <2>2
<1>3. PICK file \in Files, piece \in Indices :
        file = request.file /\ piece = request.piece /\ piece \in Pieces(file)
  BY DEF Writes, WriteRequest
<1>4. Emits(p, file, piece)
  <2>1. ASSUME NEW e \in Signals, e.file = file, e.piece = piece, Emit(p, e)
        PROVE  Emits(p, file, piece)
    BY <2>1 DEF Emits
  <2>2. ASSUME NEW ok \in BOOLEAN, NEW complete \in BOOLEAN,
               Emit(p, [type |-> "pieceVerified", file |-> file, piece |-> piece, ok |-> ok,
                        complete |-> complete])
        PROVE  Emits(p, file, piece)
    <3>1. PICK e : e = [type |-> "pieceVerified", file |-> file, piece |-> piece, ok |-> ok,
                        complete |-> complete]
      OBVIOUS
    <3>2. e \in Signals /\ e.file = file /\ e.piece = piece
      BY <1>3, <3>1 DEF Signals, Signal
    <3> QED BY <2>1, <2>2, <3>1, <3>2
  <2>3. ASSUME Emit(p, [type |-> "error", id |-> 0, file |-> file, piece |-> piece])
        PROVE  Emits(p, file, piece)
    <3>1. PICK e : e = [type |-> "error", id |-> 0, file |-> file, piece |-> piece]
      OBVIOUS
    <3>2. e \in Signals /\ e.file = file /\ e.piece = piece
      BY <1>3, <3>1 DEF Signals, Signal
    <3> QED BY <2>1, <2>3, <3>1, <3>2
  <2>4. PICK whole \in BOOLEAN : whole = (verified[p][file] \cup {piece} = Pieces(file))
    OBVIOUS
  <2>5. \/ Emit(p, [type |-> "pieceVerified", file |-> file, piece |-> piece, ok |-> TRUE,
                    complete |-> (TRUE /\ whole)])
        \/ Emit(p, [type |-> "pieceVerified", file |-> file, piece |-> piece, ok |-> FALSE,
                    complete |-> (FALSE /\ whole)])
        \/ Emit(p, [type |-> "error", id |-> 0, file |-> file, piece |-> piece])
        \/ UNCHANGED signals
    BY <1>2, <1>3, <2>4 DEF WriteBlock
  <2>6. (TRUE /\ whole) \in BOOLEAN /\ (FALSE /\ whole) \in BOOLEAN
    OBVIOUS
  <2>7. UNCHANGED signals => Emits(p, file, piece)
    BY DEF Emits
  <2> QED BY <2>2, <2>3, <2>5, <2>6, <2>7
<1>5. ASSUME NEW f \in Files, NEW C \in Chains PROVE Limited(f, C)'
  <2>1. PICK w \in {0, 1} : w = IF Head(writes[p]) \in Writing(f, C) THEN 1 ELSE 0
    OBVIOUS
  <2>2. Shifts(writes, writes', Writing(f, C), w, 0)
    <3>1. IsFiniteSet(Spots(writes, Writing(f, C)))
      BY FiniteSpots
    <3>2. Shifts(writes, writes', Writing(f, C),
                 IF Head(writes[p]) \in Writing(f, C) THEN 1 ELSE 0, 0)
      BY <1>1, <3>1, SpotsTail
    <3> QED BY <2>1, <3>2
  <2>3. PICK u \in {0, 1} : /\ Shifts(signals, signals', Signalling(f, C), 0, u)
                            /\ u = 1 => file = f /\ piece \in C
    BY <1>1, <1>4, SignalCome
  <2>4. u <= w
    <3>1. ASSUME u = 1 PROVE w = 1
      <4>1. request \in Writing(f, C)
        BY <1>3, <2>3, <3>1 DEF Writing
      <4> QED BY <1>2, <2>1, <4>1
    <3> QED BY <2>1, <2>3, <3>1
  <2>5. /\ Limited(f, C) /\ Shifts(inbox, inbox', Bringing(f, C), 0, 0)
        /\ Shifts(reads, reads', Reading(f, C), 0, 0)
    BY <1>1, FiniteSpots
  <2>6. asks[f] \in Nat /\ asks[f]' \in Nat
    BY <1>1, AsksAreNumbers
  <2>7. 0 + 0 + 0 + u + asks[f] <= 0 + 0 + w + 0 + asks[f]'
    BY <1>1, <2>4, <2>6
  <2> QED BY <2>2, <2>3, <2>5, <2>6, <2>7, LimitKept
<1>6. Singles'
  BY <1>1, SinglesStay DEF Flow
<1> QED BY <1>5, <1>6 DEF Flow, Thin

LEMMA FlowLost ==
  ASSUME FileTransferAssumption, IInv, Flow, NEW p \in Processes, NEW socket \in Sockets,
         Lose(p, socket)
  PROVE  Flow'
<1>1. UNCHANGED <<reads, writes, signals, asks>> /\ Types
  BY DEF Lose, workVars, IInv
<1>2. PICK old, new : /\ old \in [Processes -> Seq(Packets)]
                     /\ old = inbox /\ new = inbox'
  BY <1>1 DEF Types, PacketTypes
<1>3. PICK q \in Seq(Packets) : q = old[p]
  BY <1>2
<1>4. PICK k \in 1 .. Len(q) : new = [old EXCEPT ![p] = RemoveAt(@, k)]
  <2>1. PICK sent : sent = {i \in DOMAIN q : q[i].socket = socket}
    OBVIOUS
  <2>2. sent \in SUBSET (1 .. Len(q)) /\ sent # {} /\ Len(q) \in Nat
    BY <1>2, <1>3, <2>1 DEF Lose
  <2>3. Max(sent) \in sent
    BY <2>2, MaxOfPositions
  <2>4. new = [old EXCEPT ![p] = RemoveAt(@, Max(sent))]
    BY <1>2, <1>3, <2>1 DEF Lose
  <2> QED BY <2>2, <2>3, <2>4
<1>5. ASSUME NEW f \in Files, NEW C \in Chains PROVE Limited(f, C)'
  <2>1. PICK B : B = Bringing(f, C)
    OBVIOUS
  <2>2. IsFiniteSet(Spots(old, B))
    BY <1>2, <2>1, FiniteSpots
  <2>3. Shifts(old, new, B, 0, 0)
    BY <1>2, <1>3, <1>4, <2>2, SpotsLose
  <2>4. Shifts(inbox, inbox', Bringing(f, C), 0, 0)
    BY <1>2, <2>1, <2>3
  <2>5. /\ Limited(f, C) /\ Shifts(reads, reads', Reading(f, C), 0, 0)
        /\ Shifts(writes, writes', Writing(f, C), 0, 0)
        /\ Shifts(signals, signals', Signalling(f, C), 0, 0)
    BY <1>1, FiniteSpots
  <2>6. asks[f] \in Nat /\ asks[f]' \in Nat
    BY <1>1, AsksAreNumbers
  <2>7. 0 + 0 + 0 + 0 + asks[f] <= 0 + 0 + 0 + 0 + asks[f]'
    BY <1>1, <2>6
  <2> QED BY <2>4, <2>5, <2>6, <2>7, LimitKept
<1>6. Singles'
  <2>1. RemoveAt(q, k) \in Seq(Packets) /\ ToSet(RemoveAt(q, k)) \subseteq ToSet(q)
    BY <1>3, RemoveContinues
  <2>2. \A t \in Processes : ToSet(new[t]) \subseteq ToSet(old[t])
    BY <1>2, <1>3, <1>4, <2>1
  <2> QED BY <1>2, <2>2, SinglesStay DEF Flow
<1> QED BY <1>5, <1>6 DEF Flow, Thin

LEMMA FlowDies ==
  ASSUME FileTransferAssumption, IInv, IInv', Flow, Die
  PROVE  Flow'
<1>1. UNCHANGED asks /\ Types /\ Types' /\ Client \in Processes
  BY ClientIsNoAdmin DEF Die, IInv
<1>2. /\ inbox \in [Processes -> Seq(Packets)] /\ inbox' \in [Processes -> Seq(Packets)]
      /\ reads \in [Processes -> Seq(ReadRequest)] /\ reads' \in [Processes -> Seq(ReadRequest)]
      /\ writes \in [Processes -> Seq(Writes)] /\ writes' \in [Processes -> Seq(Writes)]
      /\ signals \in [Processes -> Seq(Signals)] /\ signals' \in [Processes -> Seq(Signals)]
  BY <1>1 DEF Types, PacketTypes, WorkTypes
<1>3. \A p \in Processes : /\ inbox[p]' = inbox[p] \/ inbox[p]' = <<>>
                           /\ reads[p]' = reads[p] \/ reads[p]' = <<>>
                           /\ writes[p]' = writes[p] \/ writes[p]' = <<>>
                           /\ signals[p]' = signals[p] \/ signals[p]' = <<>>
  BY <1>1, <1>2 DEF Die
<1>4. ASSUME NEW f \in Files, NEW C \in Chains PROVE Limited(f, C)'
  <2>1. /\ Limited(f, C)
        /\ IsFiniteSet(Spots(inbox, Bringing(f, C))) /\ IsFiniteSet(Spots(reads, Reading(f, C)))
        /\ IsFiniteSet(Spots(writes, Writing(f, C)))
        /\ IsFiniteSet(Spots(signals, Signalling(f, C)))
    BY FiniteSpots
  <2>2. Shifts(inbox, inbox', Bringing(f, C), 0, 0)
    BY <1>2, <1>3, <2>1, SpotsGo
  <2>3. Shifts(reads, reads', Reading(f, C), 0, 0)
    BY <1>2, <1>3, <2>1, SpotsGo
  <2>4. Shifts(writes, writes', Writing(f, C), 0, 0)
    BY <1>2, <1>3, <2>1, SpotsGo
  <2>5. Shifts(signals, signals', Signalling(f, C), 0, 0)
    BY <1>2, <1>3, <2>1, SpotsGo
  <2>6. asks[f] \in Nat /\ asks[f]' \in Nat
    BY <1>1, AsksAreNumbers
  <2>7. 0 + 0 + 0 + 0 + asks[f] <= 0 + 0 + 0 + 0 + asks[f]'
    BY <1>1, <2>6
  <2> QED BY <2>1, <2>2, <2>3, <2>4, <2>5, <2>6, <2>7, LimitKept
<1>5. Singles'
  <2>1. ToSet(<<>>) = {}
    BY NoElement
  <2>2. \A p \in Processes : ToSet(inbox[p]') \subseteq ToSet(inbox[p])
    BY <1>3, <2>1
  <2> QED BY <2>2, SinglesStay DEF Flow
<1> QED BY <1>4, <1>5 DEF Flow, Thin

-----------------------------------------------------------------------------
(* Packets that are handled, and transfers that are asked for              *)

\* One packet at most brings pieces.
Brief(packets) ==
  \A i, j \in 1 .. Len(packets) :
    packets[i].type \in Brings /\ packets[j].type \in Brings => i = j

LEMMA BriefPackets ==
  /\ Brief(<<>>)
  /\ \A e \in Packets : Brief(<<e>>)
  /\ \A q, r \in Seq(Packets) :
       Brief(r) /\ (\A e \in ToSet(q) : e.type \notin Brings) => Brief(q \o r)
<1>1. Brief(<<>>)
  BY NoElement DEF Brief
<1>2. ASSUME NEW e \in Packets PROVE Brief(<<e>>)
  BY OneElement DEF Brief
<1>3. ASSUME NEW q \in Seq(Packets), NEW r \in Seq(Packets), Brief(r),
             \A e \in ToSet(q) : e.type \notin Brings
      PROVE  Brief(q \o r)
  <2>1. PICK c : c = q \o r
    OBVIOUS
  <2>2. /\ Len(q) \in Nat /\ Len(r) \in Nat
        /\ \A i \in 1 .. Len(c) : \/ i \in 1 .. Len(q) /\ c[i] = q[i]
                                  \/ i - Len(q) \in 1 .. Len(r) /\ c[i] = r[i - Len(q)]
    BY <2>1, ConcatFacts
  <2>3. \A i \in 1 .. Len(q) : q[i].type \notin Brings
    BY <1>3, ToSetFacts
  <2>4. Len(c) \in Nat
    BY <2>1, ConcatFacts
  <2>5. ASSUME NEW i \in 1 .. Len(c), NEW j \in 1 .. Len(c),
               c[i].type \in Brings, c[j].type \in Brings
        PROVE  i = j
    <3>1. /\ i - Len(q) \in 1 .. Len(r) /\ c[i] = r[i - Len(q)]
          /\ j - Len(q) \in 1 .. Len(r) /\ c[j] = r[j - Len(q)]
      BY <2>2, <2>3, <2>5
    <3>2. i - Len(q) = j - Len(q)
      BY <1>3, <2>5, <3>1 DEF Brief
    <3> QED BY <2>2, <2>4, <3>2
  <2> QED BY <2>1, <2>5 DEF Brief
<1> QED BY <1>1, <1>2, <1>3

\* A packet that asks for a transfer is answered, any other is not.
LEMMA FlowReplies ==
  ASSUME FileTransferAssumption, IInv, IInv', Flow, NEW p \in Processes, inbox[p] # <<>>,
         UNCHANGED <<reads, writes, signals, asks>>,
         NEW packets \in Seq(Packets), Reply(p, packets), Brief(packets),
         \A e \in ToSet(packets) : e.type \in Brings =>
           /\ e.type = "request" => Single(e)
           /\ Head(inbox[p]).type \in Asks /\ Head(inbox[p]).file = e.file
  PROVE  Flow'
<1>1. Types /\ Types' /\ Exchange(p, 1, packets) /\ 1 \in {0, 1}
  BY DEF IInv, Reply
<1>2. \A f \in Files : asks[f]' = asks[f] \/ asks[f]' = asks[f] + 1
  OBVIOUS
<1>3. \A i, j \in 1 .. Len(packets) :
        packets[i].type \in Brings /\ packets[j].type \in Brings => i = j
  BY DEF Brief
<1>4. \A e \in ToSet(packets) : e.type \in Brings =>
        /\ e.type = "request" => Single(e)
        /\ \/ asks[e.file]' = asks[e.file] + 1
           \/ /\ 1 = 1 /\ Head(inbox[p]).type \in Asks
              /\ Head(inbox[p]).file = e.file
  OBVIOUS
<1> QED BY <1>1, <1>2, <1>3, <1>4, FlowAnswers

LEMMA FlowQuiet ==
  ASSUME FileTransferAssumption, IInv, IInv', Flow, NEW p \in Processes, inbox[p] # <<>>,
         UNCHANGED <<reads, writes, signals, asks>>, Reply(p, <<>>)
  PROVE  Flow'
<1>1. PICK none \in Seq(Packets) : none = <<>> /\ ToSet(none) = {}
  BY NoElement
<1>2. Brief(none)
  BY <1>1, BriefPackets
<1>3. \A e \in ToSet(none) : e.type \in Brings =>
        /\ e.type = "request" => Single(e)
        /\ Head(inbox[p]).type \in Asks /\ Head(inbox[p]).file = e.file
  BY <1>1
<1> QED BY <1>1, <1>2, <1>3, FlowReplies

\* The first piece is asked for.
LEMMA FirstPiece ==
  ASSUME FileTransferAssumption, NEW s \in Sockets, NEW f \in Files
  PROVE  \E e \in Packets : /\ e = RequestFileData(s, f, 0, 0) /\ e.file = f
                            /\ e.type = "request" /\ Single(e)
<1>1. 0 \in Indices
  <2>1. 0 \in Pieces(f) /\ Pieces(f) \subseteq Indices
    BY PiecesAreIndices DEF Pieces
  <2> QED BY <2>1
<1>2. PICK e \in Packets : /\ e = RequestFileData(s, f, 0, 0) /\ e.file = f
                           /\ e.type = "request" /\ e.first = 0 /\ e.last = 0
  BY <1>1, MadePackets
<1>3. Single(e)
  BY <1>2 DEF Single
<1> QED BY <1>2, <1>3

LEMMA FlowUploadAnswered ==
  ASSUME FileTransferAssumption, IInv, IInv', Flow, ProcessAdminRequestUploadFilePacket
  PROVE  Flow'
<1>1. /\ Client \in Processes /\ inbox[Client] # <<>> /\ Head(inbox[Client]).type = "upload"
      /\ UNCHANGED <<reads, writes, signals, asks>>
  BY ClientIsNoAdmin DEF ProcessAdminRequestUploadFilePacket, AnswerUpload, Receives, workVars
<1>2. PICK e \in Packets : e = Head(inbox[Client])
  BY <1>1, HeadPacket
<1>3. PICK s \in Sockets, f \in Files : s = e.socket /\ f = e.file
  BY PacketFacts
<1>4. PICK refusal : refusal = IF IsWhole(Client, f) THEN <<Say("refused", s, f)>> ELSE <<>>
  OBVIOUS
<1>5. PICK ok \in SendResults(Client, s) :
        Reply(Client, refusal \o (IF ok THEN <<RequestFileData(s, f, 0, 0)>> ELSE <<>>))
  BY <1>2, <1>3, <1>4 DEF ProcessAdminRequestUploadFilePacket, AnswerUpload
<1>6. PICK first \in Packets : /\ first = RequestFileData(s, f, 0, 0) /\ first.file = f
                               /\ first.type = "request" /\ Single(first)
  BY FirstPiece
<1>7. refusal \in Seq(Packets) /\ \A x \in ToSet(refusal) : x.type \notin Brings
  <2>1. PICK x \in Packets : x = Say("refused", s, f) /\ x.type = "refused"
    BY MadePackets
  <2>2. x.type \notin Brings
    BY <2>1 DEF Brings, Asks
  <2>3. CASE IsWhole(Client, f)
    BY <1>4, <2>1, <2>2, <2>3, OneElement
  <2>4. CASE ~IsWhole(Client, f)
    BY <1>4, <2>4, NoElement
  <2> QED BY <2>3, <2>4
<1>8. PICK request \in Seq(Packets) :
        /\ request = IF ok THEN <<first>> ELSE <<>>
        /\ Brief(request) /\ ToSet(request) \subseteq {first}
  <2>1. CASE ok
    BY <2>1, OneElement, BriefPackets
  <2>2. CASE ~ok
    BY <2>2, NoElement, BriefPackets
  <2> QED BY <2>1, <2>2
<1>9. PICK packets \in Seq(Packets) :
        /\ packets = refusal \o request /\ Brief(packets)
        /\ ToSet(packets) = ToSet(refusal) \cup ToSet(request)
  <2>1. PICK q \in Seq(Packets) : q = refusal /\ \A x \in ToSet(q) : x.type \notin Brings
    BY <1>7
  <2>2. PICK c : c = q \o request
    OBVIOUS
  <2>3. c \in Seq(Packets) /\ ToSet(c) = ToSet(q) \cup ToSet(request)
    BY <2>2, ConcatFacts, ToSetConcat
  <2>4. Brief(c)
    BY <1>8, <2>1, <2>2, BriefPackets
  <2> QED BY <2>1, <2>2, <2>3, <2>4
<1>10. Reply(Client, packets)
  BY <1>5, <1>6, <1>8, <1>9
<1>11. ASSUME NEW x \in ToSet(packets), x.type \in Brings
       PROVE  /\ x.type = "request" => Single(x)
              /\ Head(inbox[Client]).type \in Asks /\ Head(inbox[Client]).file = x.file
  <2>1. x = first
    BY <1>7, <1>8, <1>9, <1>11
  <2> QED BY <1>1, <1>2, <1>3, <1>6, <2>1 DEF Asks
<1> QED BY <1>1, <1>9, <1>10, <1>11, FlowReplies

LEMMA FlowDownloadAnswered ==
  ASSUME FileTransferAssumption, IInv, IInv', Flow, ProcessAdminRequestDownloadFilePacket
  PROVE  Flow'
<1>1. /\ Client \in Processes /\ inbox[Client] # <<>> /\ Head(inbox[Client]).type = "download"
      /\ UNCHANGED <<reads, writes, signals, asks>>
  BY ClientIsNoAdmin DEF ProcessAdminRequestDownloadFilePacket, Receives, workVars
<1>2. PICK e \in Packets : e = Head(inbox[Client])
  BY <1>1, HeadPacket
<1>3. PICK s \in Sockets, f \in Files : s = e.socket /\ f = e.file
  BY PacketFacts
<1>4. PICK answer \in Packets : /\ answer = Say("accepted", s, f)
                                /\ answer.type = "accepted" /\ answer.file = f
  BY MadePackets
<1>5. Reply(Client, <<answer>>) \/ Reply(Client, <<>>)
  BY <1>2, <1>3, <1>4 DEF ProcessAdminRequestDownloadFilePacket
<1>6. CASE Reply(Client, <<answer>>)
  <2>1. PICK packets \in Seq(Packets) :
          packets = <<answer>> /\ ToSet(packets) = {answer} /\ Brief(packets)
    BY OneElement, BriefPackets
  <2>2. \A x \in ToSet(packets) : x.type \in Brings =>
          /\ x.type = "request" => Single(x)
          /\ Head(inbox[Client]).type \in Asks /\ Head(inbox[Client]).file = x.file
    BY <1>1, <1>2, <1>3, <1>4, <2>1 DEF Asks
  <2> QED BY <1>1, <1>6, <2>1, <2>2, FlowReplies
<1>7. CASE Reply(Client, <<>>)
  BY <1>1, <1>7, FlowQuiet
<1> QED BY <1>5, <1>6, <1>7

LEMMA FlowAccepted ==
  ASSUME FileTransferAssumption, IInv, IInv', Flow, NEW admin \in Admins,
         FileDownloadRequestAccepted(admin)
  PROVE  Flow'
<1>1. /\ admin \in Processes /\ inbox[admin] # <<>> /\ Head(inbox[admin]).type = "accepted"
      /\ Head(inbox[admin]).socket = peer[admin]
      /\ UNCHANGED <<reads, writes, signals, asks>>
  BY ClientIsNoAdmin DEF FileDownloadRequestAccepted, Receives, FromPeer, workVars
<1>2. PICK e \in Packets : e = Head(inbox[admin])
  BY <1>1, HeadPacket
<1>3. PICK s \in Sockets, f \in Files : s = e.socket /\ f = e.file
  BY PacketFacts
<1>4. PICK first \in Packets : /\ first = RequestFileData(s, f, 0, 0) /\ first.file = f
                               /\ first.type = "request" /\ Single(first)
  BY FirstPiece
<1>5. Reply(admin, <<first>>) \/ Reply(admin, <<>>)
  BY <1>1, <1>2, <1>3, <1>4 DEF FileDownloadRequestAccepted
<1>6. CASE Reply(admin, <<first>>)
  <2>1. PICK packets \in Seq(Packets) :
          packets = <<first>> /\ ToSet(packets) = {first} /\ Brief(packets)
    BY OneElement, BriefPackets
  <2>2. \A x \in ToSet(packets) : x.type \in Brings =>
          /\ x.type = "request" => Single(x)
          /\ Head(inbox[admin]).type \in Asks /\ Head(inbox[admin]).file = x.file
    BY <1>1, <1>2, <1>3, <1>4, <2>1 DEF Asks
  <2> QED BY <1>1, <1>6, <2>1, <2>2, FlowReplies
<1>7. CASE Reply(admin, <<>>)
  BY <1>1, <1>7, FlowQuiet
<1> QED BY <1>5, <1>6, <1>7

\* A transfer is asked for.
LEMMA FlowAsked ==
  ASSUME FileTransferAssumption, IInv, IInv', Flow, NEW p \in Processes, NEW file \in Files,
         Ask(file), UNCHANGED <<reads, writes, signals>>,
         NEW e \in Packets, e.type \in {"upload", "download"}, e.file = file, Send(p, <<e>>)
  PROVE  Flow'
<1>1. Types /\ Types'
  BY DEF IInv
<1>2. asks' = [asks EXCEPT ![file] = @ + 1] /\ asks \in [Files -> 0 .. MaxAsks]
  BY DEF Ask, IInv, Types, FileTypes
<1>3. PICK packets \in Seq(Packets) :
        packets = <<e>> /\ ToSet(packets) = {e} /\ Brief(packets)
  BY OneElement, BriefPackets
<1>4. Exchange(p, 0, packets) /\ 0 \in {0, 1} /\ (0 = 1 => inbox[p] # <<>>)
  BY <1>3 DEF Send
<1>5. \A f \in Files : asks[f]' = asks[f] \/ asks[f]' = asks[f] + 1
  BY <1>2
<1>6. \A i, j \in 1 .. Len(packets) :
        packets[i].type \in Brings /\ packets[j].type \in Brings => i = j
  BY <1>3 DEF Brief
<1>7. \A x \in ToSet(packets) : x.type \in Brings =>
        /\ x.type = "request" => Single(x)
        /\ \/ asks[x.file]' = asks[x.file] + 1
           \/ /\ 0 = 1 /\ Head(inbox[p]).type \in Asks
              /\ Head(inbox[p]).file = x.file
  BY <1>2, <1>3
<1> QED BY <1>1, <1>4, <1>5, <1>6, <1>7, FlowAnswers

LEMMA FlowDownloadAsked ==
  ASSUME FileTransferAssumption, IInv, IInv', Flow, NEW admin \in Admins, NEW file \in Files,
         RequestDownloadFileFromRemote(admin, file)
  PROVE  Flow'
<1>1. /\ admin \in Processes /\ Ask(file) /\ UNCHANGED <<reads, writes, signals>>
      /\ Send(admin, <<Say("download", peer[admin], file)>>)
  BY ClientIsNoAdmin DEF RequestDownloadFileFromRemote, workVars
<1>2. PICK s \in Sockets : s = peer[admin]
  BY ClientIsNoAdmin DEF RequestDownloadFileFromRemote, IInv, Types, LinkTypes
<1>3. PICK e \in Packets : e = Say("download", s, file) /\ e.type = "download" /\ e.file = file
  BY MadePackets
<1>4. Send(admin, <<e>>)
  BY <1>1, <1>2, <1>3
<1> QED BY <1>1, <1>3, <1>4, FlowAsked

LEMMA FlowUploadAsked ==
  ASSUME FileTransferAssumption, IInv, IInv', Flow, NEW admin \in Admins, NEW file \in Files,
         RequestUploadFilesToRemote(admin, file)
  PROVE  Flow'
<1>1. /\ admin \in Processes /\ Ask(file) /\ UNCHANGED <<reads, writes, signals>>
      /\ \/ Send(admin, <<Say("upload", peer[admin], file)>>)
         \/ UNCHANGED inbox
  BY ClientIsNoAdmin DEF RequestUploadFilesToRemote, workVars
<1>2. CASE Send(admin, <<Say("upload", peer[admin], file)>>)
  <2>1. PICK s \in Sockets : s = peer[admin]
    BY ClientIsNoAdmin DEF RequestUploadFilesToRemote, IInv, Types, LinkTypes
  <2>2. PICK e \in Packets : e = Say("upload", s, file) /\ e.type = "upload" /\ e.file = file
    BY MadePackets
  <2>3. Send(admin, <<e>>)
    BY <1>2, <2>1, <2>2
  <2> QED BY <1>1, <2>2, <2>3, FlowAsked
<1>3. CASE UNCHANGED inbox
  <2>1. Types /\ Types'
    BY DEF IInv
  <2>2. \A f \in Files : asks[f] \in Nat /\ asks[f]' \in Nat /\ asks[f] <= asks[f]'
    BY <1>1, <2>1, AskFacts
  <2>3. ASSUME NEW f \in Files, NEW C \in Chains PROVE Limited(f, C)'
    <3>1. /\ Limited(f, C) /\ Shifts(inbox, inbox', Bringing(f, C), 0, 0)
          /\ Shifts(reads, reads', Reading(f, C), 0, 0)
          /\ Shifts(writes, writes', Writing(f, C), 0, 0)
          /\ Shifts(signals, signals', Signalling(f, C), 0, 0)
      BY <1>1, <1>3, FiniteSpots
    <3>2. asks[f] \in Nat /\ asks[f]' \in Nat
      BY <2>2
    <3>3. 0 + 0 + 0 + 0 + asks[f] <= 0 + 0 + 0 + 0 + asks[f]'
      BY <2>2
    <3> QED BY <3>1, <3>2, <3>3, LimitKept
  <2>4. Singles'
    BY <1>3, SinglesStay DEF Flow
  <2> QED BY <2>3, <2>4 DEF Flow, Thin
<1> QED BY <1>1, <1>2, <1>3

-----------------------------------------------------------------------------
(* Signals that are handled                                                *)

\* What a receiver asks for when a signal says that a piece is verified goes on with the chains
\* of that piece.
GoesOn(signal, packets) ==
  \A e \in ToSet(packets) : e.type \in Brings =>
    /\ e.type = "request" => Single(e)
    /\ \A f \in Files, C \in Chains : e \in Bringing(f, C) => signal.file = f /\ signal.piece \in C

LEMMA FlowTold ==
  ASSUME FileTransferAssumption, IInv, IInv', Flow, NEW p \in Processes,
         signals[p] # <<>>, TakeSignal(p), UNCHANGED <<reads, writes, asks>>,
         NEW packets \in Seq(Packets), Send(p, packets), Brief(packets),
         GoesOn(Head(signals[p]), packets)
  PROVE  Flow'
<1>1. Types /\ Types' /\ Exchange(p, 0, packets)
  BY DEF IInv, Send
<1>2. \A i, j \in 1 .. Len(packets) :
        packets[i].type \in Brings /\ packets[j].type \in Brings => i = j
  BY DEF Brief
<1>3. \A e \in ToSet(packets) : e.type \in Brings =>
        /\ e.type = "request" => Single(e)
        /\ \A f \in Files, C \in Chains : e \in Bringing(f, C) =>
             Head(signals[p]).file = f /\ Head(signals[p]).piece \in C
  BY DEF GoesOn
<1> QED BY <1>1, <1>2, <1>3, FlowSignals

LEMMA NothingGoesOn ==
  ASSUME NEW packets \in Seq(Packets), \A e \in ToSet(packets) : e.type \notin Brings, NEW signal
  PROVE  Brief(packets) /\ GoesOn(signal, packets)
<1>1. \A i \in 1 .. Len(packets) : packets[i].type \notin Brings
  BY ToSetFacts
<1> QED BY <1>1 DEF Brief, GoesOn

\* What was read is sent.
LEMMA DataGoesOn ==
  ASSUME NEW signal \in Signals, NEW s \in Sockets, NEW packets \in Seq(Packets),
         ToSet(packets) \subseteq {Data(s, signal)}
  PROVE  GoesOn(signal, packets)
<1>1. PICK d \in Packets : /\ d = Data(s, signal) /\ d.type = "data" /\ d.file = signal.file
                           /\ d.piece = signal.piece
  BY DataFacts
<1>2. ASSUME NEW e \in ToSet(packets)
      PROVE  /\ e.type # "request"
             /\ \A f \in Files, C \in Chains : e \in Bringing(f, C) =>
                  signal.file = f /\ signal.piece \in C
  <2>1. e = d
    BY <1>1
  <2> QED BY <1>1, <2>1 DEF Bringing, Asks
<1> QED BY <1>2 DEF GoesOn

\* Of the pieces that are asked for, one at most is of a chain, and so is the verified one then.
LEMMA RequestGoesOn ==
  ASSUME FileTransferAssumption, NEW s \in Sockets, NEW signal \in Signals
  PROVE  \E packets \in Seq(Packets) :
           packets = NextRequest(s, signal) /\ Brief(packets) /\ GoesOn(signal, packets)
<1>1. PICK f \in Files, k \in Nat : f = signal.file /\ k = signal.piece /\ k \in Pieces(f)
  BY SignalFacts, PiecesAreIndices
<1>2. PICK P \in Nat \ {0} : P = PiecesInOneRequest
  BY PiecesAreIndices
<1>3. PICK packets \in Seq(Packets) :
        /\ packets = NextRequest(s, signal)
        /\ \A e \in ToSet(packets) : e.type = "request" /\ e.socket = s /\ e.file = f
  BY <1>1, NextRequestFacts
<1>4. \/ packets = <<>>
      \/ packets = <<RequestFileData(s, f, k, k)>>
      \/ k = 0 /\ packets = <<RequestFileData(s, f, 1, 2 * P)>>
      \/ k # 0 /\ k % P = 0 /\ packets = <<RequestFileData(s, f, k + P + 1, k + 2 * P)>>
  <2>1. WindowAfter(0, 0, 2) = <<1, 2 * P>>
    BY <1>2 DEF WindowAfter
  <2>2. WindowAfter(k, 1, 1) = <<k + P + 1, k + 2 * P>>
    BY <1>2 DEF WindowAfter
  <2>3. PICK w, x : w = WindowAfter(0, 0, 2) /\ x = WindowAfter(k, 1, 1)
    OBVIOUS
  <2>4. w[1] = 1 /\ w[2] = 2 * P /\ x[1] = k + P + 1 /\ x[2] = k + 2 * P
    BY <2>1, <2>2, <2>3
  <2>5. packets = RequestAfter(s, signal, w, x)
    BY <1>1, <1>3, <2>3 DEF NextRequest
  <2>6. \/ packets = <<>>
        \/ packets = <<RequestFileData(s, f, k, k)>>
        \/ k = 0 /\ packets = <<RequestFileData(s, f, w[1], w[2])>>
        \/ k # 0 /\ k % P = 0 /\ packets = <<RequestFileData(s, f, x[1], x[2])>>
    BY <1>1, <1>2, <2>5 DEF RequestAfter
  <2> QED BY <2>4, <2>6
<1>5. ASSUME NEW i, NEW j, packets = <<RequestFileData(s, f, i, j)>>
      PROVE  \E e \in Packets : packets = <<e>> /\ ToSet(packets) = {e} /\ Brief(packets)
                                /\ e.type = "request" /\ e.file = f /\ e.first = i /\ e.last = j
  <2>1. PICK e : e = RequestFileData(s, f, i, j)
    OBVIOUS
  <2>2. packets = <<e>> /\ Len(packets) = 1 /\ packets[1] = e
    BY <1>5, <2>1
  <2>3. e \in Packets
    BY <2>2
  <2>4. ToSet(packets) = {e} /\ Brief(packets)
    BY <2>2, <2>3, OneElement, BriefPackets
  <2>5. e.type = "request" /\ e.file = f /\ e.first = i /\ e.last = j
    BY <2>1 DEF RequestFileData
  <2> QED BY <2>2, <2>3, <2>4, <2>5
<1>6. CASE packets = <<>>
  <2>1. ToSet(packets) = {}
    BY <1>6, NoElement
  <2> QED BY <1>3, <2>1, NothingGoesOn
<1>7. CASE packets = <<RequestFileData(s, f, k, k)>>
  <2>1. PICK e \in Packets :
          /\ ToSet(packets) = {e} /\ Brief(packets)
          /\ e.type = "request" /\ e.file = f /\ e.first = k /\ e.last = k
    BY <1>5, <1>7
  <2>2. Single(e)
    BY <2>1 DEF Single, Chains
  <2>3. \A g \in Files, C \in Chains : e \in Bringing(g, C) => f = g /\ k \in C
    BY <2>1 DEF Bringing, Chains, Asks
  <2>4. GoesOn(signal, packets)
    BY <1>1, <2>1, <2>2, <2>3 DEF GoesOn
  <2> QED BY <1>3, <2>1, <2>4
<1>8. ASSUME k % P = 0,
             NEW e \in Packets, ToSet(packets) = {e}, Brief(packets),
             e.type = "request", e.file = f, e.first .. e.last = NextWindow(k)
      PROVE  Brief(packets) /\ GoesOn(signal, packets)
  <2>1. \A C \in Chains : \A c \in C : c \in NextWindow(k) =>
          k \in C /\ \A d \in C : d \in NextWindow(k) => d = c
    BY <1>2, <1>8 DEF Chains
  <2>2. Single(e)
    BY <1>8, <2>1 DEF Single
  <2>3. \A g \in Files, C \in Chains : e \in Bringing(g, C) => f = g /\ k \in C
    BY <1>8, <2>1 DEF Bringing, Asks
  <2> QED BY <1>1, <1>8, <2>2, <2>3 DEF GoesOn
<1>9. CASE k = 0 /\ packets = <<RequestFileData(s, f, 1, 2 * P)>>
  <2>1. PICK e \in Packets :
          /\ ToSet(packets) = {e} /\ Brief(packets)
          /\ e.type = "request" /\ e.file = f /\ e.first = 1 /\ e.last = 2 * P
    BY <1>5, <1>9
  <2>2. k % P = 0 /\ e.first .. e.last = NextWindow(k)
    BY <1>2, <1>9, <2>1 DEF NextWindow
  <2> QED BY <1>3, <1>8, <2>1, <2>2
<1>10. CASE k # 0 /\ k % P = 0 /\ packets = <<RequestFileData(s, f, k + P + 1, k + 2 * P)>>
  <2>1. PICK e \in Packets :
          /\ ToSet(packets) = {e} /\ Brief(packets)
          /\ e.type = "request" /\ e.file = f /\ e.first = k + P + 1 /\ e.last = k + 2 * P
    BY <1>5, <1>10
  <2>2. e.first .. e.last = NextWindow(k)
    BY <1>2, <1>10, <2>1 DEF NextWindow
  <2> QED BY <1>3, <1>8, <1>10, <2>1, <2>2
<1> QED BY <1>4, <1>6, <1>7, <1>9, <1>10

LEMMA FlowClientDataRead ==
  ASSUME FileTransferAssumption, IInv, IInv', Flow, ClientFileDataRead
  PROVE  Flow'
<1>1. Client \in Processes /\ signals[Client] # <<>> /\ TakeSignal(Client)
      /\ UNCHANGED <<reads, writes, asks>>
  BY ClientIsNoAdmin DEF ClientFileDataRead, Signalled
<1>2. PICK signal \in Signals : signal = Head(signals[Client])
  BY <1>1, HeadSignal
<1>3. PICK mine : mine = {request \in requests[Client] : request[1] = signal.id}
  OBVIOUS
<1>4. PICK set : set = {Data(request[2], signal) : request \in mine}
  OBVIOUS
<1>5. Send(Client, SetToSeq(set))
  BY <1>2, <1>3, <1>4 DEF ClientFileDataRead
<1>6. RequestsFine(Client) /\ requests \in [Processes -> SUBSET (Nat \X Sockets)]
  BY <1>1 DEF IInv, Fine, IdsFine, Types, WorkTypes
<1>7. CASE mine = {}
  <2>1. set = {}
    BY <1>4, <1>7
  <2>2. set \in SUBSET Packets /\ IsFiniteSet(set)
    BY <2>1, FS_EmptySet
  <2>3. PICK packets \in Seq(Packets) : packets = SetToSeq(set) /\ ToSet(packets) \subseteq set
    BY <2>2, SetToSeqFacts
  <2>4. Brief(packets) /\ GoesOn(signal, packets)
    BY <2>1, <2>3, NothingGoesOn
  <2> QED BY <1>1, <1>2, <1>5, <2>3, <2>4, FlowTold
<1>8. ASSUME NEW r \in mine PROVE Flow'
  <2>1. mine = {r}
    BY <1>3, <1>6 DEF RequestsFine
  <2>2. r \in Nat \X Sockets
    BY <1>1, <1>3, <1>6
  <2>3. PICK s \in Sockets : s = r[2]
    BY <2>2
  <2>4. PICK d \in Packets : d = Data(s, signal)
    BY DataFacts
  <2>5. set = {d}
    BY <1>4, <2>1, <2>3, <2>4
  <2>6. IsFiniteSet(set) /\ Cardinality(set) = 1 /\ set \in SUBSET Packets
    BY <2>5, FS_Singleton
  <2>7. PICK packets \in Seq(Packets) : /\ packets = SetToSeq(set) /\ ToSet(packets) \subseteq set
                                        /\ packets \in [1 .. 1 -> set]
    BY <2>6, SetToSeqFacts
  <2>8. Brief(packets)
    <3>1. Len(packets) = 1
      BY <2>7
    <3> QED BY <3>1 DEF Brief
  <2>9. GoesOn(signal, packets)
    BY <2>4, <2>5, <2>7, DataGoesOn
  <2> QED BY <1>1, <1>2, <1>5, <2>7, <2>8, <2>9, FlowTold
<1> QED BY <1>7, <1>8

LEMMA FlowAdminDataRead ==
  ASSUME FileTransferAssumption, IInv, IInv', Flow, NEW admin \in Admins, AdminFileDataRead(admin)
  PROVE  Flow'
<1>1. admin \in Processes /\ signals[admin] # <<>> /\ TakeSignal(admin)
      /\ UNCHANGED <<reads, writes, asks>>
  BY ClientIsNoAdmin DEF AdminFileDataRead, Signalled
<1>2. PICK signal \in Signals : signal = Head(signals[admin])
  BY <1>1, HeadSignal
<1>3. \/ Send(admin, <<>>)
      \/ peer[admin] # NoSocket /\ Send(admin, <<Data(peer[admin], signal)>>)
  BY <1>2 DEF AdminFileDataRead
<1>4. CASE Send(admin, <<>>)
  <2>1. PICK none \in Seq(Packets) : none = <<>> /\ ToSet(none) = {}
    BY NoElement
  <2>2. Brief(none) /\ GoesOn(signal, none)
    BY <2>1, NothingGoesOn
  <2> QED BY <1>1, <1>2, <1>4, <2>1, <2>2, FlowTold
<1>5. CASE peer[admin] # NoSocket /\ Send(admin, <<Data(peer[admin], signal)>>)
  <2>1. PICK s \in Sockets : s = peer[admin]
    BY <1>5 DEF IInv, Types, LinkTypes
  <2>2. PICK d \in Packets : d = Data(s, signal)
    BY DataFacts
  <2>3. PICK packets \in Seq(Packets) :
          packets = <<d>> /\ ToSet(packets) = {d} /\ Brief(packets)
    BY OneElement, BriefPackets
  <2>4. GoesOn(signal, packets)
    BY <2>2, <2>3, DataGoesOn
  <2>5. Send(admin, packets)
    BY <1>5, <2>1, <2>2, <2>3
  <2> QED BY <1>1, <1>2, <2>3, <2>4, <2>5, FlowTold
<1> QED BY <1>3, <1>4, <1>5

LEMMA FlowError ==
  ASSUME FileTransferAssumption, IInv, Flow, NEW p \in Processes, FileTXError(p)
  PROVE  Flow'
<1>1. /\ Types /\ signals[p] # <<>> /\ TakeSignal(p)
      /\ UNCHANGED <<inbox, reads, writes, asks>>
  BY DEF FileTXError, Signalled, IInv
<1> QED BY <1>1, FlowSilent

LEMMA FlowClientVerified ==
  ASSUME FileTransferAssumption, IInv, IInv', Flow, ClientPieceVerified
  PROVE  Flow'
<1>1. /\ Client \in Processes /\ signals[Client] # <<>> /\ TakeSignal(Client) /\ Types
      /\ UNCHANGED <<reads, writes, asks>>
  BY ClientIsNoAdmin DEF ClientPieceVerified, Signalled, IInv
<1>2. PICK signal \in Signals : signal = Head(signals[Client])
  BY <1>1, HeadSignal
<1>3. PICK f \in Files : f = signal.file
  BY SignalFacts
<1>4. \/ Send(Client, DoneToAll(f))
      \/ UNCHANGED inbox
      \/ \E s \in Watching(f) : Send(Client, NextRequest(s, signal))
  BY <1>2, <1>3 DEF ClientPieceVerified
<1>5. CASE Send(Client, DoneToAll(f))
  <2>1. PICK packets \in Seq(Packets) :
          /\ packets = DoneToAll(f)
          /\ \A e \in ToSet(packets) : \E s \in Watching(f) : e = Say("done", s, f)
    BY <1>1, DoneToAllFacts
  <2>2. \A e \in ToSet(packets) : e.type \notin Brings
    BY <2>1 DEF Say, Brings, Asks
  <2>3. Brief(packets) /\ GoesOn(signal, packets)
    BY <2>2, NothingGoesOn
  <2> QED BY <1>1, <1>2, <1>5, <2>1, <2>3, FlowTold
<1>6. CASE UNCHANGED inbox
  BY <1>1, <1>6, FlowSilent
<1>7. ASSUME NEW s \in Watching(f), Send(Client, NextRequest(s, signal)) PROVE Flow'
  <2>1. s \in Sockets
    BY DEF Watching
  <2>2. PICK packets \in Seq(Packets) :
          packets = NextRequest(s, signal) /\ Brief(packets) /\ GoesOn(signal, packets)
    BY <2>1, RequestGoesOn
  <2> QED BY <1>1, <1>2, <1>7, <2>2, FlowTold
<1> QED BY <1>4, <1>5, <1>6, <1>7

LEMMA FlowAdminVerified ==
  ASSUME FileTransferAssumption, IInv, IInv', Flow, NEW admin \in Admins, AdminPieceVerified(admin)
  PROVE  Flow'
<1>1. /\ admin \in Processes /\ signals[admin] # <<>> /\ TakeSignal(admin)
      /\ UNCHANGED <<reads, writes, asks>>
  BY ClientIsNoAdmin DEF AdminPieceVerified, Signalled
<1>2. PICK signal \in Signals : signal = Head(signals[admin])
  BY <1>1, HeadSignal
<1>3. PICK f \in Files : f = signal.file
  BY SignalFacts
<1>4. \/ Send(admin, <<>>)
      \/ /\ peer[admin] # NoSocket
         /\ \/ Send(admin, <<Say("done", peer[admin], f)>>)
            \/ Send(admin, NextRequest(peer[admin], signal))
  BY <1>2, <1>3 DEF AdminPieceVerified
<1>5. CASE Send(admin, <<>>)
  <2>1. PICK none \in Seq(Packets) : none = <<>> /\ ToSet(none) = {}
    BY NoElement
  <2>2. Brief(none) /\ GoesOn(signal, none)
    BY <2>1, NothingGoesOn
  <2> QED BY <1>1, <1>2, <1>5, <2>1, <2>2, FlowTold
<1>6. ASSUME NEW s \in Sockets, Send(admin, <<Say("done", s, f)>>) PROVE Flow'
  <2>1. PICK e \in Packets : e = Say("done", s, f) /\ e.type = "done"
    BY MadePackets
  <2>2. PICK packets \in Seq(Packets) : packets = <<e>> /\ ToSet(packets) = {e}
    BY OneElement
  <2>3. \A x \in ToSet(packets) : x.type \notin Brings
    BY <2>1, <2>2 DEF Brings, Asks
  <2>4. Brief(packets) /\ GoesOn(signal, packets)
    BY <2>3, NothingGoesOn
  <2>5. Send(admin, packets)
    BY <1>6, <2>1, <2>2
  <2> QED BY <1>1, <1>2, <2>4, <2>5, FlowTold
<1>7. ASSUME NEW s \in Sockets, Send(admin, NextRequest(s, signal)) PROVE Flow'
  <2>1. PICK packets \in Seq(Packets) :
          packets = NextRequest(s, signal) /\ Brief(packets) /\ GoesOn(signal, packets)
    BY RequestGoesOn
  <2> QED BY <1>1, <1>2, <1>7, <2>1, FlowTold
<1>8. peer[admin] # NoSocket => peer[admin] \in Sockets
  BY DEF IInv, Types, LinkTypes
<1> QED BY <1>4, <1>5, <1>6, <1>7, <1>8

-----------------------------------------------------------------------------
(* What is on its way stays limited                                        *)

LEMMA FlowStarts ==
  ASSUME FileTransferAssumption, Init
  PROVE  Flow
<1>1. \A p \in Processes : /\ inbox[p] = <<>> /\ reads[p] = <<>>
                           /\ writes[p] = <<>> /\ signals[p] = <<>>
  BY DEF Init
<1>2. Len(<<>>) = 0 /\ ToSet(<<>>) = {}
  BY NoElement
<1>3. \A items : /\ Spots(inbox, items) = {} /\ Spots(reads, items) = {}
                 /\ Spots(writes, items) = {} /\ Spots(signals, items) = {}
  BY <1>1, <1>2 DEF Spots
<1>4. IsFiniteSet({}) /\ Cardinality({}) = 0
  BY FS_EmptySet
<1>5. \A f \in Files : asks[f] = 0
  BY DEF Init
<1>6. ASSUME NEW f \in Files, NEW C \in Chains PROVE Limited(f, C)
  <2>1. /\ Spots(inbox, Bringing(f, C)) = {} /\ Spots(reads, Reading(f, C)) = {}
        /\ Spots(writes, Writing(f, C)) = {} /\ Spots(signals, Signalling(f, C)) = {}
    BY <1>3
  <2>2. 0 + 0 + 0 + 0 <= asks[f]
    BY <1>5
  <2> QED BY <1>4, <2>1, <2>2 DEF Limited
<1>7. Singles
  BY <1>1, <1>2 DEF Singles
<1> QED BY <1>6, <1>7 DEF Flow, Thin

\* One step for each action.
LEMMA FlowPreserved ==
  ASSUME FileTransferAssumption, IInv, IInv', Flow, [Next]_vars
  PROVE  Flow'
<1>1. ASSUME UNCHANGED <<inbox, reads, writes, signals, asks>> PROVE Flow'
  BY <1>1, FlowStays DEF IInv
<1>2. CASE \E admin \in Admins, socket \in Sockets : Connect(admin, socket)
  BY <1>1, <1>2 DEF Connect, workVars
<1>3. CASE \E admin \in Admins, file \in Files : RequestUploadFilesToRemote(admin, file)
  BY <1>3, FlowUploadAsked
<1>4. CASE \E admin \in Admins, file \in Files : RequestDownloadFileFromRemote(admin, file)
  BY <1>4, FlowDownloadAsked
<1>5. ASSUME NEW admin \in Admins, AdminPackets(admin) PROVE Flow'
  <2>1. admin \in Processes
    BY ClientIsNoAdmin
  <2>2. CASE \/ Ignore(admin) \/ FileUploadRequestRefused(admin) \/ AdminFileTXDone(admin)
    <3>1. inbox[admin] # <<>> /\ UNCHANGED <<reads, writes, signals, asks>> /\ Reply(admin, <<>>)
      BY <2>2 DEF Ignore, FileUploadRequestRefused, AdminFileTXDone, Receives, workVars
    <3> QED BY <2>1, <3>1, FlowQuiet
  <2>3. CASE AdminFileDataRequested(admin)
    <3>1. /\ Receives(admin, "request")
          /\ ReadPieces(admin, Head(inbox[admin]).socket, Head(inbox[admin]).file,
                        Head(inbox[admin]).first, Head(inbox[admin]).last)
          /\ Reply(admin, <<>>) /\ UNCHANGED <<writes, signals, asks>>
      BY <2>3 DEF AdminFileDataRequested
    <3> QED BY <2>1, <3>1, FlowRequested
  <2>4. CASE AdminFileDataReceived(admin)
    <3>1. /\ Receives(admin, "data") /\ QueueWrite(admin, Head(inbox[admin]))
          /\ Reply(admin, <<>>) /\ UNCHANGED <<reads, signals, asks>>
      BY <2>4 DEF AdminFileDataReceived
    <3> QED BY <2>1, <3>1, FlowReceived
  <2> QED BY <1>5, <2>2, <2>3, <2>4, FlowAccepted DEF AdminPackets
<1>6. ASSUME NEW admin \in Admins, AdminSignals(admin) PROVE Flow'
  <2>1. admin \in Processes
    BY ClientIsNoAdmin
  <2> QED BY <1>6, <2>1, FlowAdminDataRead, FlowError, FlowAdminVerified DEF AdminSignals
<1>7. CASE \E admin \in Admins : AdminPeerDisconnected(admin)
  BY <1>1, <1>7 DEF AdminPeerDisconnected, AdminForgets, workVars
<1>8. CASE \E socket \in Sockets : Break(socket) \/ ClientPeerDisconnected(socket)
  BY <1>1, <1>8 DEF Break, ClientPeerDisconnected, ClientForgets, workVars
<1>9. CASE \E p \in Processes, socket \in Sockets : Lose(p, socket)
  BY <1>9, FlowLost
<1>10. CASE \E p \in Processes : ReadBlock(p) \/ WriteBlock(p)
  BY <1>10, FlowRead, FlowWritten
<1>11. CASE DenyFileDownload \/ DieOfFirst
  BY <1>11, FlowDies DEF DenyFileDownload, DieOfFirst
<1>12. CASE ClientPackets
  <2>1. Client \in Processes
    BY ClientIsNoAdmin
  <2>2. CASE ClientFileTXDone
    <3>1. /\ inbox[Client] # <<>> /\ UNCHANGED <<reads, writes, signals, asks>>
          /\ Reply(Client, <<>>)
      BY <2>2 DEF ClientFileTXDone, Receives, workVars
    <3> QED BY <2>1, <3>1, FlowQuiet
  <2>3. CASE ClientFileDataRequested
    <3>1. /\ Receives(Client, "request")
          /\ ReadPieces(Client, Head(inbox[Client]).socket, Head(inbox[Client]).file,
                        Head(inbox[Client]).first, Head(inbox[Client]).last)
          /\ Reply(Client, <<>>) /\ UNCHANGED <<writes, signals, asks>>
      BY <2>3 DEF ClientFileDataRequested
    <3> QED BY <2>1, <3>1, FlowRequested
  <2>4. CASE ClientFileDataReceived
    <3>1. /\ Receives(Client, "data") /\ QueueWrite(Client, Head(inbox[Client]))
          /\ Reply(Client, <<>>) /\ UNCHANGED <<reads, signals, asks>>
      BY <2>4 DEF ClientFileDataReceived
    <3> QED BY <2>1, <3>1, FlowReceived
  <2> QED BY <1>11, <1>12, <2>2, <2>3, <2>4, FlowUploadAnswered, FlowDownloadAnswered
          DEF ClientPackets
<1>13. CASE ClientSignals
  <2>1. Client \in Processes
    BY ClientIsNoAdmin
  <2> QED BY <1>11, <1>13, <2>1, FlowClientDataRead, FlowError, FlowClientVerified
          DEF ClientSignals
<1>14. CASE UNCHANGED vars
  BY <1>1, <1>14 DEF vars, workVars
<1>15. Next \/ UNCHANGED vars
  OBVIOUS
<1> QED BY <1>2, <1>3, <1>4, <1>5, <1>6, <1>7, <1>8, <1>9, <1>10, <1>12, <1>13, <1>14, <1>15
        DEF Next

\* What is on its way of a piece is of a chain of the piece.
LEMMA OccurrencesAreSpots ==
  ASSUME FileTransferAssumption, NEW S, NEW queues \in [Processes -> Seq(S)], NEW items, NEW places,
         places \in SUBSET (UNION {{p} \X DOMAIN queues[p] : p \in Processes}),
         \A place \in places : queues[place[1]][place[2]] \in items,
         IsFiniteSet(Spots(queues, items))
  PROVE  /\ Cardinality(places) \in Nat
         /\ Cardinality(places) <= Cardinality(Spots(queues, items))
<1>1. ASSUME NEW place \in places PROVE place \in Spots(queues, items)
  <2>1. PICK p \in Processes : place \in {p} \X DOMAIN queues[p]
    OBVIOUS
  <2>2. PICK q \in Seq(S) : q = queues[p]
    OBVIOUS
  <2>3. DOMAIN q = 1 .. Len(q) /\ Len(q) \in Nat
    BY LenProperties
  <2>4. PICK i \in 1 .. Len(q) : place = <<p, i>>
    BY <2>1, <2>2, <2>3
  <2>5. i \in Nat /\ i \in 1 .. Len(queues[p]) /\ queues[p][i] \in items
    BY <2>2, <2>3, <2>4
  <2> QED BY <2>4, <2>5 DEF Spots
<1>2. places \subseteq Spots(queues, items)
  BY <1>1
<1>3. IsFiniteSet(places) /\ Cardinality(places) <= Cardinality(Spots(queues, items))
  BY <1>2, FS_Subset
<1> QED BY <1>3, FS_CardinalityType

LEMMA FlowLimits ==
  ASSUME FileTransferAssumption, IInv, Flow, NEW f \in Files, NEW k \in Pieces(f)
  PROVE  InFlight(f, k) <= asks[f]
<1>1. k \in Nat
  BY PiecesAreIndices
<1>2. PICK C \in Chains : k \in C
  BY <1>1, ChainTo
<1>3. Limited(f, C) /\ asks[f] \in Nat
  BY AsksAreNumbers DEF Flow, Thin, IInv
<1>4. /\ inbox \in [Processes -> Seq(Packets)] /\ reads \in [Processes -> Seq(ReadRequest)]
      /\ writes \in [Processes -> Seq(Writes)] /\ signals \in [Processes -> Seq(Signals)]
  BY DEF IInv, Types, PacketTypes, WorkTypes
<1> DEFINE Places(queues) == UNION {{p} \X DOMAIN queues[p] : p \in Processes}
           Carries(packet) ==
             /\ packet.file = f
             /\ \/ packet.type = "request" /\ k \in packet.first .. packet.last
                \/ packet.type = "data" /\ packet.piece = k
           IsIt(item) == item.file = f /\ item.piece = k
<1>5. ASSUME NEW S, NEW queues \in [Processes -> Seq(S)], NEW place \in Places(queues)
      PROVE  queues[place[1]][place[2]] \in S
  <2>1. PICK p \in Processes : place \in {p} \X DOMAIN queues[p]
    OBVIOUS
  <2>2. PICK q \in Seq(S) : q = queues[p]
    OBVIOUS
  <2>3. DOMAIN q = 1 .. Len(q)
    BY LenProperties
  <2>4. PICK i \in 1 .. Len(q) : place = <<p, i>>
    BY <2>1, <2>2, <2>3
  <2>5. q[i] \in S
    OBVIOUS
  <2> QED BY <2>2, <2>4, <2>5
<1>6. PICK a, b, c, d :
        /\ a = { place \in Places(inbox) : Carries(inbox[place[1]][place[2]]) }
        /\ b = { place \in Places(reads) : IsIt(reads[place[1]][place[2]]) }
        /\ c = { place \in Places(writes) : IsIt(writes[place[1]][place[2]]) }
        /\ d = { place \in Places(signals) : IsIt(signals[place[1]][place[2]]) }
  OBVIOUS
<1>7. InFlight(f, k) = Cardinality(a) + Cardinality(b) + Cardinality(c) + Cardinality(d)
  BY <1>6 DEF InFlight, Occurrences
<1> HIDE DEF Places
<1>8. ASSUME NEW place \in a PROVE inbox[place[1]][place[2]] \in Bringing(f, C)
  <2>1. PICK e : e = inbox[place[1]][place[2]]
    OBVIOUS
  <2>2. e \in Packets /\ Carries(e)
    BY <1>4, <1>5, <1>6, <2>1
  <2> QED BY <1>2, <2>1, <2>2 DEF Bringing
<1>9. \A place \in b : reads[place[1]][place[2]] \in Reading(f, C)
  BY <1>2, <1>4, <1>5, <1>6 DEF Reading
<1>10. \A place \in c : writes[place[1]][place[2]] \in Writing(f, C)
  BY <1>2, <1>4, <1>5, <1>6 DEF Writing
<1>11. \A place \in d : signals[place[1]][place[2]] \in Signalling(f, C)
  BY <1>2, <1>4, <1>5, <1>6 DEF Signalling
<1>12. /\ a \in SUBSET Places(inbox) /\ b \in SUBSET Places(reads)
       /\ c \in SUBSET Places(writes) /\ d \in SUBSET Places(signals)
  BY <1>6
<1>13. Cardinality(a) \in Nat /\ Cardinality(a) <= Cardinality(Spots(inbox, Bringing(f, C)))
  BY <1>3, <1>4, <1>8, <1>12, OccurrencesAreSpots DEF Limited, Places
<1>14. Cardinality(b) \in Nat /\ Cardinality(b) <= Cardinality(Spots(reads, Reading(f, C)))
  BY <1>3, <1>4, <1>9, <1>12, OccurrencesAreSpots DEF Limited, Places
<1>15. Cardinality(c) \in Nat /\ Cardinality(c) <= Cardinality(Spots(writes, Writing(f, C)))
  BY <1>3, <1>4, <1>10, <1>12, OccurrencesAreSpots DEF Limited, Places
<1>16. Cardinality(d) \in Nat /\ Cardinality(d) <= Cardinality(Spots(signals, Signalling(f, C)))
  BY <1>3, <1>4, <1>11, <1>12, OccurrencesAreSpots DEF Limited, Places
<1>17. PICK i \in Nat, r \in Nat, w \in Nat, s \in Nat :
         /\ i = Cardinality(Spots(inbox, Bringing(f, C)))
         /\ r = Cardinality(Spots(reads, Reading(f, C)))
         /\ w = Cardinality(Spots(writes, Writing(f, C)))
         /\ s = Cardinality(Spots(signals, Signalling(f, C)))
         /\ i + r + w + s <= asks[f]
  BY <1>3, FS_CardinalityType DEF Limited
<1> QED BY <1>3, <1>7, <1>13, <1>14, <1>15, <1>16, <1>17

-----------------------------------------------------------------------------
(* Theorems                                                                *)

\* The inductive invariant holds of every behaviour: for any administrators, connections,
\* files, sizes of windows and bounds, whatever is lost or damaged and whoever takes over.
THEOREM TransfersHold == Spec => []IInv
<1>1. FileTransferAssumption
  BY FileTransferAssumption
<1>2. Init => IInv
  BY <1>1, InitIsFine
<1>3. IInv /\ [Next]_vars => IInv'
  BY <1>1, NextPreserves
<1> QED BY <1>2, <1>3, PTL DEF Spec

\* The members of ClientService, FileManagement and their FileManagers keep their types.  A
\* window that is asked for (pieceVerified() on either side) reaches at most two windows
\* behind the end of a file, what is sent and written is a piece of the file, and
\* fileTXSocketHash has a file no more often than its transfer was asked for.
THEOREM TypesCorrect == Spec => []TypeOK
<1>1. IInv => TypeOK
  BY FileTransferAssumption, FineTypes
<1> QED BY <1>1, TransfersHold, PTL

\* What readPiece() has read goes over a connection only when the piece was asked for over
\* that connection (fileDataRead() on either side, fileTXRequestHash and fileTXRequestList).
THEOREM DataIsAskedFor == Spec => []DataWasAskedFor
<1>1. IInv => DataWasAskedFor
  BY DEF IInv, Fine, PacketsFine, PacketFine, DataWasAskedFor
<1> QED BY <1>1, TransfersHold, PTL

\* While a connection is up, whoever is asked for a piece over it has the file open, or the
\* other end has all of it, and so for whoever receives one: peerDisconnected(), fileTXDone()
\* and a new administrator close no file under a transfer of another, except for the
\* administrator whom pieceVerified() told too early that the file is done.
THEOREM OpenWhileAsked == Spec => []FilesStayOpen
<1>1. ASSUME IInv PROVE FilesStayOpen
  BY <1>1, FileTransferAssumption, SenderFacts, ReceiverFacts DEF FilesStayOpen
<1> QED BY <1>1, TransfersHold, PTL

\* Without UDT sockets, whose closing no disconnected() follows, a client without connections
\* has no file open: peerDisconnected() of ClientService closes what only the lost socket used,
\* and a request that is handled later closes its file again when the answer cannot be sent.
THEOREM NothingStaysOpen ==
  ASSUME UDTSockets = {}
  PROVE  Spec => []NothingLeftOpen
<1>1. IInv => NothingLeftOpen
  BY FileTransferAssumption, HeldEntries
<1> QED BY <1>1, TransfersHold, PTL

\* What the inductive invariant and the limit on what is on its way say together, in every
\* behaviour: of the packets, requests and signals of a file that are about a chain of its pieces,
\* there are no more than its transfer was asked for.
THEOREM FlowHolds == Spec => [](IInv /\ Flow)
<1>1. FileTransferAssumption
  BY FileTransferAssumption
<1>2. Init => IInv /\ Flow
  BY <1>1, InitIsFine, FlowStarts
<1>3. (IInv /\ Flow) /\ [Next]_vars => (IInv /\ Flow)'
  <2>1. ASSUME IInv, Flow, [Next]_vars PROVE IInv' /\ Flow'
    BY <1>1, <2>1, NextPreserves, FlowPreserved
  <2> QED BY <2>1
<1> QED BY <1>2, <1>3, PTL DEF Spec

\* A piece of a file is on its way, from the request for it to the signal that it is verified, no
\* more often than the transfer of the file was asked for: the windows that pieceVerified() asks
\* for on either side do not overlap, whatever is damaged, lost or handled late.
THEOREM NothingAskedTwice == Spec => []NoPieceAskedTwice
<1>1. IInv /\ Flow => NoPieceAskedTwice
  BY FileTransferAssumption, FlowLimits DEF NoPieceAskedTwice
<1> QED BY <1>1, FlowHolds, PTL
=============================================================================
