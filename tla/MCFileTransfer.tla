--------------------------- MODULE MCFileTransfer ---------------------------
(***************************************************************************)
(* FileTransfer on small instances: f1 is uploaded, f2 downloaded, by one  *)
(* administrator or by two, over one connection or over two.               *)
(***************************************************************************)
EXTENDS FileTransfer

CONSTANTS c, a1, a2, s1, s2, s3, f1, f2

Nothing    == {}
OneAdmin   == {a1}
TwoAdmins  == {a1, a2}
OneSocket  == {s1}
TwoSockets == {s1, s2}
TwoFiles   == {f1, f2}
FirstFile  == {f1}
UpFirst    == [admin \in Admins |-> {f1}]
UpOnlyA1   == [admin \in Admins |-> IF admin = a1 THEN {f1} ELSE {}]
SecondFile == {f2}

\* Every connection is a1's, or each administrator has one.
OwnedByOne == [socket \in Sockets |-> a1]
ThreeSockets == {s1, s2, s3}
LastIsA2 == [socket \in Sockets |-> IF socket = s3 THEN a2 ELSE a1]
OneEach    == [socket \in Sockets |-> IF socket = s1 THEN a1 ELSE a2]

TwoPieces   == [file \in Files |-> 2]
ThreePieces == [file \in Files |-> 3]
SixPieces   == [file \in Files |-> 6]
=============================================================================
