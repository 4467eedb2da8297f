--------------------------- MODULE MCFileManager ----------------------------
(***************************************************************************)
(* FileManager on small instances: one file of two or three pieces,        *)
(* received to one path.                                                   *)
(***************************************************************************)
EXTENDS FileManagerProofs

CONSTANTS f1, p1

OneFile   == {f1}
OnePath   == {p1}
AllTargets == Files \X Paths
TwoPieces   == [file \in Files |-> 2]
ThreePieces == [file \in Files |-> 3]
=============================================================================
