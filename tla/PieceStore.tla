----------------------------- MODULE PieceStore -----------------------------
(***************************************************************************)
(* What FileManager promises to whoever hands it verified pieces of a file *)
(* (APP/src/managementsystem/sharedms/filemanager.cpp): a piece that has   *)
(* reached the disk stays there, through crashes and restarts, and a file  *)
(* appears under its own name only once it is whole.                       *)
(***************************************************************************)
EXTENDS Naturals

CONSTANTS
  Files,      \* the files, named by the MD5 sum of their content
  Paths,      \* the local save paths
  NumPieces   \* how many pieces each file is cut into

VARIABLES
  stored,     \* stored[path]: the <<file, piece>> blocks that are on disk
  published   \* the paths whose file has its final name

storeVars == <<stored, published>>

Pieces(file) == 0 .. NumPieces[file] - 1
Whole(file)  == {file} \X Pieces(file)

-----------------------------------------------------------------------------
Init ==
  /\ stored = [path \in Paths |-> {}]
  /\ published = {}

\* A piece reaches the disk; nothing that was there is lost.
Store(path, file, piece) ==
  /\ stored' = [stored EXCEPT ![path] = @ \cup {<<file, piece>>}]
  /\ UNCHANGED published

\* The file takes its final name.
Publish(path) ==
  /\ \E file \in Files : stored[path] = Whole(file)
  /\ published' = published \cup {path}
  /\ UNCHANGED stored

Next ==
  \E path \in Paths :
    \/ \E file \in Files : \E piece \in Pieces(file) : Store(path, file, piece)
    \/ Publish(path)

Spec == Init /\ [][Next]_storeVars
=============================================================================
