---------------------------- MODULE FileManager -----------------------------
(***************************************************************************)
(* FileManager (APP/src/managementsystem/sharedms/filemanager.cpp, with a  *)
(* twin in APP/src/messenger/sharedim): a QThread that reads and writes    *)
(* the pieces of files in transmission.  Its owner, the thread of the main *)
(* event loop, opens and closes files and queues read and write requests;  *)
(* the worker thread takes the requests in batches and works on the disk.  *)
(*                                                                         *)
(* A step is one critical section of `mutex', or one effect on the disk,   *)
(* so that the process may die between any two effects.  A piece of a file *)
(* is a block <<file, piece>>: files are named by their MD5 sums, so a     *)
(* block says which content it is.                                         *)
(***************************************************************************)
EXTENDS Naturals, Sequences, FiniteSets

CONSTANTS
  Files,         \* files that are transmitted, named by MD5 sum
  Paths,         \* local save paths
  Targets,       \* the <<file, path>> pairs the owner asks to receive
  NumPieces,     \* NumPieces[file]: size / FILE_PIECE_LENGTH, rounded up
  PersistEvery,  \* every how many pieces the bitmap is saved (25)
  MaxReads, MaxWrites, \* bounds on the request queues
  NoFile, NoInfo \* stand for a missing MD5 sum and a null pointer

ASSUME FileManagerAssumption ==
  /\ Targets \subseteq Files \X Paths
  /\ NumPieces \in [Files -> Nat]
  /\ PersistEvery \in Nat \ {0}
  /\ MaxReads \in Nat /\ MaxWrites \in Nat
  /\ NoFile \notin Files

Pieces(file) == 0 .. NumPieces[file] - 1
Whole(file)  == {file} \X Pieces(file)
Blocks       == UNION {Whole(file) : file \in Files}

\* Indices a peer may ask for: those of a file and the one after its last.
Indices == UNION {0 .. NumPieces[file] : file \in Files}

VARIABLES
  disk,           \* disk[path]: the .tf file, the .fi file and the file itself
  metaInfo,       \* fileMetaInfoHash: from MD5 sum to FileMetaInfo
  readRequests, writeRequests,        \* the queues, guarded by the mutex
  wokeUp,         \* m_wokeUp
  posted,         \* wakeUp() calls waiting in the owner's event loop
  quit,           \* m_quit
  locked,         \* whether the worker holds the mutex between two steps
  worker,         \* where the worker thread is in run()
  newReadRequests, newWriteRequests,  \* the batches the worker has taken
  flushing,       \* whether run() has left its loop
  main,           \* where the owner's thread is
  opening         \* what the owner is opening, NoInfo when it is not

diskVars   == <<disk, metaInfo>>
queueVars  == <<readRequests, writeRequests, wokeUp, posted>>
batchVars  == <<newReadRequests, newWriteRequests>>
workerVars == <<worker, locked, flushing, newReadRequests, newWriteRequests>>
mainVars   == <<main, opening, quit>>
vars == <<diskVars, queueVars, workerVars, mainVars>>

-----------------------------------------------------------------------------
(* Data.                                                                   *)

Place == [hasTemp  : BOOLEAN,              \* <path>.tf exists
          temp     : SUBSET Blocks,        \* the blocks written to it
          hasFinal : BOOLEAN,              \* <path> exists
          final    : SUBSET Blocks,
          md5      : Files \cup {NoFile},  \* <path>.fi: "MD5" (and "size")
          pieces   : SUBSET Nat,           \* <path>.fi: the bits of "Pieces"
          length   : Nat]                  \* <path>.fi: its number of bits

Meta == [path           : Paths,
         temporary      : BOOLEAN,     \* file->fileName() ends in .tf
         receiving      : BOOLEAN,     \* infoFileName is not empty
         verifiedPieces : SUBSET Nat,
         length         : Nat]         \* verifiedPieces.size()

ASSUME NoInfoAssumption == NoInfo \notin Meta

Opening == [file : Files, path : Paths, meta : Meta \cup {NoInfo}]

ReadRequest  == [file : Files, piece : Indices]
WriteRequest == {request \in [file : Files, piece : Nat, intact : BOOLEAN] :
                   request.piece \in Pieces(request.file)}

EmptyPlace == [hasTemp |-> FALSE, temp |-> {}, hasFinal |-> FALSE, final |-> {},
               md5 |-> NoFile, pieces |-> {}, length |-> 0]

WorkerSteps == {"check", "sleep", "waiting", "takeReads", "reads", "readBlock",
                "takeWrites", "writes", "persist", "publish", "removeInfo",
                "loop", "flush", "finished"}
MainSteps == {"running", "lookup", "prepare", "insert", "destroying", "gone"}

IsOpen(file) == metaInfo[file] # NoInfo

\* Whether a FileMetaInfo's file is the temporary (or final) file of path.
Names(file, path, temporary) ==
  /\ IsOpen(file)
  /\ metaInfo[file].path = path
  /\ metaInfo[file].temporary = temporary

\* Mutant: the file is opened WriteOnly, which empties it.
OverwriteTruncating(content, file, piece) ==
  {<<file, piece>>}

\* Overwrites one piece of a file on the disk.
Overwrite(content, file, piece) ==
  {block \in content : block[2] # piece} \cup {<<file, piece>>}

-----------------------------------------------------------------------------
Init ==
  /\ disk = [path \in Paths |-> EmptyPlace]
  /\ metaInfo = [file \in Files |-> NoInfo]
  /\ readRequests = <<>> /\ newReadRequests = <<>>
  /\ writeRequests = <<>> /\ newWriteRequests = <<>>
  /\ wokeUp = FALSE /\ posted = 0
  /\ quit = FALSE /\ locked = FALSE /\ flushing = FALSE
  /\ worker = "check"
  /\ main = "running"
  /\ opening = NoInfo

-----------------------------------------------------------------------------
(* The owner's thread.                                                     *)

\* cond.wakeOne(): it wakes the worker if the worker is waiting, and is
\* forgotten otherwise.
WakeOne == worker' = IF worker = "waiting" THEN "takeReads" ELSE worker

\* What readPiece() and writePiece() do once the request is queued.
PostWakeUp ==
  /\ wokeUp' = TRUE
  /\ posted' = IF wokeUp THEN posted ELSE posted + 1

ReadPiece(file, piece) ==
  /\ main = "running" /\ ~locked
  /\ Len(readRequests) < MaxReads
  /\ readRequests' = Append(readRequests, [file |-> file, piece |-> piece])
  /\ PostWakeUp
  /\ UNCHANGED <<diskVars, writeRequests, workerVars, mainVars>>

\* intact: the hash sent along is the hash of the data.
WritePiece(file, piece, intact) ==
  /\ main = "running" /\ ~locked
  /\ Len(writeRequests) < MaxWrites
  /\ writeRequests' = Append(writeRequests,
                             [file |-> file, piece |-> piece, intact |-> intact])
  /\ PostWakeUp
  /\ UNCHANGED <<diskVars, readRequests, workerVars, mainVars>>

\* Mutant: m_wokeUp is not reset.
WakeUpKeepingFlag ==
  /\ main = "running" /\ ~locked
  /\ posted > 0
  /\ posted' = posted - 1
  /\ UNCHANGED wokeUp
  /\ WakeOne
  /\ UNCHANGED <<diskVars, readRequests, writeRequests, locked, flushing,
                 batchVars, mainVars>>

\* The queued call of the slot wakeUp().
WakeUp ==
  /\ main = "running" /\ ~locked
  /\ posted > 0
  /\ posted' = posted - 1
  /\ wokeUp' = FALSE
  /\ WakeOne
  /\ UNCHANGED <<diskVars, readRequests, writeRequests, locked, flushing,
                 batchVars, mainVars>>

\* tryToReceiveFile(), first step: the file must not exist yet.
TryToReceiveFile(file, path) ==
  /\ main = "running"
  /\ ~disk[path].hasFinal
  /\ main' = "lookup"
  /\ opening' = [file |-> file, path |-> path, meta |-> NoInfo]
  /\ UNCHANGED <<diskVars, queueVars, workerVars, quit>>

\* Second step, under the mutex: a file that is already open as the
\* temporary file of this path is returned (same MD5) or refused.
LookupTempFile ==
  /\ main = "lookup" /\ ~locked
  /\ IF \E file \in Files : Names(file, opening.path, TRUE)
     THEN main' = "running" /\ opening' = NoInfo
     ELSE main' = "prepare" /\ UNCHANGED opening
  /\ UNCHANGED <<diskVars, queueVars, workerVars, quit>>

\* Mutant: the file is always emptied.
ResumesNever(file, path) == FALSE

\* The temporary file is kept if the info file is about the same MD5 sum.
Resumes(file, path) == disk[path].hasTemp /\ disk[path].md5 = file

\* Mutant: the bitmap of an earlier attempt is never taken over.
BitmapAnew(file, path) == [bits |-> {}, length |-> NumPieces[file]]

\* The bitmap of the info file is taken over whenever there is one.
Bitmap(file, path) ==
  IF disk[path].length > 0
  THEN [bits |-> disk[path].pieces, length |-> disk[path].length]
  ELSE [bits |-> {}, length |-> NumPieces[file]]

\* Third step: the temporary file is created, emptied or kept, and the info
\* file written.
PrepareTempFile ==
  LET path   == opening.path
      file   == opening.file
      bitmap == Bitmap(file, path)
  IN  /\ main = "prepare"
      /\ main' = "insert"
      /\ disk' = [disk EXCEPT ![path] =
           [@ EXCEPT !.hasTemp = TRUE,
                     !.temp = IF Resumes(file, path) THEN disk[path].temp ELSE {},
                     !.md5 = file, !.pieces = bitmap.bits, !.length = bitmap.length]]
      /\ opening' = [opening EXCEPT !.meta =
           [path |-> path, temporary |-> TRUE, receiving |-> TRUE,
            verifiedPieces |-> bitmap.bits, length |-> bitmap.length]]
      /\ UNCHANGED <<metaInfo, queueVars, workerVars, quit>>

\* tryToSendFile(): a file that is open under its own name is returned;
\* another one is opened and its MD5 sum computed, and all its pieces are
\* there to be read.
TryToSendFile(file, path) ==
  /\ main = "running" /\ ~locked
  /\ disk[path].hasFinal
  /\ disk[path].final = Whole(file)
  /\ \A other \in Files : ~Names(other, path, FALSE)
  /\ main' = "insert"
  /\ opening' = [file |-> file, path |-> path,
                 meta |-> [path |-> path, temporary |-> FALSE,
                           receiving |-> FALSE,
                           verifiedPieces |-> Pieces(file),
                           length |-> NumPieces[file]]]
  /\ UNCHANGED <<diskVars, queueVars, workerVars, quit>>

\* The last step of both, under the mutex.
InsertMetaInfo ==
  /\ main = "insert" /\ ~locked
  /\ metaInfo' = [metaInfo EXCEPT ![opening.file] = opening.meta]
  /\ main' = "running" /\ opening' = NoInfo
  /\ WakeOne
  /\ UNCHANGED <<disk, queueVars, locked, flushing, batchVars, quit>>

\* Mutant: the mutex is not taken.
CloseFileUnlocked(file) ==
  /\ main = "running"
  /\ metaInfo' = [metaInfo EXCEPT ![file] = NoInfo]
  /\ UNCHANGED <<disk, queueVars, workerVars, mainVars>>

CloseFile(file) ==
  /\ main = "running" /\ ~locked
  /\ metaInfo' = [metaInfo EXCEPT ![file] = NoInfo]
  /\ UNCHANGED <<disk, queueVars, workerVars, mainVars>>

\* ~FileManager(): m_quit is set and the worker woken without the mutex; the
\* owner then waits for the thread to finish.
Destroy ==
  /\ main = "running"
  /\ main' = "destroying"
  /\ quit' = TRUE
  /\ WakeOne
  /\ UNCHANGED <<diskVars, queueVars, locked, flushing, batchVars, opening>>

\* The FileManager is gone, and all that was in memory with it.
Gone ==
  /\ main' = "gone"
  /\ metaInfo' = [file \in Files |-> NoInfo]
  /\ readRequests' = <<>> /\ newReadRequests' = <<>>
  /\ writeRequests' = <<>> /\ newWriteRequests' = <<>>
  /\ wokeUp' = FALSE /\ posted' = 0
  /\ quit' = FALSE /\ locked' = FALSE /\ flushing' = FALSE
  /\ worker' = "finished"
  /\ opening' = NoInfo

\* wait() returns: the files are closed and the object deleted.
Destroyed ==
  /\ main = "destroying"
  /\ worker = "finished"
  /\ Gone
  /\ UNCHANGED disk

\* The process dies.
Crash ==
  /\ main # "gone"
  /\ Gone
  /\ UNCHANGED disk

\* The process dies inside the third step of tryToReceiveFile(), when the
\* temporary file has been resized and the info file is not written yet.
DieWhilePreparing ==
  /\ main = "prepare"
  /\ ~Resumes(opening.file, opening.path)
  /\ disk' = [disk EXCEPT ![opening.path] = [@ EXCEPT !.hasTemp = TRUE, !.temp = {}]]
  /\ Gone

\* A FileManager is made and started, in this process or the next.
Restart ==
  /\ main = "gone"
  /\ main' = "running"
  /\ worker' = "check"
  /\ UNCHANGED <<diskVars, queueVars, locked, flushing, batchVars, opening,
                 quit>>

-----------------------------------------------------------------------------
(* The worker thread: run().                                               *)

\* Mutant: the write requests are forgotten.
IdleButForWrites == ~quit /\ readRequests = <<>>

Idle == ~quit /\ readRequests = <<>> /\ writeRequests = <<>>

\* With the mutex held: is there anything to do?
CheckQueues ==
  /\ worker = "check"
  /\ IF Idle
     THEN worker' = "sleep" /\ locked' = TRUE
     ELSE worker' = "takeReads" /\ UNCHANGED locked
  /\ UNCHANGED <<diskVars, queueVars, flushing, batchVars, mainVars>>

\* cond.wait() puts the thread on the wait queue and releases the mutex.
Sleep ==
  /\ worker = "sleep"
  /\ worker' = "waiting"
  /\ locked' = FALSE
  /\ UNCHANGED <<diskVars, queueVars, flushing, batchVars, mainVars>>

\* Mutant: the wrong queue is copied.
TakeReadRequestsSwapped ==
  /\ worker = "takeReads"
  /\ newReadRequests' = writeRequests
  /\ readRequests' = <<>>
  /\ worker' = "reads"
  /\ UNCHANGED <<diskVars, writeRequests, wokeUp, posted, locked, flushing,
                 newWriteRequests, mainVars>>

TakeReadRequests ==
  /\ worker = "takeReads"
  /\ newReadRequests' = readRequests
  /\ readRequests' = <<>>
  /\ worker' = "reads"
  /\ UNCHANGED <<diskVars, writeRequests, wokeUp, posted, locked, flushing,
                 newWriteRequests, mainVars>>

\* The pointer to the FileMetaInfo is looked up without the mutex.
NextReadRequest ==
  /\ worker = "reads"
  /\ \/ /\ newReadRequests = <<>>
        /\ worker' = "takeWrites"
        /\ UNCHANGED newReadRequests
     \/ /\ newReadRequests # <<>>
        /\ LET request == Head(newReadRequests)
           IN  IF /\ IsOpen(request.file)
                  /\ request.piece < metaInfo[request.file].length
               THEN worker' = "readBlock" /\ UNCHANGED newReadRequests
               ELSE newReadRequests' = Tail(newReadRequests) /\ UNCHANGED worker
  /\ UNCHANGED <<diskVars, queueVars, locked, flushing, newWriteRequests,
                 mainVars>>

\* readBlock() and dataRead().  If closeFile() has deleted the FileMetaInfo
\* meanwhile, what is read is undefined and the process may die (Crash); the
\* disk and the queues are left alone in any case.
ReadBlock ==
  /\ worker = "readBlock"
  /\ newReadRequests' = Tail(newReadRequests)
  /\ worker' = "reads"
  /\ UNCHANGED <<diskVars, queueVars, locked, flushing, newWriteRequests,
                 mainVars>>

TakeWriteRequests ==
  /\ worker = "takeWrites"
  /\ newWriteRequests' = writeRequests
  /\ writeRequests' = <<>>
  /\ locked' = TRUE
  /\ worker' = "writes"
  /\ UNCHANGED <<diskVars, readRequests, wokeUp, posted, flushing,
                 newReadRequests, mainVars>>

\* The end of a batch: it is empty, or m_quit was found set.
EndOfBatch ==
  /\ worker = "writes"
  /\ newWriteRequests = <<>> \/ (quit /\ ~flushing)
  /\ newWriteRequests' = <<>>
  /\ locked' = FALSE
  /\ worker' = IF flushing THEN "finished" ELSE "loop"
  /\ UNCHANGED <<diskVars, queueVars, flushing, newReadRequests, mainVars>>

Request == Head(newWriteRequests)
Info    == metaInfo[Request.file]

\* A write request is taken up unless the loop is to stop.
Writing ==
  /\ worker = "writes"
  /\ newWriteRequests # <<>>
  /\ flushing \/ ~quit

\* The file was closed, or the hash is not that of the data: nothing is written.
SkipBlock ==
  /\ Writing
  /\ ~IsOpen(Request.file) \/ ~Request.intact
  /\ newWriteRequests' = Tail(newWriteRequests)
  /\ UNCHANGED <<diskVars, queueVars, worker, locked, flushing,
                 newReadRequests, mainVars>>

\* writeBlock(): the block is written and flushed, and its bit set.  A bit
\* outside the bitmap is undefined: the process dies (Crash) or the bitmap
\* keeps its value.
WriteBlock ==
  /\ Writing
  /\ IsOpen(Request.file) /\ Request.intact
  /\ LET place == disk[Info.path]
     IN  disk' = IF Info.temporary
                 THEN [disk EXCEPT ![Info.path] =
                   [@ EXCEPT !.hasTemp = TRUE,
                             !.temp = Overwrite(place.temp, Request.file, Request.piece)]]
                 ELSE [disk EXCEPT ![Info.path] =
                   [@ EXCEPT !.hasFinal = TRUE,
                             !.final = Overwrite(place.final, Request.file, Request.piece)]]
  /\ metaInfo' = [metaInfo EXCEPT ![Request.file] =
       [@ EXCEPT !.verifiedPieces = IF Request.piece < Info.length
                                    THEN Info.verifiedPieces \cup {Request.piece}
                                    ELSE Info.verifiedPieces]]
  /\ worker' = "persist"
  /\ UNCHANGED <<queueVars, locked, flushing, batchVars, mainVars>>

\* A short write leaves of a block what it has in common with the new one.
Spoil(content, file, piece) ==
  {block \in content : block[2] # piece \/ block[1] = file}

\* writeBlock(): the file cannot be opened, or the write comes up short.
FailToWrite ==
  /\ Writing
  /\ IsOpen(Request.file) /\ Request.intact
  /\ LET place == disk[Info.path]
     IN  \/ UNCHANGED disk
         \/ disk' = [disk EXCEPT ![Info.path] =
              IF Info.temporary
              THEN [@ EXCEPT !.temp = Spoil(place.temp, Request.file, Request.piece)]
              ELSE [@ EXCEPT !.final = Spoil(place.final, Request.file, Request.piece)]]
  /\ newWriteRequests' = Tail(newWriteRequests)
  /\ UNCHANGED <<metaInfo, queueVars, worker, locked, flushing,
                 newReadRequests, mainVars>>

\* Mutant: the last piece is not waited for.
CompleteOffByOne(info) == 0 .. info.length - 2 \subseteq info.verifiedPieces

\* verificationProgress == 100
Complete(info) == info.verifiedPieces = 0 .. info.length - 1

\* The bitmap goes to the info file with every 25th piece.
PersistPieces ==
  /\ worker = "persist"
  /\ disk' = IF Request.piece % PersistEvery = 0 /\ Info.receiving
             THEN [disk EXCEPT ![Info.path] =
                    [@ EXCEPT !.pieces = Info.verifiedPieces,
                              !.length = Info.length]]
             ELSE disk
  /\ IF Complete(Info)
     THEN worker' = "publish" /\ UNCHANGED newWriteRequests
     ELSE worker' = "writes" /\ newWriteRequests' = Tail(newWriteRequests)
  /\ UNCHANGED <<metaInfo, queueVars, locked, flushing, newReadRequests,
                 mainVars>>

\* The complete file is renamed.  rename() fails if there is such a file,
\* as there is when the file bears its final name already.
PublishFile ==
  /\ worker = "publish"
  /\ IF Info.temporary /\ ~disk[Info.path].hasFinal
     THEN /\ disk' = [disk EXCEPT ![Info.path] =
               [@ EXCEPT !.hasFinal = TRUE, !.final = disk[Info.path].temp,
                         !.hasTemp = FALSE, !.temp = {}]]
          /\ metaInfo' = [metaInfo EXCEPT ![Request.file].temporary = FALSE]
          /\ worker' = "removeInfo"
          /\ UNCHANGED newWriteRequests
     ELSE /\ worker' = "writes"
          /\ newWriteRequests' = Tail(newWriteRequests)
          /\ UNCHANGED diskVars
  /\ UNCHANGED <<queueVars, locked, flushing, newReadRequests, mainVars>>

RemoveInfoFile ==
  /\ worker = "removeInfo"
  /\ disk' = [disk EXCEPT ![Info.path] =
       [@ EXCEPT !.md5 = NoFile, !.pieces = {}, !.length = 0]]
  /\ newWriteRequests' = Tail(newWriteRequests)
  /\ worker' = "writes"
  /\ UNCHANGED <<metaInfo, queueVars, locked, flushing, newReadRequests,
                 mainVars>>

\* while (!m_quit)
LoopTest ==
  /\ worker = "loop"
  /\ worker' = IF quit THEN "flush" ELSE "check"
  /\ UNCHANGED <<diskVars, queueVars, locked, flushing, batchVars, mainVars>>

\* After the loop: what was queued meanwhile is taken and written, this time
\* without the mutex.
FlushWriteRequests ==
  /\ worker = "flush"
  /\ newWriteRequests' = writeRequests
  /\ writeRequests' = <<>>
  /\ flushing' = TRUE
  /\ worker' = "writes"
  /\ UNCHANGED <<diskVars, readRequests, wokeUp, posted, locked,
                 newReadRequests, mainVars>>

-----------------------------------------------------------------------------
Requests ==
  \E file \in Files :
    \/ \E piece \in Indices : ReadPiece(file, piece)
    \/ \E piece \in Pieces(file), intact \in BOOLEAN :
         WritePiece(file, piece, intact)

Main ==
  \/ Requests
  \/ WakeUp
  \/ \E target \in Targets : TryToReceiveFile(target[1], target[2])
  \/ LookupTempFile
  \/ PrepareTempFile
  \/ \E file \in Files, path \in Paths : TryToSendFile(file, path)
  \/ InsertMetaInfo
  \/ \E file \in Files : CloseFile(file)
  \/ Destroy
  \/ Destroyed

Worker ==
  \/ CheckQueues \/ Sleep \/ LoopTest \/ FlushWriteRequests
  \/ TakeReadRequests \/ NextReadRequest \/ ReadBlock
  \/ TakeWriteRequests \/ EndOfBatch \/ SkipBlock \/ WriteBlock
  \/ FailToWrite \/ PersistPieces \/ PublishFile \/ RemoveInfoFile

Environment == DieWhilePreparing \/ Crash \/ Restart

Next == Main \/ Worker \/ Environment

\* The worker runs whenever it can and a call of the owner runs to its end.
\* The owner's event loop is a queue: what is posted to it gets its turn
\* however often the owner makes other calls, hence strong fairness.
Fairness ==
  /\ WF_vars(Worker)
  /\ SF_vars(WakeUp)
  /\ WF_vars(LookupTempFile) /\ WF_vars(PrepareTempFile)
  /\ WF_vars(InsertMetaInfo) /\ WF_vars(Destroyed)

Spec     == Init /\ [][Next]_vars
FairSpec == Spec /\ Fairness

-----------------------------------------------------------------------------
(* Properties.                                                             *)

DataTypes ==
  /\ disk \in [Paths -> Place]
  /\ metaInfo \in [Files -> Meta \cup {NoInfo}]
  /\ opening \in Opening \cup {NoInfo}

QueueTypes ==
  /\ readRequests \in Seq(ReadRequest)
  /\ newReadRequests \in Seq(ReadRequest)
  /\ writeRequests \in Seq(WriteRequest)
  /\ newWriteRequests \in Seq(WriteRequest)

WakeUpTypes == wokeUp \in BOOLEAN /\ posted \in Nat

ThreadTypes ==
  /\ quit \in BOOLEAN /\ locked \in BOOLEAN /\ flushing \in BOOLEAN
  /\ worker \in WorkerSteps
  /\ main \in MainSteps

\* TypeOK: the types of the members of FileManager and of the files it keeps.
TypeOK == DataTypes /\ QueueTypes /\ WakeUpTypes /\ ThreadTypes

\* NoLostWakeup: the worker never sleeps on a request.  It may be asleep with
\* requests queued only while a call of wakeUp() is on its way to it: about
\* m_wokeUp, which readPiece(), writePiece() and wakeUp() test and set so
\* that one call is posted for any number of requests.
NoLostWakeup ==
  /\ posted = IF wokeUp THEN 1 ELSE 0
  /\ worker = "waiting" =>
       posted = 1 \/ (readRequests = <<>> /\ writeRequests = <<>>)

\* WriterKeepsItsFile: from the look-up of a FileMetaInfo to the last use of
\* it in writeBlock(), the owner does not close or replace that file,
\* in the loop of run() thanks to the mutex, in the flush after it because
\* the owner waits in the destructor.
WriterKeepsItsFile ==
  worker \in {"persist", "publish", "removeInfo"} =>
    /\ newWriteRequests # <<>> /\ IsOpen(Request.file)
    /\ worker = "publish" => Complete(Info)
    /\ worker = "removeInfo" => ~Info.temporary

\* What the properties of the disk assume: a path is asked for one content only.
OneVersionPerPath ==
  \A target, other \in Targets : target[2] = other[2] => target[1] = other[1]

\* The pieces of file that are in content.
PiecesIn(content, file) == {piece \in Pieces(file) : <<file, piece>> \in content}

\* BitmapIsTrue: as long as no file has its final name, a bit that is set,
\* in the info file or in memory, is that of a piece that is on the disk, so
\* that a transfer that is resumed after a crash skips nothing.
BitmapIsTrue ==
  \A target \in Targets :
    LET file == target[1]
        path == target[2]
    IN  ~disk[path].hasFinal =>
          /\ disk[path].pieces \subseteq PiecesIn(disk[path].temp, file)
          /\ Names(file, path, TRUE) =>
               metaInfo[file].verifiedPieces \subseteq PiecesIn(disk[path].temp, file)

\* PublishedWhole: what bears its final name is a file of its MD5 sum, with
\* all its pieces ("File Received!" in writeBlock(), which no longer computes
\* the MD5 sum).
PublishedWhole ==
  \A path \in Paths :
    disk[path].hasFinal => \E file \in Files : disk[path].final = Whole(file)

\* SavedProgressKept: until a file has its final name, no step, a crash and
\* the reopening of the file included, takes back a bit of the info file.
SavedProgressKept ==
  [][\A path \in Paths :
       disk[path].pieces \subseteq disk'[path].pieces \/ disk'[path].hasFinal]_vars

\* StoreRefined: the disk is a PieceStore (see there).
Store == INSTANCE PieceStore WITH
  stored    <- [path \in Paths |-> IF disk[path].hasFinal THEN disk[path].final
                                                         ELSE disk[path].temp],
  published <- {path \in Paths : disk[path].hasFinal}

StoreRefined == Store!Spec

\* WritesAreTaken: a queued write request is taken up by the worker, unless
\* the FileManager is destroyed or dies first.
WritesAreTaken == writeRequests # <<>> ~> writeRequests = <<>> \/ quit

-----------------------------------------------------------------------------
(* What comments and assertions of the source say, and the code does not   *)
(* do.                                                                     *)

\* DestructorReturns: wait() in ~FileManager() returns, since the worker goes
\* to sleep only "if there's nothing to do" and m_quit is something to do.
DestructorReturns == main = "destroying" ~> main # "destroying"
=============================================================================
