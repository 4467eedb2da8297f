------------------------- MODULE FileManagerProofs --------------------------
(***************************************************************************)
(* Proofs about FileManager, for any set of files, paths and pieces.       *)
(***************************************************************************)
EXTENDS FileManager, TLAPS

WritingSteps == {"writes", "persist", "publish", "removeInfo"}

\* The mutex: who holds it, and what stands in for it once the loop of run()
\* is left.
Mutex ==
  /\ locked => worker \in WritingSteps \cup {"sleep"}
  /\ worker = "sleep" => locked
  /\ worker \in WritingSteps => locked \/ main = "destroying"
  /\ worker = "flush" => quit
  /\ quit <=> main = "destroying"
  /\ flushing => quit
  /\ main = "gone" => worker = "finished"

\* What the owner knows about the file that it is opening.
OpeningKnown ==
  /\ main \in {"lookup", "prepare", "insert"} => opening \in Opening
  /\ main \in {"lookup", "prepare"} => <<opening.file, opening.path>> \in Targets
  /\ main = "insert" => opening.meta \in Meta

-----------------------------------------------------------------------------
(* Lemmas about the operators.                                             *)

LEMMA RequestType ==
  ASSUME QueueTypes, newWriteRequests # <<>>
  PROVE  /\ Request \in [file : Files, piece : Nat, intact : BOOLEAN]
         /\ Request.piece \in Pieces(Request.file)
         /\ Tail(newWriteRequests) \in Seq(WriteRequest)
BY DEF QueueTypes, Request, WriteRequest

LEMMA InfoType ==
  ASSUME TypeOK, newWriteRequests # <<>>, IsOpen(Request.file)
  PROVE  Info \in Meta
BY RequestType DEF TypeOK, DataTypes, Info, IsOpen

LEMMA BlockType ==
  ASSUME NEW file \in Files, NEW piece \in Pieces(file)
  PROVE  <<file, piece>> \in Blocks
BY DEF Blocks, Whole

LEMMA OverwriteType ==
  ASSUME NEW content \in SUBSET Blocks, NEW file \in Files,
         NEW piece \in Pieces(file)
  PROVE  Overwrite(content, file, piece) \in SUBSET Blocks
BY BlockType DEF Overwrite

-----------------------------------------------------------------------------
(* The threads and the mutex.                                              *)

LEMMA InitThreads == Init => ThreadTypes /\ Mutex
<1> SUFFICES ASSUME Init PROVE ThreadTypes /\ Mutex
  OBVIOUS
<1>1. ThreadTypes
  BY DEF Init, ThreadTypes, WorkerSteps, MainSteps
<1>2. Mutex
  BY DEF Init, Mutex, WritingSteps
<1>3. QED
  BY <1>1, <1>2

LEMMA NextThreads ==
  ThreadTypes /\ Mutex /\ [Next]_vars => ThreadTypes' /\ Mutex'
<1> SUFFICES ASSUME ThreadTypes, Mutex, [Next]_vars
             PROVE  ThreadTypes' /\ Mutex'
  OBVIOUS
<1> USE DEF ThreadTypes, Mutex, WritingSteps, WorkerSteps, MainSteps
<1>1. CASE WakeUp
  BY <1>1
  DEF WakeUp, WakeOne, queueVars, workerVars, mainVars
<1>2. CASE \E target \in Targets : TryToReceiveFile(target[1], target[2])
  BY <1>2
  DEF TryToReceiveFile, queueVars, workerVars, mainVars
<1>3. CASE LookupTempFile
  BY <1>3
  DEF LookupTempFile, queueVars, workerVars, mainVars
<1>4. CASE PrepareTempFile
  BY <1>4
  DEF PrepareTempFile, queueVars, workerVars, mainVars
<1>5. CASE \E file \in Files, path \in Paths : TryToSendFile(file, path)
  BY <1>5
  DEF TryToSendFile, queueVars, workerVars, mainVars
<1>6. CASE InsertMetaInfo
  BY <1>6
  DEF InsertMetaInfo, WakeOne, queueVars, workerVars, mainVars
<1>7. CASE \E file \in Files : CloseFile(file)
  BY <1>7
  DEF CloseFile, queueVars, workerVars, mainVars
<1>8. CASE Destroy
  BY <1>8
  DEF Destroy, WakeOne, queueVars, workerVars, mainVars
<1>9. CASE Destroyed
  BY <1>9
  DEF Destroyed, Gone, queueVars, workerVars, mainVars
<1>10. CASE Crash
  BY <1>10
  DEF Crash, Gone, queueVars, workerVars, mainVars
<1>11. CASE DieWhilePreparing
  BY <1>11
  DEF DieWhilePreparing, Gone, queueVars, workerVars, mainVars
<1>12. CASE Restart
  BY <1>12
  DEF Restart, queueVars, workerVars, mainVars
<1>13. CASE CheckQueues
  BY <1>13
  DEF CheckQueues, Idle, queueVars, workerVars, mainVars
<1>14. CASE Sleep
  BY <1>14
  DEF Sleep, queueVars, workerVars, mainVars
<1>15. CASE LoopTest
  BY <1>15
  DEF LoopTest, queueVars, workerVars, mainVars
<1>16. CASE FlushWriteRequests
  BY <1>16
  DEF FlushWriteRequests, queueVars, workerVars, mainVars
<1>17. CASE TakeReadRequests
  BY <1>17
  DEF TakeReadRequests, queueVars, workerVars, mainVars
<1>18. CASE NextReadRequest
  BY <1>18
  DEF NextReadRequest, queueVars, workerVars, mainVars
<1>19. CASE ReadBlock
  BY <1>19
  DEF ReadBlock, queueVars, workerVars, mainVars
<1>20. CASE TakeWriteRequests
  BY <1>20
  DEF TakeWriteRequests, queueVars, workerVars, mainVars
<1>21. CASE EndOfBatch
  BY <1>21
  DEF EndOfBatch, queueVars, workerVars, mainVars
<1>22. CASE SkipBlock
  BY <1>22
  DEF Writing, SkipBlock, queueVars, workerVars, mainVars
<1>23. CASE WriteBlock
  BY <1>23
  DEF Writing, WriteBlock, queueVars, workerVars, mainVars
<1>24. CASE FailToWrite
  BY <1>24
  DEF Writing, FailToWrite, queueVars, workerVars, mainVars
<1>25. CASE PersistPieces
  BY <1>25
  DEF PersistPieces, queueVars, workerVars, mainVars
<1>26. CASE PublishFile
  BY <1>26
  DEF PublishFile, queueVars, workerVars, mainVars
<1>27. CASE RemoveInfoFile
  BY <1>27
  DEF RemoveInfoFile, queueVars, workerVars, mainVars
<1>28. CASE UNCHANGED vars
  BY <1>28
  DEF vars, queueVars, workerVars, mainVars
<1>29. CASE Requests
  <2>1. UNCHANGED <<workerVars, mainVars>>
    BY <1>29 DEF Requests, ReadPiece, WritePiece
  <2>2. QED
    BY <2>1 DEF workerVars, mainVars
<1>30. QED
  BY <1>1, <1>2, <1>3, <1>4, <1>5, <1>6, <1>7, <1>8, <1>9, <1>10, <1>11,
     <1>12, <1>13, <1>14, <1>15, <1>16, <1>17, <1>18, <1>19, <1>20, <1>21,
     <1>22, <1>23, <1>24, <1>25, <1>26, <1>27, <1>28, <1>29
  DEF Next, Main, Worker, Environment

-----------------------------------------------------------------------------
(* The queues.                                                             *)

Reading == worker = "readBlock" => newReadRequests # <<>>

LEMMA InitQueues == Init => QueueTypes /\ Reading
BY DEF Init, QueueTypes, Reading

LEMMA NextQueues ==
  QueueTypes /\ Reading /\ WriterKeepsItsFile /\ [Next]_vars => QueueTypes' /\ Reading'
<1> SUFFICES ASSUME QueueTypes, Reading, WriterKeepsItsFile, [Next]_vars
             PROVE  QueueTypes' /\ Reading'
  OBVIOUS
<1> USE DEF QueueTypes, Reading
<1>1. CASE Requests
  <2>1. PICK file \in Files : \/ \E piece \in Indices : ReadPiece(file, piece)
                             \/ \E piece \in Pieces(file), intact \in BOOLEAN :
                                  WritePiece(file, piece, intact)
    BY <1>1 DEF Requests
  <2>2. CASE \E piece \in Indices : ReadPiece(file, piece)
    <3>1. PICK piece \in Indices : ReadPiece(file, piece)
      BY <2>2
    <3>2. [file |-> file, piece |-> piece] \in ReadRequest
      BY DEF ReadRequest
    <3>3. QED
      BY <3>1, <3>2 DEF ReadPiece, workerVars
  <2>3. CASE \E piece \in Pieces(file), intact \in BOOLEAN :
               WritePiece(file, piece, intact)
    <3>1. PICK piece \in Pieces(file), intact \in BOOLEAN :
                 WritePiece(file, piece, intact)
      BY <2>3
    <3>2. [file |-> file, piece |-> piece, intact |-> intact] \in WriteRequest
      BY FileManagerAssumption DEF WriteRequest, Pieces
    <3>3. QED
      BY <3>1, <3>2 DEF WritePiece, workerVars
  <2>4. QED
    BY <2>1, <2>2, <2>3
<1>2. CASE Destroyed \/ Crash \/ DieWhilePreparing
  <2>1. /\ readRequests' = <<>> /\ newReadRequests' = <<>>
        /\ writeRequests' = <<>> /\ newWriteRequests' = <<>>
        /\ worker' = "finished"
    BY <1>2 DEF Destroyed, Crash, DieWhilePreparing, Gone
  <2>2. QED
    BY <2>1
<1>3. CASE NextReadRequest
  <2>1. CASE newReadRequests = <<>>
    BY <1>3, <2>1 DEF NextReadRequest, queueVars
  <2>2. CASE newReadRequests # <<>>
    <3>1. /\ newReadRequests' \in {newReadRequests, Tail(newReadRequests)}
          /\ worker' = "readBlock" => newReadRequests' = newReadRequests
      BY <1>3, <2>2 DEF NextReadRequest
    <3>2. UNCHANGED <<readRequests, writeRequests, newWriteRequests>>
      BY <1>3 DEF NextReadRequest, queueVars
    <3>3. QED
      BY <2>2, <3>1, <3>2
  <2>3. QED
    BY <2>1, <2>2
<1>4. CASE FlushWriteRequests
  BY <1>4
  DEF FlushWriteRequests, queueVars, workerVars, batchVars
<1>5. CASE TakeReadRequests
  BY <1>5
  DEF TakeReadRequests, queueVars, workerVars, batchVars
<1>6. CASE ReadBlock
  BY <1>6
  DEF ReadBlock, queueVars, workerVars, batchVars
<1>7. CASE TakeWriteRequests
  BY <1>7
  DEF TakeWriteRequests, queueVars, workerVars, batchVars
<1>8. CASE EndOfBatch
  BY <1>8
  DEF EndOfBatch, queueVars, workerVars, batchVars
<1>9. CASE SkipBlock
  BY <1>9, RequestType DEF Writing, SkipBlock, queueVars
<1>10. CASE FailToWrite
  BY <1>10, RequestType DEF Writing, FailToWrite, queueVars
<1>11. CASE PersistPieces
  BY <1>11, RequestType DEF PersistPieces, queueVars, WriterKeepsItsFile
<1>12. CASE PublishFile
  BY <1>12, RequestType DEF PublishFile, queueVars, WriterKeepsItsFile
<1>13. CASE RemoveInfoFile
  BY <1>13, RequestType DEF RemoveInfoFile, queueVars, WriterKeepsItsFile
<1>14. CASE WakeUp \/ (\E target \in Targets : TryToReceiveFile(target[1],
           target[2])) \/ LookupTempFile \/ PrepareTempFile \/ (\E file \in
           Files, path \in Paths : TryToSendFile(file, path)) \/
           InsertMetaInfo \/ (\E file \in Files : CloseFile(file)) \/ Destroy
           \/ Restart \/ CheckQueues \/ Sleep \/ LoopTest \/ WriteBlock \/
           UNCHANGED vars
  <2>1. UNCHANGED <<readRequests, newReadRequests, writeRequests, newWriteRequests>>
    BY <1>14
    DEF WakeUp, WakeOne, TryToReceiveFile, LookupTempFile, PrepareTempFile,
        TryToSendFile, InsertMetaInfo, CloseFile, Destroy, Restart,
        CheckQueues, Idle, Sleep, LoopTest, Writing, WriteBlock, vars,
        queueVars, workerVars, batchVars
  <2>2. worker' = "readBlock" => worker = "readBlock"
    BY <1>14
    DEF WakeUp, WakeOne, TryToReceiveFile, LookupTempFile, PrepareTempFile,
        TryToSendFile, InsertMetaInfo, CloseFile, Destroy, Restart,
        CheckQueues, Idle, Sleep, LoopTest, Writing, WriteBlock, vars,
        queueVars, workerVars, batchVars
  <2>3. QED
    BY <2>1, <2>2
<1>15. QED
  BY <1>1, <1>2, <1>3, <1>4, <1>5, <1>6, <1>7, <1>8, <1>9, <1>10, <1>11,
     <1>12, <1>13, <1>14
  DEF Next, Main, Worker, Environment

-----------------------------------------------------------------------------
(* Sleeping and waking up.                                                 *)

\* The mutex is what keeps the queues empty between the check and the wait.
Awake ==
  /\ WakeUpTypes
  /\ NoLostWakeup
  /\ worker = "sleep" => readRequests = <<>> /\ writeRequests = <<>>

LEMMA InitAwake == Init => Awake
<1> SUFFICES ASSUME Init PROVE Awake
  OBVIOUS
<1>1. wokeUp = FALSE /\ posted = 0 /\ worker = "check"
  BY DEF Init
<1>2. WakeUpTypes
  BY <1>1 DEF WakeUpTypes
<1>3. NoLostWakeup
  BY <1>1 DEF NoLostWakeup
<1>4. QED
  BY <1>1, <1>2, <1>3 DEF Awake

LEMMA NextAwake ==
  ThreadTypes /\ Mutex /\ Awake /\ [Next]_vars => Awake'
<1> SUFFICES ASSUME ThreadTypes, Mutex, Awake, [Next]_vars
             PROVE  Awake'
  OBVIOUS
<1> USE DEF Awake
<1>1. CASE Requests
  <2>1. /\ PostWakeUp /\ UNCHANGED worker /\ ~locked
    BY <1>1 DEF Requests, ReadPiece, WritePiece, workerVars
  <2>2. /\ wokeUp' = TRUE /\ posted' = 1
    BY <2>1 DEF PostWakeUp, WakeUpTypes, NoLostWakeup
  <2>3. WakeUpTypes'
    BY <2>2 DEF WakeUpTypes
  <2>4. NoLostWakeup'
    BY <2>2 DEF NoLostWakeup
  <2>5. QED
    BY <2>1, <2>3, <2>4 DEF Mutex
<1>2. CASE WakeUp
  <2>1. wokeUp' = FALSE /\ posted' = 0 /\ worker' # "waiting" /\ worker # "sleep"
    BY <1>2 DEF WakeUp, WakeOne, WakeUpTypes, NoLostWakeup, Mutex
  <2>2. WakeUpTypes'
    BY <2>1 DEF WakeUpTypes
  <2>3. worker' # "sleep"
    BY <2>1, <1>2 DEF WakeUp, WakeOne
  <2>4. QED
    BY <2>1, <2>2, <2>3 DEF NoLostWakeup
<1>3. CASE Destroyed \/ Crash \/ DieWhilePreparing
  <2>1. wokeUp' = FALSE /\ posted' = 0 /\ worker' = "finished"
    BY <1>3 DEF Destroyed, Crash, DieWhilePreparing, Gone
  <2>2. WakeUpTypes'
    BY <2>1 DEF WakeUpTypes
  <2>3. QED
    BY <2>1, <2>2 DEF NoLostWakeup
<1>4. CASE InsertMetaInfo \/ Destroy
  BY <1>4
  DEF InsertMetaInfo, WakeOne, Destroy, queueVars, workerVars, mainVars,
      WakeUpTypes, NoLostWakeup
<1>5. CASE CheckQueues \/ Sleep
  BY <1>5
  DEF CheckQueues, Idle, Sleep, queueVars, workerVars, mainVars, WakeUpTypes,
      NoLostWakeup
<1>6. CASE TakeReadRequests \/ TakeWriteRequests \/ FlushWriteRequests
  BY <1>6
  DEF TakeReadRequests, TakeWriteRequests, FlushWriteRequests, queueVars,
      workerVars, mainVars, WakeUpTypes, NoLostWakeup
<1>7. CASE (\E target \in Targets : TryToReceiveFile(target[1], target[2])) \/
          LookupTempFile \/ PrepareTempFile \/ (\E file \in Files, path \in
          Paths : TryToSendFile(file, path)) \/ (\E file \in Files :
          CloseFile(file)) \/ UNCHANGED vars
  <2>1. UNCHANGED <<readRequests, writeRequests, wokeUp, posted>>
    BY <1>7
    DEF TryToReceiveFile, LookupTempFile, PrepareTempFile, TryToSendFile,
        CloseFile, vars, queueVars, workerVars, mainVars
  <2>2. worker' \in {"waiting", "sleep"} => worker' = worker
    BY <1>7
    DEF TryToReceiveFile, LookupTempFile, PrepareTempFile, TryToSendFile,
        CloseFile, vars, queueVars, workerVars, mainVars
  <2>3. QED
    BY <2>1, <2>2 DEF WakeUpTypes, NoLostWakeup
<1>8. CASE Restart \/ LoopTest \/ NextReadRequest \/ ReadBlock \/ EndOfBatch
          \/ SkipBlock \/ WriteBlock \/ FailToWrite \/ PersistPieces \/
          PublishFile \/ RemoveInfoFile
  <2>1. UNCHANGED <<readRequests, writeRequests, wokeUp, posted>>
    BY <1>8
    DEF Restart, LoopTest, NextReadRequest, ReadBlock, EndOfBatch, Writing,
        SkipBlock, WriteBlock, FailToWrite, PersistPieces, PublishFile,
        RemoveInfoFile, queueVars, workerVars, mainVars
  <2>2. worker' \in {"waiting", "sleep"} => worker' = worker
    BY <1>8
    DEF Restart, LoopTest, NextReadRequest, ReadBlock, EndOfBatch, Writing,
        SkipBlock, WriteBlock, FailToWrite, PersistPieces, PublishFile,
        RemoveInfoFile, queueVars, workerVars, mainVars
  <2>3. QED
    BY <2>1, <2>2 DEF WakeUpTypes, NoLostWakeup
<1>9. QED
  BY <1>1, <1>2, <1>3, <1>4, <1>5, <1>6, <1>7, <1>8
  DEF Next, Main, Worker, Environment

-----------------------------------------------------------------------------
(* The data.                                                               *)

LEMMA InitData == Init => DataTypes /\ OpeningKnown /\ WriterKeepsItsFile
<1> SUFFICES ASSUME Init PROVE DataTypes /\ OpeningKnown /\ WriterKeepsItsFile
  OBVIOUS
<1>1. EmptyPlace \in Place
  BY DEF EmptyPlace, Place
<1>2. DataTypes
  BY <1>1 DEF Init, DataTypes
<1>3. QED
  BY <1>2 DEF Init, OpeningKnown, WriterKeepsItsFile

LEMMA BitmapType ==
  ASSUME DataTypes, NEW file \in Files, NEW path \in Paths
  PROVE  /\ Bitmap(file, path).bits \in SUBSET Nat
         /\ Bitmap(file, path).length \in Nat
BY FileManagerAssumption DEF DataTypes, Bitmap, Place

LEMMA WriterControl ==
  ASSUME ThreadTypes, Mutex, worker \in {"persist", "publish", "removeInfo"}
  PROVE  ~(main \in {"running", "lookup", "prepare", "insert", "gone"} /\ ~locked)
BY DEF ThreadTypes, Mutex, WritingSteps

LEMMA NextData ==
  TypeOK /\ OpeningKnown /\ WriterKeepsItsFile /\ [Next]_vars => DataTypes' /\ OpeningKnown'
<1> SUFFICES ASSUME TypeOK, OpeningKnown, WriterKeepsItsFile, [Next]_vars
             PROVE  DataTypes' /\ OpeningKnown'
  OBVIOUS
<1>0. DataTypes /\ QueueTypes
  BY DEF TypeOK
<1> USE <1>0 DEF DataTypes, OpeningKnown
<1>1. CASE \E target \in Targets : TryToReceiveFile(target[1], target[2])
  <2>1. PICK target \in Targets : TryToReceiveFile(target[1], target[2])
    BY <1>1
  <2>2. /\ target[1] \in Files /\ target[2] \in Paths
        /\ <<target[1], target[2]>> \in Targets
    BY FileManagerAssumption
  <2>3. opening' \in Opening /\ <<opening'.file, opening'.path>> \in Targets
    BY <2>1, <2>2 DEF TryToReceiveFile, Opening
  <2>4. main' = "lookup" /\ UNCHANGED <<disk, metaInfo>>
    BY <2>1 DEF TryToReceiveFile, diskVars
  <2>5. QED
    BY <2>3, <2>4
<1>2. CASE LookupTempFile
  <2>1. /\ main' \in {"running", "prepare"}
        /\ main' = "prepare" => opening' = opening
        /\ opening' \in {opening, NoInfo}
        /\ UNCHANGED <<disk, metaInfo>>
    BY <1>2 DEF LookupTempFile, diskVars
  <2>2. main = "lookup"
    BY <1>2 DEF LookupTempFile
  <2>3. QED
    BY <2>1, <2>2
<1>3. CASE PrepareTempFile
  <2> DEFINE path == opening.path
             bitmap == Bitmap(opening.file, path)
  <2>1. opening \in Opening /\ opening.file \in Files /\ path \in Paths
    BY <1>3 DEF PrepareTempFile, Opening
  <2>2. bitmap.bits \in SUBSET Nat /\ bitmap.length \in Nat
    BY <2>1, BitmapType
  <2>3. disk[path] \in Place
    BY <2>1
  <2>4. disk' \in [Paths -> Place]
    BY <1>3, <2>1, <2>2, <2>3 DEF PrepareTempFile, Place
  <2>5. opening' \in Opening /\ opening'.meta \in Meta
    BY <1>3, <2>1, <2>2 DEF PrepareTempFile, Opening, Meta
  <2>6. QED
    BY <1>3, <2>4, <2>5 DEF PrepareTempFile
<1>4. CASE \E file \in Files, path \in Paths : TryToSendFile(file, path)
  <2>1. PICK file \in Files, path \in Paths : TryToSendFile(file, path)
    BY <1>4
  <2>2. opening' \in Opening /\ opening'.meta \in Meta
    BY <2>1, FileManagerAssumption DEF TryToSendFile, Opening, Meta, Pieces
  <2>3. main' = "insert" /\ UNCHANGED <<disk, metaInfo>>
    BY <2>1 DEF TryToSendFile, diskVars
  <2>4. QED
    BY <2>2, <2>3
<1>5. CASE InsertMetaInfo
  <2>1. opening.file \in Files /\ opening.meta \in Meta
    BY <1>5 DEF InsertMetaInfo, Opening
  <2>2. QED
    BY <1>5, <2>1 DEF InsertMetaInfo
<1>6. CASE \E file \in Files : CloseFile(file)
  <2>1. metaInfo' \in [Files -> Meta \cup {NoInfo}]
    BY <1>6 DEF CloseFile
  <2>2. UNCHANGED <<disk, main, opening>>
    BY <1>6 DEF CloseFile, mainVars
  <2>3. QED
    BY <2>1, <2>2
<1>7. CASE Destroyed \/ Crash
  BY <1>7
  DEF Destroyed, Gone, Crash
<1>8. CASE DieWhilePreparing
  <2>1. opening.path \in Paths
    BY <1>8 DEF DieWhilePreparing, Opening
  <2>2. disk' \in [Paths -> Place]
    <3>1. disk[opening.path] \in Place
      BY <2>1
    <3>2. [disk[opening.path] EXCEPT !.hasTemp = TRUE, !.temp = {}] \in Place
      BY <3>1 DEF Place
    <3>3. QED
      BY <1>8, <3>2 DEF DieWhilePreparing
  <2>3. QED
    BY <1>8, <2>2 DEF DieWhilePreparing, Gone
<1>9. CASE WriteBlock
  <2> DEFINE place == disk[Info.path]
  <2>1. /\ newWriteRequests # <<>> /\ IsOpen(Request.file)
        /\ Request.file \in Files /\ Request.piece \in Nat
        /\ Request.piece \in Pieces(Request.file)
    BY <1>9, RequestType DEF WriteBlock, Writing, TypeOK
  <2>2. Info \in Meta
    BY <2>1, InfoType
  <2>3. Info.path \in Paths /\ place \in Place
    BY <2>2 DEF Meta
  <2>4. /\ Overwrite(place.temp, Request.file, Request.piece) \in SUBSET Blocks
        /\ Overwrite(place.final, Request.file, Request.piece) \in SUBSET Blocks
    BY <2>1, <2>3, OverwriteType DEF Place
  <2>5. disk' \in [Paths -> Place]
    <3>1. CASE Info.temporary
      BY <1>9, <2>3, <2>4, <3>1 DEF WriteBlock, Place
    <3>2. CASE ~Info.temporary
      BY <1>9, <2>3, <2>4, <3>2 DEF WriteBlock, Place
    <3>3. QED
      BY <3>1, <3>2
  <2>6. metaInfo' \in [Files -> Meta \cup {NoInfo}]
    <3>1. Info = metaInfo[Request.file]
      BY DEF Info
    <3>2. QED
      BY <1>9, <2>1, <2>2, <3>1 DEF WriteBlock, Meta
  <2>7. UNCHANGED <<main, opening>>
    BY <1>9 DEF WriteBlock, mainVars
  <2>8. QED
    BY <2>5, <2>6, <2>7
<1>10. CASE FailToWrite
  <2>1. newWriteRequests # <<>> /\ IsOpen(Request.file)
    BY <1>10 DEF FailToWrite, Writing
  <2>2. Info \in Meta
    BY <2>1, InfoType
  <2>3. Info.path \in Paths /\ disk[Info.path] \in Place
    BY <2>2 DEF Meta
  <2>4. disk' \in [Paths -> Place]
    <3> DEFINE temp  == Spoil(disk[Info.path].temp, Request.file, Request.piece)
               final == Spoil(disk[Info.path].final, Request.file, Request.piece)
    <3>1. disk[Info.path].temp \in SUBSET Blocks /\ disk[Info.path].final \in SUBSET Blocks
      BY <2>3 DEF Place
    <3>2. temp \in SUBSET Blocks /\ final \in SUBSET Blocks
      BY <3>1 DEF Spoil
    <3>3. /\ [disk[Info.path] EXCEPT !.temp = temp] \in Place
          /\ [disk[Info.path] EXCEPT !.final = final] \in Place
      <4> HIDE DEF temp, final
      <4> QED BY <2>3, <3>2 DEF Place
    <3>4. \/ UNCHANGED disk
          \/ disk' = [disk EXCEPT ![Info.path] = [disk[Info.path] EXCEPT !.temp = temp]]
          \/ disk' = [disk EXCEPT ![Info.path] = [disk[Info.path] EXCEPT !.final = final]]
      BY <1>10, Zenon DEF FailToWrite
    <3>5. QED
      <4> HIDE DEF temp, final
      <4> QED BY <2>3, <3>3, <3>4
  <2>5. UNCHANGED <<metaInfo, main, opening>>
    BY <1>10 DEF FailToWrite, mainVars
  <2>6. QED
    BY <2>4, <2>5
<1>11. CASE PersistPieces
  <2>1. Info \in Meta
    BY <1>11, InfoType DEF PersistPieces, WriterKeepsItsFile
  <2>2. Info.path \in Paths /\ disk[Info.path] \in Place
    BY <2>1 DEF Meta
  <2>3. disk' \in [Paths -> Place]
    BY <1>11, <2>1, <2>2 DEF PersistPieces, Place, Meta
  <2>4. UNCHANGED <<metaInfo, main, opening>>
    BY <1>11 DEF PersistPieces, mainVars
  <2>5. QED
    BY <2>3, <2>4
<1>12. CASE PublishFile
  <2>1. newWriteRequests # <<>> /\ Info \in Meta /\ Request.file \in Files
    BY <1>12, InfoType, RequestType DEF PublishFile, WriterKeepsItsFile, TypeOK
  <2>2. Info.path \in Paths /\ disk[Info.path] \in Place
    BY <2>1 DEF Meta
  <2>3. CASE Info.temporary /\ ~disk[Info.path].hasFinal
    <3>1. [disk[Info.path] EXCEPT !.hasFinal = TRUE, !.final = disk[Info.path].temp,
                                  !.hasTemp = FALSE, !.temp = {}] \in Place
      BY <2>2 DEF Place
    <3>2. disk' \in [Paths -> Place]
      BY <1>12, <2>3, <3>1 DEF PublishFile
    <3>3. [Info EXCEPT !.temporary = FALSE] \in Meta
      BY <2>1 DEF Meta
    <3>4. Info = metaInfo[Request.file]
      BY DEF Info
    <3>5. metaInfo' \in [Files -> Meta \cup {NoInfo}]
      BY <1>12, <2>3, <3>3, <3>4 DEF PublishFile
    <3>6. UNCHANGED <<main, opening>>
      BY <1>12 DEF PublishFile, mainVars
    <3>7. QED
      BY <3>2, <3>5, <3>6
  <2>4. CASE ~(Info.temporary /\ ~disk[Info.path].hasFinal)
    BY <1>12, <2>4 DEF PublishFile, diskVars, mainVars
  <2>5. QED
    BY <2>3, <2>4
<1>13. CASE RemoveInfoFile
  <2>1. Info \in Meta
    BY <1>13, InfoType DEF RemoveInfoFile, WriterKeepsItsFile
  <2>2. Info.path \in Paths /\ disk[Info.path] \in Place
    BY <2>1 DEF Meta
  <2>3. disk' \in [Paths -> Place]
    BY <1>13, <2>2, FileManagerAssumption DEF RemoveInfoFile, Place
  <2>4. UNCHANGED <<metaInfo, main, opening>>
    BY <1>13 DEF RemoveInfoFile, mainVars
  <2>5. QED
    BY <2>3, <2>4
<1>14. CASE Requests \/ WakeUp \/ Destroy \/ Restart \/ CheckQueues \/ Sleep
           \/ LoopTest \/ FlushWriteRequests \/ TakeReadRequests \/
           NextReadRequest \/ ReadBlock \/ TakeWriteRequests \/ EndOfBatch \/
           SkipBlock \/ UNCHANGED vars
  <2>1. /\ UNCHANGED <<disk, metaInfo, opening>>
        /\ main' \in {main, "destroying", "running"}
    BY <1>14
    DEF Requests, ReadPiece, WritePiece, PostWakeUp, WakeUp, WakeOne,
        Destroy, Restart, CheckQueues, Idle, Sleep, LoopTest,
        FlushWriteRequests, TakeReadRequests, NextReadRequest, ReadBlock,
        TakeWriteRequests, EndOfBatch, Writing, SkipBlock, vars, diskVars,
        mainVars
  <2>2. QED
    BY <2>1
<1>15. QED
  BY <1>1, <1>2, <1>3, <1>4, <1>5, <1>6, <1>7, <1>8, <1>9, <1>10, <1>11,
     <1>12, <1>13, <1>14
  DEF Next, Main, Worker, Environment

-----------------------------------------------------------------------------
(* The file that is being written.                                         *)

LEMMA NextWriter ==
  TypeOK /\ Mutex /\ WriterKeepsItsFile /\ [Next]_vars => WriterKeepsItsFile'
<1> SUFFICES ASSUME TypeOK, Mutex, WriterKeepsItsFile, [Next]_vars
             PROVE  WriterKeepsItsFile'
  OBVIOUS
<1>1. CASE WriteBlock
  <2>1. /\ newWriteRequests # <<>> /\ IsOpen(Request.file) /\ Request.file \in Files
    BY <1>1, RequestType DEF WriteBlock, Writing, TypeOK
  <2>2. Info \in Meta /\ Info = metaInfo[Request.file]
    BY <2>1, InfoType DEF Info
  <2>3. metaInfo'[Request.file] \in Meta
    BY <1>1, <2>1, <2>2, RequestType DEF WriteBlock, Meta, TypeOK, DataTypes
  <2>4. worker' = "persist" /\ newWriteRequests' = newWriteRequests
    BY <1>1 DEF WriteBlock, batchVars
  <2>5. QED
    BY <2>1, <2>3, <2>4, NoInfoAssumption DEF WriterKeepsItsFile, IsOpen, Request
<1>2. CASE PersistPieces
  <2>1. worker \in {"persist", "publish", "removeInfo"}
    BY <1>2 DEF PersistPieces
  <2>2. newWriteRequests # <<>> /\ IsOpen(Request.file)
    BY <2>1 DEF WriterKeepsItsFile
  <2>3. metaInfo' = metaInfo
    BY <1>2 DEF PersistPieces
  <2>4. \/ worker' = "publish" /\ newWriteRequests' = newWriteRequests /\ Complete(Info)
        \/ worker' = "writes"
    BY <1>2 DEF PersistPieces
  <2>5. QED
    BY <2>2, <2>3, <2>4 DEF WriterKeepsItsFile, IsOpen, Request, Info, Complete
<1>3. CASE PublishFile
  <2>1. /\ newWriteRequests # <<>> /\ Info \in Meta /\ Request.file \in Files
        /\ Info = metaInfo[Request.file]
    BY <1>3, InfoType, RequestType DEF PublishFile, WriterKeepsItsFile, TypeOK, Info
  <2>2. CASE worker' = "removeInfo"
    <3>1. /\ newWriteRequests' = newWriteRequests
          /\ metaInfo' = [metaInfo EXCEPT ![Request.file].temporary = FALSE]
      BY <1>3, <2>2 DEF PublishFile
    <3>2. metaInfo'[Request.file] \in Meta /\ ~metaInfo'[Request.file].temporary
      BY <2>1, <3>1 DEF Meta, TypeOK, DataTypes
    <3>3. QED
      BY <2>1, <2>2, <3>1, <3>2, NoInfoAssumption
      DEF WriterKeepsItsFile, IsOpen, Request, Info
  <2>3. CASE worker' # "removeInfo"
    BY <1>3, <2>3 DEF PublishFile, WriterKeepsItsFile
  <2>4. QED
    BY <2>2, <2>3
<1>4. CASE InsertMetaInfo \/ (\E file \in Files : CloseFile(file))
  <2>1. worker \notin {"persist", "publish", "removeInfo"}
    BY <1>4, WriterControl DEF InsertMetaInfo, CloseFile, TypeOK
  <2>2. worker' \in {worker, "takeReads"}
    BY <1>4 DEF InsertMetaInfo, CloseFile, WakeOne, workerVars
  <2>3. QED
    BY <2>1, <2>2 DEF WriterKeepsItsFile
<1>5. CASE Requests \/ (\E target \in Targets : TryToReceiveFile(target[1],
          target[2])) \/ LookupTempFile \/ PrepareTempFile \/ (\E file \in
          Files, path \in Paths : TryToSendFile(file, path)) \/ UNCHANGED
          vars
  <2>1. UNCHANGED <<worker, newWriteRequests, metaInfo>>
    BY <1>5
    DEF Requests, ReadPiece, WritePiece, PostWakeUp, TryToReceiveFile,
        LookupTempFile, PrepareTempFile, TryToSendFile, vars, diskVars,
        workerVars
  <2>2. QED
    BY <2>1 DEF WriterKeepsItsFile, IsOpen, Request, Info, Complete
<1>6. CASE WakeUp \/ Destroy
  <2>1. /\ UNCHANGED <<newWriteRequests, metaInfo>>
        /\ worker' \in {worker, "takeReads"}
    BY <1>6
    DEF WakeUp, WakeOne, Destroy, diskVars, batchVars
  <2>2. QED
    BY <2>1 DEF WriterKeepsItsFile, IsOpen, Request, Info, Complete
<1>7. CASE Destroyed \/ Crash \/ DieWhilePreparing \/ Restart \/ CheckQueues
          \/ Sleep \/ LoopTest \/ FlushWriteRequests \/ TakeReadRequests \/
          NextReadRequest \/ ReadBlock \/ TakeWriteRequests \/ EndOfBatch \/
          SkipBlock \/ FailToWrite \/ RemoveInfoFile
  <2>1. worker' \notin {"persist", "publish", "removeInfo"}
    BY <1>7
    DEF Destroyed, Gone, Crash, DieWhilePreparing, Restart, CheckQueues,
        Idle, Sleep, LoopTest, FlushWriteRequests, TakeReadRequests,
        NextReadRequest, ReadBlock, TakeWriteRequests, EndOfBatch, Writing,
        SkipBlock, FailToWrite, RemoveInfoFile
  <2>2. QED
    BY <2>1 DEF WriterKeepsItsFile
<1>8. QED
  BY <1>1, <1>2, <1>3, <1>4, <1>5, <1>6, <1>7
  DEF Next, Main, Worker, Environment

-----------------------------------------------------------------------------
(* The theorems about the control of the two threads.                      *)

Control ==
  /\ TypeOK
  /\ Mutex /\ OpeningKnown /\ Reading
  /\ Awake /\ WriterKeepsItsFile

\* Control is an invariant of FileManager, by induction over its steps.
THEOREM ControlInvariant == Spec => []Control
<1>1. Init => Control
  BY InitThreads, InitQueues, InitAwake, InitData DEF Control, TypeOK, Awake
<1>2. Control /\ [Next]_vars => Control'
  BY NextThreads, NextQueues, NextAwake, NextData, NextWriter
  DEF Control, TypeOK, Awake
<1>3. QED
  BY <1>1, <1>2, PTL DEF Spec

\* The members of FileManager and the files it keeps are always of their types.
THEOREM TypesHold == Spec => []TypeOK
BY ControlInvariant, PTL DEF Control

\* The worker never sleeps on a request without a wakeUp() on its way: the
\* flag m_wokeUp, which posts one wakeUp() for many requests, loses none.
THEOREM NoWakeupIsLost == Spec => []NoLostWakeup
<1>1. Control => NoLostWakeup
  BY DEF Control, Awake
<1>2. QED
  BY <1>1, ControlInvariant, PTL

\* The owner never closes or replaces a file while writeBlock() works on it.
THEOREM WriterIsAlone == Spec => []WriterKeepsItsFile
BY ControlInvariant, PTL DEF Control

-----------------------------------------------------------------------------
(* The disk, when a path is asked for one content only.                    *)

\* What the info file of a path without its final file says is true.
InfoFileTrue(path) ==
  LET place == disk[path]
  IN  IF place.md5 = NoFile
      THEN place.temp = {} /\ place.pieces = {} /\ place.length = 0
      ELSE /\ <<place.md5, path>> \in Targets
           /\ place.hasTemp
           /\ place.length = NumPieces[place.md5]
           /\ place.pieces \subseteq PiecesIn(place.temp, place.md5)

PathSound(path) ==
  /\ disk[path].hasFinal => \E file \in Files : disk[path].final = Whole(file)
  /\ \A block \in disk[path].temp : <<block[1], path>> \in Targets
  /\ ~disk[path].hasFinal => InfoFileTrue(path)

\* What a FileMetaInfo says of the disk is true.
MetaSound(file, meta) ==
  IF meta.temporary
  THEN /\ <<file, meta.path>> \in Targets
       /\ ~disk[meta.path].hasFinal =>
            /\ disk[meta.path].md5 = file
            /\ meta.length = NumPieces[file]
            /\ meta.verifiedPieces \subseteq PiecesIn(disk[meta.path].temp, file)
  ELSE disk[meta.path].hasFinal /\ disk[meta.path].final = Whole(file)

PathsSound   == \A path \in Paths : PathSound(path)
MetasSound   == \A file \in Files : IsOpen(file) => MetaSound(file, metaInfo[file])
OpeningSound == main = "insert" => MetaSound(opening.file, opening.meta)

\* DiskSound: the inductive invariant that PublishedWhole and BitmapIsTrue rest
\* on: info files, FileMetaInfos and the disk agree, at every step.
DiskSound == PathsSound /\ MetasSound /\ OpeningSound

\* What no step takes back: a file with its final name, and until then the
\* blocks that are written and the MD5 sum in the info file.
Keeps(path) ==
  /\ disk[path].hasFinal =>
       disk'[path].hasFinal /\ disk'[path].final = disk[path].final
  /\ ~disk'[path].hasFinal =>
       /\ ~disk[path].hasFinal
       /\ disk[path].temp \subseteq disk'[path].temp
       /\ disk[path].md5 # NoFile => disk'[path].md5 = disk[path].md5

\* What a PieceStore shows of a path, and a step that it does not see.
View(path) == IF disk[path].hasFinal THEN disk[path].final ELSE disk[path].temp

SameView(path) ==
  disk'[path].hasFinal = disk[path].hasFinal /\ View(path)' = View(path)

\* The steps that it sees.
Stores(path, file, piece) ==
  /\ ~disk[path].hasFinal /\ ~disk'[path].hasFinal
  /\ disk'[path].temp = disk[path].temp \cup {<<file, piece>>}
  /\ \A other \in Paths : other # path => disk'[other] = disk[other]

Publishes(path) ==
  /\ ~disk[path].hasFinal /\ disk'[path].hasFinal
  /\ disk'[path].final = disk[path].temp
  /\ \E file \in Files : disk[path].temp = Whole(file)
  /\ \A other \in Paths : other # path => disk'[other] = disk[other]

LEMMA KeepsMetaSound ==
  ASSUME NEW file \in Files, NEW meta \in Meta, MetaSound(file, meta),
         \A path \in Paths : Keeps(path)
  PROVE  MetaSound(file, meta)'
<1>1. meta.path \in Paths /\ file # NoFile
  BY FileManagerAssumption DEF Meta
<1>2. Keeps(meta.path)
  BY <1>1
<1>3. QED
  BY <1>1, <1>2 DEF MetaSound, Keeps, PiecesIn

LEMMA InitDisk == Init => DiskSound
<1> SUFFICES ASSUME Init PROVE DiskSound
  OBVIOUS
<1>1. \A path \in Paths : disk[path] = EmptyPlace
  BY DEF Init
<1>2. PathsSound
  BY <1>1 DEF PathsSound, PathSound, InfoFileTrue, EmptyPlace
<1>3. MetasSound /\ OpeningSound
  BY DEF Init, MetasSound, OpeningSound, IsOpen
<1>4. QED
  BY <1>2, <1>3 DEF DiskSound

\* Of the blocks of the temporary file of a path, the version is known.
LEMMA TempBlocks ==
  ASSUME OneVersionPerPath, TypeOK, PathsSound,
         NEW file \in Files, NEW path \in Paths, <<file, path>> \in Targets
  PROVE  disk[path].temp \subseteq Whole(file)
<1> SUFFICES ASSUME NEW block \in disk[path].temp PROVE block \in Whole(file)
  OBVIOUS
<1>1. block \in Blocks /\ <<block[1], path>> \in Targets
  BY DEF TypeOK, DataTypes, Place, PathsSound, PathSound
<1>2. PICK other \in Files : block \in Whole(other)
  BY <1>1 DEF Blocks
<1>3. block[1] = other
  BY <1>2 DEF Whole
<1>4. <<other, path>>[2] = <<file, path>>[2] => <<other, path>>[1] = <<file, path>>[1]
  BY <1>1, <1>3 DEF OneVersionPerPath
<1>5. QED
  BY <1>2, <1>4

\* Writing a block over content of its own file only adds to it.
LEMMA OverwriteAdds ==
  ASSUME NEW file \in Files, NEW piece \in Pieces(file),
         NEW content \in SUBSET Whole(file)
  PROVE  /\ Overwrite(content, file, piece) = content \cup {<<file, piece>>}
         /\ content = Whole(file) => Overwrite(content, file, piece) = content
BY DEF Overwrite, Whole

LEMMA SpoilKeeps ==
  ASSUME NEW file \in Files, NEW piece, NEW content \in SUBSET Whole(file)
  PROVE  Spoil(content, file, piece) = content
BY DEF Spoil, Whole

LEMMA OnePathChanges ==
  ASSUME NEW path \in Paths, PathsSound, Keeps(path), PathSound(path)',
         \A other \in Paths : other # path => disk'[other] = disk[other]
  PROVE  (\A other \in Paths : Keeps(other)) /\ PathsSound'
<1> SUFFICES ASSUME NEW other \in Paths PROVE Keeps(other) /\ PathSound(other)'
  BY DEF PathsSound
<1>1. CASE other = path
  BY <1>1
<1>2. CASE other # path
  BY <1>2 DEF Keeps, PathsSound, PathSound, InfoFileTrue
<1>3. QED
  BY <1>1, <1>2

LEMMA OnePathShows ==
  ASSUME NEW path \in Paths, SameView(path),
         \A other \in Paths : other # path => disk'[other] = disk[other]
  PROVE  \A other \in Paths : SameView(other)
<1> SUFFICES ASSUME NEW other \in Paths PROVE SameView(other)
  OBVIOUS
<1>1. CASE other = path
  BY <1>1
<1>2. CASE other # path
  BY <1>2 DEF SameView, View
<1>3. QED
  BY <1>1, <1>2

LEMMA PreparedSound ==
  ASSUME OneVersionPerPath, TypeOK, OpeningKnown, PathsSound, PrepareTempFile
  PROVE  /\ (\A path \in Paths : Keeps(path)) /\ PathsSound'
         /\ \A path \in Paths : SameView(path)
         /\ MetaSound(opening.file, opening.meta)'
<1>1. PICK path \in Paths, file \in Files :
        /\ path = opening.path /\ file = opening.file
        /\ file # NoFile /\ <<file, path>> \in Targets
  BY FileManagerAssumption DEF OpeningKnown, PrepareTempFile, Opening
<1> DEFINE place == disk[path]
           bitmap == Bitmap(file, path)
           temp == IF Resumes(file, path) THEN place.temp ELSE {}
<1>2. place \in Place /\ PathSound(path)
  BY <1>1 DEF TypeOK, DataTypes, PathsSound
<1>3. disk' = [disk EXCEPT ![path] = [place EXCEPT
                 !.hasTemp = TRUE, !.temp = temp, !.md5 = file,
                 !.pieces = bitmap.bits, !.length = bitmap.length]]
  BY <1>1 DEF PrepareTempFile
<1>4. /\ disk'[path].hasFinal = place.hasFinal /\ disk'[path].final = place.final
      /\ disk'[path].hasTemp = TRUE /\ disk'[path].temp = temp
      /\ disk'[path].md5 = file
      /\ disk'[path].pieces = bitmap.bits /\ disk'[path].length = bitmap.length
  <2> HIDE DEF temp, bitmap
  <2> QED BY <1>1, <1>2, <1>3 DEF Place, TypeOK, DataTypes
<1>5. \A other \in Paths : other # path => disk'[other] = disk[other]
  BY <1>3 DEF TypeOK, DataTypes
<1>6. place.md5 # NoFile /\ ~place.hasFinal => place.md5 = file
  <2>1. place.md5 # NoFile /\ ~place.hasFinal => <<place.md5, path>> \in Targets
    BY <1>2 DEF PathSound, InfoFileTrue
  <2>2. QED
    BY <1>1, <2>1 DEF OneVersionPerPath
<1>7. ~place.hasFinal => temp = place.temp
  BY <1>2, <1>6 DEF PathSound, InfoFileTrue, Resumes
<1>8. /\ ~place.hasFinal => bitmap.length = NumPieces[file]
      /\ ~place.hasFinal => bitmap.bits \subseteq PiecesIn(place.temp, file)
  BY <1>2, <1>6 DEF PathSound, InfoFileTrue, Bitmap
<1>9. Keeps(path)
  <2> HIDE DEF temp, bitmap
  <2> QED BY <1>4, <1>6, <1>7 DEF Keeps
<1>10. temp \subseteq place.temp
  OBVIOUS
<1>11. PathSound(path)'
  <2> HIDE DEF temp, bitmap
  <2>1. disk'[path].hasFinal => \E f \in Files : disk'[path].final = Whole(f)
    BY <1>2, <1>4 DEF PathSound
  <2>2. \A block \in disk'[path].temp : <<block[1], path>> \in Targets
    BY <1>2, <1>4, <1>10 DEF PathSound
  <2>3. ~disk'[path].hasFinal => InfoFileTrue(path)'
    BY <1>1, <1>4, <1>7, <1>8 DEF InfoFileTrue
  <2>4. QED
    BY <2>1, <2>2, <2>3 DEF PathSound
<1>12. MetaSound(opening.file, opening.meta)'
  <2>1. /\ opening'.file = file /\ opening'.meta.path = path
        /\ opening'.meta.temporary = TRUE
        /\ opening'.meta.verifiedPieces = bitmap.bits
        /\ opening'.meta.length = bitmap.length
    <3> HIDE DEF bitmap
    <3>1. opening' = [opening EXCEPT !.meta =
             [path |-> path, temporary |-> TRUE, receiving |-> TRUE,
              verifiedPieces |-> bitmap.bits, length |-> bitmap.length]]
      BY <1>1 DEF PrepareTempFile, bitmap
    <3>2. opening \in Opening
      BY DEF OpeningKnown, PrepareTempFile
    <3>3. QED
      BY <1>1, <3>1, <3>2 DEF Opening
  <2> HIDE DEF temp, bitmap
  <2>2. QED
    BY <1>1, <1>4, <1>7, <1>8, <2>1 DEF MetaSound
<1>13. SameView(path)
  <2> HIDE DEF temp, bitmap
  <2> QED BY <1>4, <1>7 DEF SameView, View
<1>14. QED
  BY <1>1, <1>5, <1>9, <1>11, <1>12, <1>13, OnePathChanges, OnePathShows

LEMMA MetaKept ==
  ASSUME TypeOK, MetasSound, \A path \in Paths : Keeps(path),
         NEW file \in Files, IsOpen(file), metaInfo'[file] = metaInfo[file]
  PROVE  MetaSound(file, metaInfo[file])'
<1>1. PICK meta \in Meta : meta = metaInfo[file]
  BY DEF TypeOK, DataTypes, IsOpen
<1>2. MetaSound(file, meta)
  BY <1>1 DEF MetasSound
<1>3. MetaSound(file, meta)'
  BY <1>2, KeepsMetaSound
<1>4. QED
  BY <1>1, <1>3

LEMMA OpeningKept ==
  ASSUME OpeningKnown, OpeningSound, \A path \in Paths : Keeps(path),
         main' = "insert" => main = "insert" /\ opening' = opening
  PROVE  OpeningSound'
<1> SUFFICES ASSUME main' = "insert" PROVE MetaSound(opening.file, opening.meta)'
  BY DEF OpeningSound
<1>1. PICK file \in Files, meta \in Meta : file = opening.file /\ meta = opening.meta
  BY DEF OpeningKnown, Opening
<1>2. MetaSound(file, meta)
  BY <1>1 DEF OpeningSound
<1>3. MetaSound(file, meta)'
  BY <1>2, KeepsMetaSound
<1>4. QED
  BY <1>1, <1>3

\* What is known when a request is being worked on.
LEMMA WriterKnown ==
  ASSUME TypeOK, MetasSound, newWriteRequests # <<>>, IsOpen(Request.file)
  PROVE  \E file \in Files, meta \in Meta, path \in Paths :
           /\ file = Request.file /\ meta = Info /\ path = Info.path
           /\ meta = metaInfo[file] /\ meta.path = path
           /\ Request.piece \in Pieces(file)
           /\ disk[path] \in Place /\ file # NoFile
           /\ MetaSound(file, meta)
           /\ meta.temporary => <<file, path>> \in Targets
<1>1. Request.file \in Files /\ Request.piece \in Pieces(Request.file)
  BY RequestType DEF TypeOK
<1>2. Info \in Meta /\ Info.path \in Paths
  BY InfoType DEF Meta
<1>3. MetaSound(Request.file, Info)
  BY <1>1 DEF MetasSound, Info
<1>4. QED
  BY <1>1, <1>2, <1>3, FileManagerAssumption DEF Info, TypeOK, DataTypes, MetaSound

LEMMA WrittenSound ==
  ASSUME OneVersionPerPath, TypeOK, PathsSound, MetasSound, WriteBlock
  PROVE  /\ (\A path \in Paths : Keeps(path)) /\ PathsSound' /\ MetasSound'
         /\ \/ \A path \in Paths : SameView(path)
            \/ \E path \in Paths, file \in Files :
                 \E piece \in Pieces(file) : Stores(path, file, piece)
<1>1. PICK file \in Files, meta \in Meta, path \in Paths :
        /\ file = Request.file /\ meta = Info /\ path = Info.path
        /\ meta = metaInfo[file] /\ meta.path = path
        /\ Request.piece \in Pieces(file)
        /\ disk[path] \in Place /\ file # NoFile
        /\ MetaSound(file, meta)
        /\ meta.temporary => <<file, path>> \in Targets
  BY WriterKnown DEF WriteBlock, Writing
<1>2. PICK piece \in Pieces(file) : piece = Request.piece
  BY <1>1
<1> DEFINE place == disk[path]
           temp  == Overwrite(place.temp, file, piece)
           final == Overwrite(place.final, file, piece)
           bits  == IF piece < meta.length THEN meta.verifiedPieces \cup {piece}
                                           ELSE meta.verifiedPieces
<1>3. PathSound(path)
  BY DEF PathsSound
<1>4. metaInfo' = [metaInfo EXCEPT ![file] = [meta EXCEPT !.verifiedPieces = bits]]
  BY <1>1, <1>2 DEF WriteBlock
<1>5. \A other \in Paths : other # path => disk'[other] = disk[other]
  BY <1>1 DEF WriteBlock, TypeOK, DataTypes
<1>6. CASE meta.temporary
  <2>1. temp = place.temp \cup {<<file, piece>>}
    BY <1>1, <1>6, TempBlocks, OverwriteAdds
  <2>2. disk' = [disk EXCEPT ![path] =
                   [place EXCEPT !.hasTemp = TRUE, !.temp = temp]]
    BY <1>1, <1>2, <1>6 DEF WriteBlock
  <2>3. /\ disk'[path].hasFinal = place.hasFinal /\ disk'[path].final = place.final
        /\ disk'[path].hasTemp = TRUE /\ disk'[path].temp = temp
        /\ disk'[path].md5 = place.md5
        /\ disk'[path].pieces = place.pieces /\ disk'[path].length = place.length
    <3> HIDE DEF temp
    <3> QED BY <1>1, <2>2 DEF Place, TypeOK, DataTypes
  <2> HIDE DEF temp
  <2>4. Keeps(path)
    BY <2>1, <2>3 DEF Keeps
  <2>5. PathSound(path)'
    <3>1. disk'[path].hasFinal => \E f \in Files : disk'[path].final = Whole(f)
      BY <1>3, <2>3 DEF PathSound
    <3>2. \A block \in disk'[path].temp : <<block[1], path>> \in Targets
      BY <1>1, <1>3, <1>6, <2>1, <2>3 DEF PathSound
    <3>3. ~disk'[path].hasFinal => InfoFileTrue(path)'
      BY <1>1, <1>3, <1>6, <2>1, <2>3 DEF PathSound, InfoFileTrue, MetaSound, PiecesIn
    <3>4. QED
      BY <3>1, <3>2, <3>3 DEF PathSound
  <2>6. MetaSound(file, metaInfo[file])'
    <3>1. /\ metaInfo'[file].path = path /\ metaInfo'[file].temporary
          /\ metaInfo'[file].length = meta.length
          /\ metaInfo'[file].verifiedPieces \subseteq meta.verifiedPieces \cup {piece}
      BY <1>1, <1>4, <1>6 DEF Meta, TypeOK, DataTypes
    <3>2. QED
      BY <1>1, <1>6, <2>1, <2>3, <3>1 DEF MetaSound, PiecesIn
  <2>7. place.hasFinal => SameView(path)
    BY <2>3 DEF SameView, View
  <2>8. ~place.hasFinal => Stores(path, file, piece)
    BY <1>5, <2>1, <2>3 DEF Stores
  <2>9. QED
    BY <1>5, <2>4, <2>5, <2>6, <2>7, <2>8, OnePathChanges, OnePathShows, MetaKept, <1>4
    DEF MetasSound, IsOpen, TypeOK, DataTypes
<1>7. CASE ~meta.temporary
  <2>1. place.hasFinal /\ place.final = Whole(file)
    BY <1>1, <1>7 DEF MetaSound
  <2>2. final = place.final
    BY <2>1, OverwriteAdds
  <2>3. disk' = [disk EXCEPT ![path] =
                   [place EXCEPT !.hasFinal = TRUE, !.final = final]]
    BY <1>1, <1>2, <1>7 DEF WriteBlock
  <2>4. disk'[path] = place
    BY <1>1, <2>1, <2>2, <2>3 DEF Place, TypeOK, DataTypes
  <2>5. Keeps(path) /\ PathSound(path)'
    BY <1>3, <2>4 DEF Keeps, PathSound, InfoFileTrue
  <2>6. MetaSound(file, metaInfo[file])'
    <3>1. metaInfo'[file].path = path /\ ~metaInfo'[file].temporary
      BY <1>1, <1>4, <1>7 DEF Meta, TypeOK, DataTypes
    <3>2. QED
      BY <2>1, <2>4, <3>1 DEF MetaSound
  <2>7. SameView(path)
    BY <2>4 DEF SameView, View
  <2>8. QED
    BY <1>5, <2>5, <2>6, <2>7, OnePathChanges, OnePathShows, MetaKept, <1>4
    DEF MetasSound, IsOpen, TypeOK, DataTypes
<1>8. QED
  BY <1>6, <1>7

\* A short write of the version that is there already changes nothing.
LEMMA FailedKeeps ==
  ASSUME OneVersionPerPath, TypeOK, PathsSound, MetasSound, FailToWrite
  PROVE  disk' = disk
<1>1. PICK file \in Files, meta \in Meta, path \in Paths :
        /\ file = Request.file /\ meta = Info /\ path = Info.path
        /\ meta = metaInfo[file] /\ meta.path = path
        /\ Request.piece \in Pieces(file)
        /\ disk[path] \in Place /\ file # NoFile
        /\ MetaSound(file, meta)
        /\ meta.temporary => <<file, path>> \in Targets
  BY WriterKnown DEF FailToWrite, Writing
<1> DEFINE place == disk[path]
           temp  == Spoil(place.temp, file, Request.piece)
           final == Spoil(place.final, file, Request.piece)
<1>2. meta.temporary => temp = place.temp
  BY <1>1, TempBlocks, SpoilKeeps
<1>3. ~meta.temporary => final = place.final
  BY <1>1, SpoilKeeps DEF MetaSound
<1>4. \/ disk' = disk
      \/ meta.temporary /\ disk' = [disk EXCEPT ![path] = [place EXCEPT !.temp = temp]]
      \/ ~meta.temporary /\ disk' = [disk EXCEPT ![path] = [place EXCEPT !.final = final]]
  BY <1>1, Zenon DEF FailToWrite
<1> HIDE DEF temp, final
<1>5. QED
  BY <1>1, <1>2, <1>3, <1>4 DEF Place, TypeOK, DataTypes

LEMMA PersistedSound ==
  ASSUME OneVersionPerPath, TypeOK, PathsSound, MetasSound, WriterKeepsItsFile,
         PersistPieces
  PROVE  (\A path \in Paths : Keeps(path)) /\ PathsSound'
         /\ \A path \in Paths : SameView(path)
<1>1. PICK file \in Files, meta \in Meta, path \in Paths :
        /\ file = Request.file /\ meta = Info /\ path = Info.path
        /\ meta = metaInfo[file] /\ meta.path = path
        /\ Request.piece \in Pieces(file)
        /\ disk[path] \in Place /\ file # NoFile
        /\ MetaSound(file, meta)
        /\ meta.temporary => <<file, path>> \in Targets
  BY WriterKnown DEF PersistPieces, WriterKeepsItsFile
<1> DEFINE place == disk[path]
<1>2. PathSound(path)
  BY DEF PathsSound
<1>3. CASE disk' = disk
  BY <1>3 DEF Keeps, PathsSound, PathSound, InfoFileTrue, SameView, View
<1>4. CASE disk' = [disk EXCEPT ![path] = [place EXCEPT
                      !.pieces = meta.verifiedPieces, !.length = meta.length]]
  <2>1. /\ disk'[path].hasFinal = place.hasFinal /\ disk'[path].final = place.final
        /\ disk'[path].hasTemp = place.hasTemp /\ disk'[path].temp = place.temp
        /\ disk'[path].md5 = place.md5
        /\ disk'[path].pieces = meta.verifiedPieces /\ disk'[path].length = meta.length
    BY <1>1, <1>4 DEF Place, TypeOK, DataTypes
  <2>2. \A other \in Paths : other # path => disk'[other] = disk[other]
    BY <1>4 DEF TypeOK, DataTypes
  <2>3. Keeps(path)
    BY <2>1 DEF Keeps
  <2>4. PathSound(path)'
    BY <1>1, <1>2, <2>1 DEF PathSound, InfoFileTrue, MetaSound
  <2>5. SameView(path)
    BY <2>1 DEF SameView, View
  <2>6. QED
    BY <2>2, <2>3, <2>4, <2>5, OnePathChanges, OnePathShows
<1>5. QED
  BY <1>1, <1>3, <1>4 DEF PersistPieces

LEMMA PublishedSound ==
  ASSUME OneVersionPerPath, TypeOK, PathsSound, MetasSound, WriterKeepsItsFile,
         PublishFile
  PROVE  /\ (\A path \in Paths : Keeps(path)) /\ PathsSound' /\ MetasSound'
         /\ (\A path \in Paths : SameView(path)) \/ \E path \in Paths : Publishes(path)
<1>1. PICK file \in Files, meta \in Meta, path \in Paths :
        /\ file = Request.file /\ meta = Info /\ path = Info.path
        /\ meta = metaInfo[file] /\ meta.path = path
        /\ Request.piece \in Pieces(file)
        /\ disk[path] \in Place /\ file # NoFile
        /\ MetaSound(file, meta)
        /\ meta.temporary => <<file, path>> \in Targets
  BY WriterKnown DEF PublishFile, WriterKeepsItsFile
<1> DEFINE place == disk[path]
<1>2. PathSound(path)
  BY DEF PathsSound
<1>3. CASE ~(meta.temporary /\ ~place.hasFinal)
  <2>1. disk' = disk /\ metaInfo' = metaInfo
    BY <1>1, <1>3 DEF PublishFile, diskVars
  <2>2. QED
    BY <2>1 DEF Keeps, PathsSound, PathSound, InfoFileTrue, MetasSound, MetaSound,
                IsOpen, SameView, View
<1>4. CASE meta.temporary /\ ~place.hasFinal
  <2>1. Complete(meta)
    BY <1>1 DEF PublishFile, WriterKeepsItsFile
  <2>2. Pieces(file) \subseteq PiecesIn(place.temp, file)
    BY <1>1, <1>4, <2>1 DEF MetaSound, Complete, Pieces
  <2>3. place.temp = Whole(file)
    <3>1. place.temp \subseteq Whole(file)
      BY <1>1, <1>4, TempBlocks
    <3>2. Whole(file) \subseteq place.temp
      BY <2>2 DEF PiecesIn, Whole
    <3>3. QED
      BY <3>1, <3>2
  <2>4. /\ disk' = [disk EXCEPT ![path] = [place EXCEPT
                      !.hasFinal = TRUE, !.final = place.temp,
                      !.hasTemp = FALSE, !.temp = {}]]
        /\ metaInfo' = [metaInfo EXCEPT ![file].temporary = FALSE]
    BY <1>1, <1>4 DEF PublishFile
  <2>5. /\ disk'[path].hasFinal /\ disk'[path].final = Whole(file)
        /\ disk'[path].temp = {}
    BY <1>1, <2>3, <2>4 DEF Place, TypeOK, DataTypes
  <2>6. \A other \in Paths : other # path => disk'[other] = disk[other]
    BY <2>4 DEF TypeOK, DataTypes
  <2>7. Keeps(path) /\ PathSound(path)'
    BY <1>4, <2>5 DEF Keeps, PathSound
  <2>8. (\A other \in Paths : Keeps(other)) /\ PathsSound'
    BY <2>6, <2>7, OnePathChanges
  <2>9. MetaSound(file, metaInfo[file])'
    <3>1. metaInfo'[file].path = path /\ ~metaInfo'[file].temporary
      BY <1>1, <2>4 DEF Meta, TypeOK, DataTypes
    <3>2. QED
      BY <2>5, <3>1 DEF MetaSound
  <2>10. Publishes(path)
    BY <1>4, <2>3, <2>5, <2>6 DEF Publishes
  <2>11. QED
    BY <2>4, <2>8, <2>9, <2>10, MetaKept DEF MetasSound, IsOpen, TypeOK, DataTypes
<1>5. QED
  BY <1>3, <1>4

LEMMA RemovedSound ==
  ASSUME TypeOK, PathsSound, MetasSound, WriterKeepsItsFile, RemoveInfoFile
  PROVE  (\A path \in Paths : Keeps(path)) /\ PathsSound'
         /\ \A path \in Paths : SameView(path)
<1>1. PICK file \in Files, meta \in Meta, path \in Paths :
        /\ file = Request.file /\ meta = Info /\ path = Info.path
        /\ meta = metaInfo[file] /\ meta.path = path
        /\ Request.piece \in Pieces(file)
        /\ disk[path] \in Place /\ file # NoFile
        /\ MetaSound(file, meta)
        /\ meta.temporary => <<file, path>> \in Targets
  BY WriterKnown DEF RemoveInfoFile, WriterKeepsItsFile
<1> DEFINE place == disk[path]
<1>2. place.hasFinal /\ PathSound(path)
  BY <1>1 DEF RemoveInfoFile, WriterKeepsItsFile, MetaSound, PathsSound
<1>3. disk' = [disk EXCEPT ![path] = [place EXCEPT
                 !.md5 = NoFile, !.pieces = {}, !.length = 0]]
  BY <1>1 DEF RemoveInfoFile
<1>4. /\ disk'[path].hasFinal = place.hasFinal /\ disk'[path].final = place.final
      /\ disk'[path].temp = place.temp
  BY <1>1, <1>2, <1>3 DEF Place, TypeOK, DataTypes
<1>5. \A other \in Paths : other # path => disk'[other] = disk[other]
  BY <1>3 DEF TypeOK, DataTypes
<1>6. Keeps(path) /\ PathSound(path)'
  BY <1>2, <1>4 DEF Keeps, PathSound
<1>7. SameView(path)
  BY <1>2, <1>4 DEF SameView, View
<1>8. QED
  BY <1>5, <1>6, <1>7, OnePathChanges, OnePathShows

LEMMA DiedSound ==
  ASSUME OneVersionPerPath, TypeOK, OpeningKnown, PathsSound, DieWhilePreparing
  PROVE  (\A path \in Paths : Keeps(path)) /\ PathsSound'
         /\ \A path \in Paths : SameView(path)
<1>1. PICK path \in Paths, file \in Files :
        /\ path = opening.path /\ file = opening.file
        /\ file # NoFile /\ <<file, path>> \in Targets
  BY FileManagerAssumption DEF OpeningKnown, DieWhilePreparing, Opening
<1> DEFINE place == disk[path]
<1>2. place \in Place /\ PathSound(path)
  BY DEF TypeOK, DataTypes, PathsSound
<1>3. disk' = [disk EXCEPT ![path] = [place EXCEPT !.hasTemp = TRUE, !.temp = {}]]
  BY <1>1 DEF DieWhilePreparing
<1>4. /\ disk'[path].hasFinal = place.hasFinal /\ disk'[path].final = place.final
      /\ disk'[path].hasTemp = TRUE /\ disk'[path].temp = {}
      /\ disk'[path].md5 = place.md5
      /\ disk'[path].pieces = place.pieces /\ disk'[path].length = place.length
  BY <1>1, <1>2, <1>3 DEF Place, TypeOK, DataTypes
<1>5. \A other \in Paths : other # path => disk'[other] = disk[other]
  BY <1>3 DEF TypeOK, DataTypes
<1>6. ~place.hasFinal => place.md5 = NoFile
  <2>1. place.md5 # NoFile /\ ~place.hasFinal =>
          <<place.md5, path>> \in Targets /\ place.hasTemp
    BY <1>2 DEF PathSound, InfoFileTrue
  <2>2. place.md5 # NoFile /\ ~place.hasFinal => place.md5 = file
    BY <1>1, <2>1 DEF OneVersionPerPath
  <2>3. QED
    BY <1>1, <2>1, <2>2 DEF DieWhilePreparing, Resumes
<1>7. Keeps(path) /\ PathSound(path)'
  BY <1>2, <1>4, <1>6 DEF Keeps, PathSound, InfoFileTrue
<1>8. SameView(path)
  BY <1>2, <1>4, <1>6 DEF SameView, View, PathSound, InfoFileTrue
<1>9. QED
  BY <1>5, <1>7, <1>8, OnePathChanges, OnePathShows

Shown ==
  \/ \A path \in Paths : SameView(path)
  \/ \E path \in Paths, file \in Files :
       \E piece \in Pieces(file) : Stores(path, file, piece)
  \/ \E path \in Paths : Publishes(path)

LEMMA NextDisk ==
  ASSUME OneVersionPerPath, Control, DiskSound, [Next]_vars
  PROVE  DiskSound' /\ Shown
<1> USE DEF Control, DiskSound, Shown
<1>1. CASE WriteBlock
  <2>1. (\A path \in Paths : Keeps(path)) /\ PathsSound' /\ MetasSound' /\ Shown
    BY <1>1, WrittenSound
  <2>2. OpeningSound'
    BY <1>1, <2>1, OpeningKept DEF WriteBlock, mainVars
  <2>3. QED
    BY <2>1, <2>2
<1>2. CASE PublishFile
  <2>1. (\A path \in Paths : Keeps(path)) /\ PathsSound' /\ MetasSound' /\ Shown
    BY <1>2, PublishedSound
  <2>2. OpeningSound'
    BY <1>2, <2>1, OpeningKept DEF PublishFile, mainVars
  <2>3. QED
    BY <2>1, <2>2
<1>3. CASE PersistPieces
  <2>1. (\A path \in Paths : Keeps(path)) /\ PathsSound' /\ Shown
    BY <1>3, PersistedSound
  <2>2. metaInfo' = metaInfo /\ UNCHANGED <<main, opening>>
    BY <1>3 DEF PersistPieces, mainVars
  <2>3. MetasSound'
    BY <2>1, <2>2, MetaKept DEF MetasSound, IsOpen
  <2>4. OpeningSound'
    BY <2>1, <2>2, OpeningKept
  <2>5. QED
    BY <2>1, <2>3, <2>4
<1>4. CASE RemoveInfoFile
  <2>1. (\A path \in Paths : Keeps(path)) /\ PathsSound' /\ Shown
    BY <1>4, RemovedSound
  <2>2. metaInfo' = metaInfo /\ UNCHANGED <<main, opening>>
    BY <1>4 DEF RemoveInfoFile, mainVars
  <2>3. MetasSound'
    BY <2>1, <2>2, MetaKept DEF MetasSound, IsOpen
  <2>4. OpeningSound'
    BY <2>1, <2>2, OpeningKept
  <2>5. QED
    BY <2>1, <2>3, <2>4
<1>5. CASE PrepareTempFile
  <2>1. /\ (\A path \in Paths : Keeps(path)) /\ PathsSound' /\ Shown
        /\ MetaSound(opening.file, opening.meta)'
    BY <1>5, PreparedSound
  <2>2. metaInfo' = metaInfo
    BY <1>5 DEF PrepareTempFile
  <2>3. MetasSound'
    BY <2>1, <2>2, MetaKept DEF MetasSound, IsOpen
  <2>4. QED
    BY <2>1, <2>3 DEF OpeningSound
<1>6. CASE DieWhilePreparing
  <2>1. (\A path \in Paths : Keeps(path)) /\ PathsSound' /\ Shown
    BY <1>6, DiedSound
  <2>2. main' = "gone" /\ \A file \in Files : ~IsOpen(file)'
    BY <1>6 DEF DieWhilePreparing, Gone, IsOpen
  <2>3. QED
    BY <2>1, <2>2 DEF MetasSound, OpeningSound
<1>7. CASE Destroyed \/ Crash
  <2>1. disk' = disk
    BY <1>7 DEF Destroyed, Crash
  <2>2. \A path \in Paths : Keeps(path) /\ SameView(path)
    BY <2>1 DEF Keeps, SameView, View
  <2>3. PathsSound'
    BY <2>1 DEF PathsSound, PathSound, InfoFileTrue
  <2>4. main' = "gone" /\ \A file \in Files : ~IsOpen(file)'
    BY <1>7 DEF Destroyed, Crash, Gone, IsOpen
  <2>5. QED
    BY <2>2, <2>3, <2>4 DEF MetasSound, OpeningSound
<1>8. CASE \E file \in Files, path \in Paths : TryToSendFile(file, path)
  <2>1. PICK file \in Files, path \in Paths : TryToSendFile(file, path)
    BY <1>8
  <2>2. disk' = disk /\ metaInfo' = metaInfo
    BY <2>1 DEF TryToSendFile, diskVars
  <2>3. \A other \in Paths : Keeps(other) /\ SameView(other)
    BY <2>2 DEF Keeps, SameView, View
  <2>4. PathsSound' /\ MetasSound'
    BY <2>2, <2>3, MetaKept DEF PathsSound, PathSound, InfoFileTrue, MetasSound, IsOpen
  <2>5. MetaSound(opening.file, opening.meta)'
    BY <2>1, <2>2 DEF TryToSendFile, MetaSound
  <2>6. QED
    BY <2>3, <2>4, <2>5 DEF OpeningSound
<1>9. CASE InsertMetaInfo
  <2>1. disk' = disk /\ main' = "running"
    BY <1>9 DEF InsertMetaInfo
  <2>2. \A path \in Paths : Keeps(path) /\ SameView(path)
    BY <2>1 DEF Keeps, SameView, View
  <2>3. PathsSound'
    BY <2>1 DEF PathsSound, PathSound, InfoFileTrue
  <2>4. /\ opening.file \in Files /\ MetaSound(opening.file, opening.meta)
        /\ metaInfo' = [metaInfo EXCEPT ![opening.file] = opening.meta]
    BY <1>9 DEF InsertMetaInfo, OpeningKnown, OpeningSound, Opening
  <2>5. MetaSound(opening.file, metaInfo'[opening.file])
    BY <2>4 DEF TypeOK, DataTypes
  <2>6. MetasSound'
    <3> SUFFICES ASSUME NEW file \in Files, IsOpen(file)'
                 PROVE  MetaSound(file, metaInfo[file])'
      BY DEF MetasSound
    <3>1. CASE file = opening.file
      BY <2>1, <2>5, <3>1 DEF MetaSound
    <3>2. CASE file # opening.file
      BY <2>2, <2>4, <3>2, MetaKept DEF IsOpen, TypeOK, DataTypes
    <3>3. QED
      BY <3>1, <3>2
  <2>7. QED
    BY <2>1, <2>2, <2>3, <2>6 DEF OpeningSound
<1>10. CASE \E file \in Files : CloseFile(file)
  <2>1. PICK file \in Files : CloseFile(file)
    BY <1>10
  <2>2. /\ disk' = disk /\ UNCHANGED <<main, opening>>
        /\ metaInfo' = [metaInfo EXCEPT ![file] = NoInfo]
    BY <2>1 DEF CloseFile, mainVars
  <2>3. \A path \in Paths : Keeps(path) /\ SameView(path)
    BY <2>2 DEF Keeps, SameView, View
  <2>4. PathsSound' /\ OpeningSound'
    BY <2>2, <2>3, OpeningKept DEF PathsSound, PathSound, InfoFileTrue
  <2>5. \A other \in Files : IsOpen(other)' => metaInfo'[other] = metaInfo[other]
    BY <2>2 DEF IsOpen, TypeOK, DataTypes
  <2>6. MetasSound'
    BY <2>3, <2>5, MetaKept DEF MetasSound, IsOpen
  <2>7. QED
    BY <2>3, <2>4, <2>6
<1>11. CASE FailToWrite
  <2>1. /\ disk' = disk /\ metaInfo' = metaInfo
        /\ main' = "insert" => main = "insert" /\ opening' = opening
    BY <1>11, FailedKeeps
    DEF FailToWrite, mainVars
  <2>2. \A path \in Paths : Keeps(path) /\ SameView(path)
    BY <2>1 DEF Keeps, SameView, View
  <2>3. PathsSound' /\ OpeningSound'
    BY <2>1, <2>2, OpeningKept DEF PathsSound, PathSound, InfoFileTrue
  <2>4. MetasSound'
    BY <2>1, <2>2, MetaKept DEF MetasSound, IsOpen
  <2>5. QED
    BY <2>2, <2>3, <2>4
<1>12. CASE Requests \/ WakeUp \/ (\E target \in Targets :
           TryToReceiveFile(target[1], target[2])) \/ LookupTempFile \/
           Destroy \/ Restart \/ CheckQueues \/ Sleep \/ LoopTest \/
           FlushWriteRequests \/ TakeReadRequests \/ NextReadRequest \/
           ReadBlock \/ TakeWriteRequests \/ EndOfBatch \/ SkipBlock \/
           UNCHANGED vars
  <2>1. /\ disk' = disk /\ metaInfo' = metaInfo
        /\ main' = "insert" => main = "insert" /\ opening' = opening
    BY <1>12
    DEF Requests, ReadPiece, WritePiece, PostWakeUp, WakeUp, WakeOne,
        TryToReceiveFile, LookupTempFile, Destroy, Restart, CheckQueues,
        Idle, Sleep, LoopTest, FlushWriteRequests, TakeReadRequests,
        NextReadRequest, ReadBlock, TakeWriteRequests, EndOfBatch, Writing,
        SkipBlock, vars, diskVars, mainVars
  <2>2. \A path \in Paths : Keeps(path) /\ SameView(path)
    BY <2>1 DEF Keeps, SameView, View
  <2>3. PathsSound' /\ OpeningSound'
    BY <2>1, <2>2, OpeningKept DEF PathsSound, PathSound, InfoFileTrue
  <2>4. MetasSound'
    BY <2>1, <2>2, MetaKept DEF MetasSound, IsOpen
  <2>5. QED
    BY <2>2, <2>3, <2>4
<1>13. QED
  BY <1>1, <1>2, <1>3, <1>4, <1>5, <1>6, <1>7, <1>8, <1>9, <1>10, <1>11,
     <1>12
  DEF Next, Main, Worker, Environment

\* DiskSound is an invariant, if a path is asked for one content only.
THEOREM DiskInvariant == ASSUME OneVersionPerPath PROVE Spec => []DiskSound
<1>1. Init => DiskSound
  BY InitDisk
<1>2. Control /\ DiskSound /\ [Next]_vars => DiskSound'
  BY NextDisk
<1>3. QED
  BY <1>1, <1>2, ControlInvariant, PTL DEF Spec

\* A file that bears its final name has all its pieces, and no other content.
THEOREM PublishedFilesAreWhole == ASSUME OneVersionPerPath PROVE Spec => []PublishedWhole
<1>1. DiskSound => PublishedWhole
  BY DEF DiskSound, PathsSound, PathSound, PublishedWhole
<1>2. QED
  BY <1>1, DiskInvariant, PTL

\* A bit that is set, in an info file or in memory, is that of a piece on the
\* disk: what a transfer that is resumed after a crash skips is really there.
THEOREM BitmapsAreTrue == ASSUME OneVersionPerPath PROVE Spec => []BitmapIsTrue
<1>1. Control /\ DiskSound => BitmapIsTrue
  <2> SUFFICES ASSUME Control, DiskSound, NEW target \in Targets,
                      ~disk[target[2]].hasFinal
               PROVE  /\ disk[target[2]].pieces
                            \subseteq PiecesIn(disk[target[2]].temp, target[1])
                      /\ Names(target[1], target[2], TRUE) =>
                           metaInfo[target[1]].verifiedPieces
                             \subseteq PiecesIn(disk[target[2]].temp, target[1])
    BY DEF BitmapIsTrue
  <2>1. PICK file \in Files, path \in Paths :
          /\ file = target[1] /\ path = target[2] /\ <<file, path>> \in Targets
    BY FileManagerAssumption
  <2>2. InfoFileTrue(path)
    BY <2>1 DEF DiskSound, PathsSound, PathSound
  <2>3. disk[path].md5 # NoFile => disk[path].md5 = file
    BY <2>1, <2>2 DEF InfoFileTrue, OneVersionPerPath
  <2>4. disk[path].pieces \subseteq PiecesIn(disk[path].temp, file)
    BY <2>2, <2>3 DEF InfoFileTrue
  <2>5. Names(file, path, TRUE) =>
          metaInfo[file].verifiedPieces \subseteq PiecesIn(disk[path].temp, file)
    BY <2>1 DEF DiskSound, MetasSound, MetaSound, Names
  <2>6. QED
    BY <2>1, <2>4, <2>5
<1>2. QED
  BY <1>1, ControlInvariant, DiskInvariant, PTL

-----------------------------------------------------------------------------
(* The bits of the info file.                                              *)

\* The bitmap in memory has all bits of the info file, until the file has its final name.
HasBits(path, bits) == ~disk[path].hasFinal => disk[path].pieces \subseteq bits

\* No open file is the temporary file of this path.
Unnamed(path) == \A file \in Files : ~Names(file, path, TRUE)

\* Whoever saves a bitmap has the bits that were saved before: a path has one FileMetaInfo
\* for its temporary file, the one that is open or the one that is being opened.
OpenHaveBits ==
  \A file \in Files, path \in Paths :
    Names(file, path, TRUE) => HasBits(path, metaInfo[file].verifiedPieces)
OpeningAlone ==
  /\ main = "prepare" => Unnamed(opening.path)
  /\ main = "insert" /\ opening.meta.temporary =>
       /\ Unnamed(opening.meta.path)
       /\ HasBits(opening.meta.path, opening.meta.verifiedPieces)
BitsRemembered == OpenHaveBits /\ OpeningAlone

\* No bit of an info file is taken back.
BitsStay ==
  \A path \in Paths :
    disk[path].pieces \subseteq disk'[path].pieces \/ disk'[path].hasFinal

\* A step that opens nothing, and leaves the disk alone.
LEMMA QuietBits ==
  ASSUME BitsRemembered, disk' = disk,
         \A file \in Files : metaInfo'[file] \in {metaInfo[file], NoInfo},
         main' \in {"prepare", "insert"} => main' = main /\ opening' = opening
  PROVE  BitsRemembered' /\ BitsStay
<1>1. \A file \in Files, path \in Paths :
        Names(file, path, TRUE)' => Names(file, path, TRUE) /\ metaInfo'[file] = metaInfo[file]
  BY DEF Names, IsOpen
<1>2. OpenHaveBits'
  BY <1>1 DEF BitsRemembered, OpenHaveBits, HasBits
<1>3. OpeningAlone'
  <2>1. \A path : Unnamed(path) => Unnamed(path)'
    BY DEF Unnamed, Names, IsOpen
  <2>2. main' = "prepare" => Unnamed(opening.path)'
    BY <2>1 DEF BitsRemembered, OpeningAlone
  <2>3. main' = "insert" /\ opening'.meta.temporary =>
          /\ Unnamed(opening.meta.path)'
          /\ HasBits(opening.meta.path, opening.meta.verifiedPieces)'
    BY <2>1 DEF BitsRemembered, OpeningAlone, HasBits
  <2> QED BY <2>2, <2>3 DEF OpeningAlone
<1>4. BitsStay
  BY DEF BitsStay
<1> QED BY <1>2, <1>3, <1>4 DEF BitsRemembered

\* A path has one version, and so one FileMetaInfo of its temporary file at most.
LEMMA OneName ==
  ASSUME OneVersionPerPath, MetasSound, NEW path \in Paths, NEW file \in Files,
         NEW other \in Files, Names(file, path, TRUE), Names(other, path, TRUE)
  PROVE  file = other
<1>1. MetaSound(file, metaInfo[file]) /\ MetaSound(other, metaInfo[other])
  BY DEF MetasSound, Names
<1>2. <<file, path>> \in Targets /\ <<other, path>> \in Targets
  BY <1>1 DEF MetaSound, Names
<1>3. <<file, path>>[2] = <<other, path>>[2] => <<file, path>>[1] = <<other, path>>[1]
  BY <1>2 DEF OneVersionPerPath
<1> QED BY <1>3

\* writeBlock() sets bits and saves them: what is in the info file of the path becomes what
\* was there already, or what the FileMetaInfo has.
LEMMA WorkerBits ==
  ASSUME OneVersionPerPath, OpeningKnown, MetasSound, BitsRemembered,
         NEW file \in Files, NEW path \in Paths, metaInfo[file] # NoInfo,
         metaInfo[file].path = path, metaInfo'[file].path = path,
         metaInfo'[file].temporary => metaInfo[file].temporary,
         metaInfo[file].temporary \in BOOLEAN, metaInfo'[file].temporary \in BOOLEAN,
         metaInfo[file].verifiedPieces \subseteq metaInfo'[file].verifiedPieces,
         \A other \in Files : other # file => metaInfo'[other] = metaInfo[other],
         \A other \in Paths : other # path => disk'[other] = disk[other],
         \/ disk'[path].hasFinal
         \/ /\ ~disk[path].hasFinal /\ metaInfo[file].temporary
            /\ disk'[path].pieces \in {disk[path].pieces, metaInfo[file].verifiedPieces},
         UNCHANGED <<main, opening>>
  PROVE  BitsRemembered' /\ BitsStay
<1>1. ASSUME NEW f \in Files, NEW p \in Paths, Names(f, p, TRUE)'
      PROVE  /\ Names(f, p, TRUE)
             /\ metaInfo[f].verifiedPieces \subseteq metaInfo'[f].verifiedPieces
  <2>1. CASE f = file
    BY <1>1, <2>1 DEF Names, IsOpen
  <2>2. CASE f # file
    BY <1>1, <2>2 DEF Names, IsOpen
  <2> QED BY <2>1, <2>2
<1>2. \A p \in Paths : Unnamed(p) => Unnamed(p)'
  BY <1>1 DEF Unnamed
<1>3. CASE disk'[path].hasFinal
  <2>1. \A p \in Paths : \A bits : HasBits(p, bits) => HasBits(p, bits)'
    BY <1>3 DEF HasBits
  <2>2. OpenHaveBits'
    BY <1>1, <1>3 DEF BitsRemembered, OpenHaveBits, HasBits
  <2>3. OpeningAlone'
    BY <1>2, <2>1 DEF BitsRemembered, OpeningAlone, OpeningKnown, Opening, Meta
  <2>4. BitsStay
    BY <1>3 DEF BitsStay
  <2> QED BY <2>2, <2>3, <2>4 DEF BitsRemembered
<1>4. CASE /\ ~disk[path].hasFinal /\ metaInfo[file].temporary
           /\ disk'[path].pieces \in {disk[path].pieces, metaInfo[file].verifiedPieces}
  <2>1. Names(file, path, TRUE)
    BY <1>4 DEF Names, IsOpen
  <2>2. disk[path].pieces \subseteq metaInfo[file].verifiedPieces
    BY <1>4, <2>1 DEF BitsRemembered, OpenHaveBits, HasBits
  <2>3. ASSUME NEW f \in Files, NEW p \in Paths, Names(f, p, TRUE)', ~disk'[p].hasFinal
        PROVE  disk'[p].pieces \subseteq metaInfo'[f].verifiedPieces
    <3>1. /\ Names(f, p, TRUE)
          /\ metaInfo[f].verifiedPieces \subseteq metaInfo'[f].verifiedPieces
      BY <1>1, <2>3
    <3>2. CASE p = path
      <4>1. f = file
        BY <2>1, <3>1, <3>2, OneName
      <4> QED BY <1>4, <2>2, <3>1, <3>2, <4>1
    <3>3. CASE p # path
      <4>1. disk[p].pieces \subseteq metaInfo[f].verifiedPieces
        BY <2>3, <3>1, <3>3 DEF BitsRemembered, OpenHaveBits, HasBits
      <4> QED BY <3>1, <3>3, <4>1
    <3> QED BY <3>2, <3>3
  <2>4. OpenHaveBits'
    BY <2>3 DEF OpenHaveBits, HasBits
  <2>5. OpeningAlone'
    <3>1. main' = "prepare" => Unnamed(opening.path)'
      BY <1>2 DEF BitsRemembered, OpeningAlone, OpeningKnown, Opening
    <3>2. ASSUME main' = "insert", opening'.meta.temporary
          PROVE  /\ Unnamed(opening.meta.path)'
                 /\ HasBits(opening.meta.path, opening.meta.verifiedPieces)'
      <4>1. /\ opening.meta.path \in Paths /\ Unnamed(opening.meta.path)
            /\ HasBits(opening.meta.path, opening.meta.verifiedPieces)
        BY <3>2 DEF BitsRemembered, OpeningAlone, OpeningKnown, Meta
      <4>2. opening.meta.path # path
        BY <2>1, <4>1 DEF Unnamed
      <4> QED BY <1>2, <4>1, <4>2 DEF HasBits
    <3> QED BY <3>1, <3>2 DEF OpeningAlone
  <2>6. BitsStay
    BY <1>4, <2>2 DEF BitsStay
  <2> QED BY <2>4, <2>5, <2>6 DEF BitsRemembered
<1> QED BY <1>3, <1>4

LEMMA WrittenBits ==
  ASSUME OneVersionPerPath, Control, DiskSound, BitsRemembered, WriteBlock
  PROVE  BitsRemembered' /\ BitsStay
<1> USE DEF Control, DiskSound
<1>1. PICK file \in Files, meta \in Meta, path \in Paths :
        /\ file = Request.file /\ meta = Info /\ path = Info.path
        /\ meta = metaInfo[file] /\ meta.path = path
        /\ Request.piece \in Pieces(file)
        /\ disk[path] \in Place /\ file # NoFile
        /\ MetaSound(file, meta)
        /\ meta.temporary => <<file, path>> \in Targets
  BY WriterKnown DEF WriteBlock, Writing
<1> DEFINE asked == Request.piece
           bits  == IF asked < meta.length THEN meta.verifiedPieces \cup {asked}
                                           ELSE meta.verifiedPieces
<1>2. /\ metaInfo' = [metaInfo EXCEPT ![file] = [meta EXCEPT !.verifiedPieces = bits]]
      /\ meta.verifiedPieces \subseteq bits
  <2>1. metaInfo' = [metaInfo EXCEPT ![file] = [meta EXCEPT !.verifiedPieces = bits]]
    BY <1>1 DEF WriteBlock
  <2>2. meta.verifiedPieces \subseteq bits
    <3>1. CASE asked < meta.length
      BY <3>1
    <3>2. CASE ~(asked < meta.length)
      BY <3>2
    <3> QED BY <3>1, <3>2
  <2> QED BY <2>1, <2>2
<1> HIDE DEF bits
<1>3. /\ metaInfo'[file].path = path /\ metaInfo'[file].temporary = meta.temporary
      /\ metaInfo'[file].verifiedPieces = bits
      /\ \A other \in Files : other # file => metaInfo'[other] = metaInfo[other]
  BY <1>1, <1>2 DEF Meta, TypeOK, DataTypes
<1>4. \A other \in Paths : other # path => disk'[other] = disk[other]
  BY <1>1 DEF WriteBlock, TypeOK, DataTypes
<1>5. CASE meta.temporary
  <2>1. PICK temp : disk' = [disk EXCEPT ![path] =
                               [disk[path] EXCEPT !.hasTemp = TRUE, !.temp = temp]]
    BY <1>1, <1>5 DEF WriteBlock
  <2>2. disk'[path].hasFinal = disk[path].hasFinal /\ disk'[path].pieces = disk[path].pieces
    BY <1>1, <2>1 DEF Place, TypeOK, DataTypes
  <2> QED BY <1>1, <1>2, <1>3, <1>4, <1>5, <2>2, WorkerBits
          DEF Meta, WriteBlock, Writing, IsOpen, mainVars
<1>6. CASE ~meta.temporary
  <2>1. PICK final : disk' = [disk EXCEPT ![path] =
                                [disk[path] EXCEPT !.hasFinal = TRUE, !.final = final]]
    BY <1>1, <1>6 DEF WriteBlock
  <2>2. disk'[path].hasFinal
    BY <1>1, <2>1 DEF Place, TypeOK, DataTypes
  <2> QED BY <1>1, <1>2, <1>3, <1>4, <2>2, WorkerBits
          DEF Meta, WriteBlock, Writing, IsOpen, mainVars
<1> QED BY <1>5, <1>6

LEMMA PersistedBits ==
  ASSUME OneVersionPerPath, Control, DiskSound, BitsRemembered, PersistPieces
  PROVE  BitsRemembered' /\ BitsStay
<1> USE DEF Control, DiskSound
<1>1. PICK file \in Files, meta \in Meta, path \in Paths :
        /\ file = Request.file /\ meta = Info /\ path = Info.path
        /\ meta = metaInfo[file] /\ meta.path = path
        /\ Request.piece \in Pieces(file)
        /\ disk[path] \in Place /\ file # NoFile
        /\ MetaSound(file, meta)
        /\ meta.temporary => <<file, path>> \in Targets
  BY WriterKnown DEF PersistPieces, WriterKeepsItsFile
<1>2. metaInfo' = metaInfo /\ UNCHANGED <<main, opening>> /\ IsOpen(file)
  BY <1>1 DEF PersistPieces, WriterKeepsItsFile, mainVars
<1>3. CASE disk' = disk
  BY <1>2, <1>3, QuietBits
<1>4. CASE disk' = [disk EXCEPT ![path] = [disk[path] EXCEPT
                      !.pieces = meta.verifiedPieces, !.length = meta.length]]
  <2>1. /\ disk'[path].hasFinal = disk[path].hasFinal
        /\ disk'[path].pieces = meta.verifiedPieces
        /\ \A other \in Paths : other # path => disk'[other] = disk[other]
    BY <1>1, <1>4 DEF Place, TypeOK, DataTypes
  <2>2. disk[path].hasFinal \/ (~disk[path].hasFinal /\ meta.temporary)
    BY <1>1 DEF MetaSound
  <2>3. \/ disk'[path].hasFinal
        \/ /\ ~disk[path].hasFinal /\ metaInfo[file].temporary
           /\ disk'[path].pieces \in {disk[path].pieces, metaInfo[file].verifiedPieces}
    BY <1>1, <2>1, <2>2
  <2>4. /\ metaInfo[file] # NoInfo /\ metaInfo[file].path = path
        /\ metaInfo'[file] = metaInfo[file] /\ metaInfo[file].temporary \in BOOLEAN
        /\ metaInfo[file].verifiedPieces \subseteq metaInfo'[file].verifiedPieces
        /\ \A other \in Files : other # file => metaInfo'[other] = metaInfo[other]
    BY <1>1, <1>2 DEF Meta, IsOpen
  <2> QED BY <1>1, <1>2, <2>1, <2>3, <2>4, WorkerBits
<1> QED BY <1>1, <1>3, <1>4 DEF PersistPieces

LEMMA PublishedBits ==
  ASSUME OneVersionPerPath, Control, DiskSound, BitsRemembered, PublishFile \/ RemoveInfoFile
  PROVE  BitsRemembered' /\ BitsStay
<1> USE DEF Control, DiskSound
<1>1. PICK file \in Files, meta \in Meta, path \in Paths :
        /\ file = Request.file /\ meta = Info /\ path = Info.path
        /\ meta = metaInfo[file] /\ meta.path = path
        /\ Request.piece \in Pieces(file)
        /\ disk[path] \in Place /\ file # NoFile
        /\ MetaSound(file, meta)
        /\ meta.temporary => <<file, path>> \in Targets
  BY WriterKnown DEF PublishFile, RemoveInfoFile, WriterKeepsItsFile
<1>2. UNCHANGED <<main, opening>> /\ IsOpen(file)
  BY <1>1 DEF PublishFile, RemoveInfoFile, WriterKeepsItsFile, mainVars
<1>3. CASE UNCHANGED diskVars
  BY <1>2, <1>3, QuietBits DEF diskVars
<1>4. CASE /\ disk' = [disk EXCEPT ![path] = [disk[path] EXCEPT
                !.hasFinal = TRUE, !.final = disk[path].temp, !.hasTemp = FALSE, !.temp = {}]]
           /\ metaInfo' = [metaInfo EXCEPT ![file].temporary = FALSE]
  <2>1. /\ disk'[path].hasFinal
        /\ \A other \in Paths : other # path => disk'[other] = disk[other]
    BY <1>1, <1>4 DEF Place, TypeOK, DataTypes
  <2>2. /\ metaInfo'[file].path = path /\ metaInfo'[file].temporary = FALSE
        /\ metaInfo'[file].verifiedPieces = meta.verifiedPieces
        /\ \A other \in Files : other # file => metaInfo'[other] = metaInfo[other]
    BY <1>1, <1>4 DEF Meta, TypeOK, DataTypes
  <2> QED BY <1>1, <1>2, <2>1, <2>2, WorkerBits DEF Meta, IsOpen
<1>5. CASE RemoveInfoFile
  <2>1. disk[path].hasFinal /\ metaInfo' = metaInfo
    BY <1>1, <1>5 DEF RemoveInfoFile, WriterKeepsItsFile, MetaSound
  <2>2. disk' = [disk EXCEPT ![path] = [disk[path] EXCEPT
                   !.md5 = NoFile, !.pieces = {}, !.length = 0]]
    BY <1>1, <1>5 DEF RemoveInfoFile
  <2>3. /\ disk'[path].hasFinal
        /\ \A other \in Paths : other # path => disk'[other] = disk[other]
    BY <1>1, <2>1, <2>2 DEF Place, TypeOK, DataTypes
  <2> QED BY <1>1, <1>2, <2>1, <2>3, WorkerBits DEF Meta, IsOpen
<1> QED BY <1>1, <1>3, <1>4, <1>5 DEF PublishFile

\* tryToReceiveFile() takes over the bits of the info file, or finds none.
LEMMA PreparedBits ==
  ASSUME OneVersionPerPath, Control, DiskSound, BitsRemembered, PrepareTempFile
  PROVE  BitsRemembered' /\ BitsStay
<1> USE DEF Control, DiskSound
<1>1. PICK path \in Paths, file \in Files :
        /\ path = opening.path /\ file = opening.file /\ opening \in Opening
  BY DEF OpeningKnown, PrepareTempFile, Opening
<1>2. PICK bits : bits = Bitmap(file, path).bits
  OBVIOUS
<1>3. PICK temp, length : disk' = [disk EXCEPT ![path] = [disk[path] EXCEPT
                 !.hasTemp = TRUE, !.temp = temp, !.md5 = file,
                 !.pieces = bits, !.length = length]]
  BY <1>1, <1>2 DEF PrepareTempFile
<1>4. /\ disk'[path].hasFinal = disk[path].hasFinal /\ disk'[path].pieces = bits
      /\ \A other \in Paths : other # path => disk'[other] = disk[other]
  BY <1>3 DEF Place, TypeOK, DataTypes
<1>5. ~disk[path].hasFinal => disk[path].pieces \subseteq bits
  <2> SUFFICES ASSUME ~disk[path].hasFinal PROVE disk[path].pieces \subseteq bits
    OBVIOUS
  <2>1. InfoFileTrue(path) /\ disk[path] \in Place
    BY DEF PathsSound, PathSound, TypeOK, DataTypes
  <2>2. CASE disk[path].length > 0
    BY <1>2, <2>2 DEF Bitmap
  <2>3. CASE ~(disk[path].length > 0)
    <3>1. disk[path].length = 0
      BY <2>1, <2>3 DEF Place
    <3>2. CASE disk[path].md5 = NoFile
      BY <2>1, <3>2 DEF InfoFileTrue
    <3>3. CASE disk[path].md5 # NoFile
      <4>1. Pieces(disk[path].md5) = {}
        BY <2>1, <3>1, <3>3 DEF InfoFileTrue, Pieces
      <4> QED BY <2>1, <3>3, <4>1 DEF InfoFileTrue, PiecesIn
    <3> QED BY <3>2, <3>3
  <2> QED BY <2>2, <2>3
<1>6. /\ opening'.meta.path = path /\ opening'.meta.verifiedPieces = bits
      /\ main' = "insert" /\ metaInfo' = metaInfo
  BY <1>1, <1>2 DEF PrepareTempFile, Opening
<1>7. Unnamed(path)
  BY <1>1 DEF BitsRemembered, OpeningAlone, PrepareTempFile
<1>8. OpenHaveBits'
  <2> SUFFICES ASSUME NEW f \in Files, NEW p \in Paths, Names(f, p, TRUE)'
               PROVE  HasBits(p, metaInfo[f].verifiedPieces)'
    BY DEF OpenHaveBits
  <2>1. Names(f, p, TRUE)
    BY <1>6 DEF Names, IsOpen
  <2>2. p # path
    BY <1>7, <2>1 DEF Unnamed
  <2> QED BY <1>4, <1>6, <2>1, <2>2 DEF BitsRemembered, OpenHaveBits, HasBits
<1>9. Unnamed(path)'
  BY <1>6, <1>7 DEF Unnamed, Names, IsOpen
<1>10. OpeningAlone'
  BY <1>4, <1>6, <1>9 DEF OpeningAlone, HasBits
<1>11. BitsStay
  BY <1>4, <1>5 DEF BitsStay
<1> QED BY <1>8, <1>10, <1>11 DEF BitsRemembered

LEMMA InsertedBits ==
  ASSUME OneVersionPerPath, Control, DiskSound, BitsRemembered, InsertMetaInfo
  PROVE  BitsRemembered' /\ BitsStay
<1> USE DEF Control, DiskSound
<1>1. PICK file \in Files, meta \in Meta : file = opening.file /\ meta = opening.meta
  BY DEF OpeningKnown, InsertMetaInfo, Opening
<1>2. /\ metaInfo' = [metaInfo EXCEPT ![file] = meta] /\ disk' = disk /\ main' = "running"
  BY <1>1 DEF InsertMetaInfo
<1>3. /\ metaInfo'[file] = meta
      /\ \A other \in Files : other # file => metaInfo'[other] = metaInfo[other]
  BY <1>2 DEF TypeOK, DataTypes
<1>4. meta.temporary => HasBits(meta.path, meta.verifiedPieces)
  BY <1>1 DEF BitsRemembered, OpeningAlone, InsertMetaInfo
<1>5. OpenHaveBits'
  <2> SUFFICES ASSUME NEW f \in Files, NEW p \in Paths, Names(f, p, TRUE)'
               PROVE  HasBits(p, metaInfo[f].verifiedPieces)'
    BY DEF OpenHaveBits
  <2>1. CASE f = file
    BY <1>2, <1>3, <1>4, <2>1 DEF Names, HasBits
  <2>2. CASE f # file
    <3>1. Names(f, p, TRUE)
      BY <1>3, <2>2 DEF Names, IsOpen
    <3> QED BY <1>2, <1>3, <2>2, <3>1 DEF BitsRemembered, OpenHaveBits, HasBits
  <2> QED BY <2>1, <2>2
<1>6. OpeningAlone' /\ BitsStay
  BY <1>2 DEF OpeningAlone, BitsStay
<1> QED BY <1>5, <1>6 DEF BitsRemembered

LEMMA NextBits ==
  ASSUME OneVersionPerPath, Control, DiskSound, BitsRemembered, [Next]_vars
  PROVE  BitsRemembered' /\ BitsStay
<1>1. CASE LookupTempFile
  <2>1. disk' = disk /\ metaInfo' = metaInfo
    BY <1>1 DEF LookupTempFile, diskVars
  <2>2. main' = "prepare" => Unnamed(opening.path)'
    BY <1>1, <2>1 DEF LookupTempFile, Unnamed, Names, IsOpen
  <2>3. main' # "insert"
    BY <1>1 DEF LookupTempFile
  <2>4. OpenHaveBits'
    BY <2>1 DEF BitsRemembered, OpenHaveBits, HasBits, Names, IsOpen
  <2> QED BY <2>1, <2>2, <2>3, <2>4 DEF BitsRemembered, OpeningAlone, BitsStay
<1>2. CASE \E file \in Files, path \in Paths : TryToSendFile(file, path)
  <2>1. /\ disk' = disk /\ metaInfo' = metaInfo /\ main' = "insert"
        /\ opening'.meta.temporary = FALSE
    BY <1>2 DEF TryToSendFile, diskVars
  <2>2. OpenHaveBits'
    BY <2>1 DEF BitsRemembered, OpenHaveBits, HasBits, Names, IsOpen
  <2> QED BY <2>1, <2>2 DEF BitsRemembered, OpeningAlone, BitsStay
<1>3. CASE DieWhilePreparing
  <2>1. main' = "gone" /\ \A file \in Files : metaInfo'[file] = NoInfo
    BY <1>3 DEF DieWhilePreparing, Gone
  <2>2. \A path \in Paths : disk'[path].pieces = disk[path].pieces
    <3>1. PICK path \in Paths :
            disk' = [disk EXCEPT ![path] = [@ EXCEPT !.hasTemp = TRUE, !.temp = {}]]
      BY <1>3 DEF DieWhilePreparing, Control, OpeningKnown, Opening
    <3> QED BY <3>1 DEF Control, TypeOK, DataTypes, Place
  <2> QED BY <2>1, <2>2
          DEF BitsRemembered, OpenHaveBits, OpeningAlone, Names, IsOpen, BitsStay
<1>4. CASE FailToWrite
  <2>1. disk' = disk
    BY <1>4, FailedKeeps DEF Control, DiskSound
  <2> QED BY <1>4, <2>1, QuietBits DEF FailToWrite, mainVars
<1>5. CASE Destroyed \/ Crash
  BY <1>5, QuietBits DEF Destroyed, Crash, Gone
<1>6. CASE \E file \in Files : CloseFile(file)
  <2>1. PICK file \in Files : CloseFile(file)
    BY <1>6
  <2>2. \A other \in Files : metaInfo'[other] \in {metaInfo[other], NoInfo}
    BY <2>1 DEF CloseFile, Control, TypeOK, DataTypes
  <2> QED BY <2>1, <2>2, QuietBits DEF CloseFile, mainVars
<1>7. CASE Requests \/ WakeUp \/ (\E target \in Targets :
           TryToReceiveFile(target[1], target[2])) \/
           Destroy \/ Restart \/ CheckQueues \/ Sleep \/ LoopTest \/
           FlushWriteRequests \/ TakeReadRequests \/ NextReadRequest \/
           ReadBlock \/ TakeWriteRequests \/ EndOfBatch \/ SkipBlock \/
           UNCHANGED vars
  <2>1. /\ disk' = disk /\ metaInfo' = metaInfo
        /\ main' \in {"prepare", "insert"} => main' = main /\ opening' = opening
    BY <1>7
    DEF Requests, ReadPiece, WritePiece, PostWakeUp, WakeUp, WakeOne,
        TryToReceiveFile, Destroy, Restart, CheckQueues,
        Idle, Sleep, LoopTest, FlushWriteRequests, TakeReadRequests,
        NextReadRequest, ReadBlock, TakeWriteRequests, EndOfBatch, Writing,
        SkipBlock, vars, diskVars, mainVars
  <2> QED BY <2>1, QuietBits
<1> QED BY <1>1, <1>2, <1>3, <1>4, <1>5, <1>6, <1>7, WrittenBits, PersistedBits,
           PublishedBits, PreparedBits, InsertedBits
        DEF Next, Main, Worker, Environment

\* BitsRemembered is an invariant, if a path is asked for one content only.
THEOREM BitsInvariant == ASSUME OneVersionPerPath PROVE Spec => []BitsRemembered
<1>1. Init => BitsRemembered
  BY DEF Init, BitsRemembered, OpenHaveBits, OpeningAlone, Names, IsOpen
<1>2. Control /\ DiskSound /\ BitsRemembered /\ [Next]_vars => BitsRemembered'
  BY NextBits
<1> QED BY <1>1, <1>2, ControlInvariant, DiskInvariant, PTL DEF Spec

\* What writeBlock() has saved of a transfer is not taken back by any step, until the file has
\* its final name: not by a crash within tryToReceiveFile(), a later bitmap or a reopening.
THEOREM ProgressIsKept == ASSUME OneVersionPerPath PROVE Spec => SavedProgressKept
<1>1. Control /\ DiskSound /\ BitsRemembered /\ [Next]_vars => [BitsStay]_vars
  BY NextBits
<1>2. [BitsStay]_vars <=>
        [\A path \in Paths :
           disk[path].pieces \subseteq disk'[path].pieces \/ disk'[path].hasFinal]_vars
  BY DEF BitsStay
<1> QED BY <1>1, <1>2, ControlInvariant, DiskInvariant, BitsInvariant, PTL
        DEF Spec, SavedProgressKept

-----------------------------------------------------------------------------
(* FileManager implements PieceStore.                                      *)

stored    == [path \in Paths |-> View(path)]
published == {path \in Paths : disk[path].hasFinal}

LEMMA ShownStep == ASSUME TypeOK, TypeOK', Shown PROVE [Store!Next]_(Store!storeVars)
<1>1. /\ \A path \in Paths : disk[path].hasFinal \in BOOLEAN
      /\ \A path \in Paths : disk'[path].hasFinal \in BOOLEAN
  BY DEF TypeOK, DataTypes, Place
<1>2. Store!storeVars = <<stored, published>>
  BY DEF Store!storeVars, stored, published, View
<1>3. CASE \A path \in Paths : SameView(path)
  <2>1. stored' = stored /\ published' = published
    BY <1>1, <1>3 DEF SameView, stored, published
  <2>2. QED
    BY <1>2, <2>1 DEF Store!storeVars, stored, published, View
<1>4. ASSUME NEW path \in Paths, NEW file \in Files, NEW piece \in Pieces(file),
             Stores(path, file, piece)
      PROVE  Store!Next
  <2>1. stored' = [stored EXCEPT ![path] = stored[path] \cup {<<file, piece>>}]
    BY <1>4 DEF Stores, stored, View
  <2>2. published' = published
    BY <1>4 DEF Stores, published
  <2>3. Store!Store(path, file, piece)
    BY <2>1, <2>2 DEF Store!Store, stored, published, View
  <2>4. QED
    BY <2>3 DEF Store!Next, Store!Pieces, Pieces
<1>5. ASSUME NEW path \in Paths, Publishes(path) PROVE Store!Next
  <2>1. stored' = stored
    BY <1>5 DEF Publishes, stored, View
  <2>2. published' = published \cup {path}
    BY <1>5 DEF Publishes, published
  <2>3. \E file \in Files : stored[path] = Store!Whole(file)
    BY <1>5 DEF Publishes, stored, View, Whole, Pieces, Store!Whole, Store!Pieces
  <2>4. Store!Publish(path)
    BY <2>1, <2>2, <2>3 DEF Store!Publish, stored, published, View
  <2>5. QED
    BY <2>4 DEF Store!Next
<1>6. QED
  BY <1>3, <1>4, <1>5 DEF Shown

\* The disk is a PieceStore: what is written stays written through crashes and
\* restarts, and only whole files are published.
THEOREM ImplementsPieceStore == ASSUME OneVersionPerPath PROVE Spec => StoreRefined
<1>1. Init => Store!Init
  BY DEF Init, EmptyPlace, Store!Init
<1>2. Control /\ Control' /\ DiskSound /\ [Next]_vars => [Store!Next]_(Store!storeVars)
  BY NextDisk, ShownStep DEF Control
<1>3. QED
  BY <1>1, <1>2, ControlInvariant, DiskInvariant, PTL DEF Spec, Store!Spec, StoreRefined

=============================================================================
