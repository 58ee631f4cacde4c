--------------------------- MODULE FileTransferProof ---------------------------
(* Proofs about FileTransfer: its types, and that the hash gate holds for     *)
(* files of every size, in every number of stripes, whatever goes wrong.       *)
EXTENDS FileTransfer, TLAPS

(* The tmp that a phase works on is there. *)
OpenFiles ==
  /\ task.phase \in {"stream", "stripes", "verified"} => tmp \in Seq(Chunk)
  /\ task.phase = "stripes" => Len(tmp) = Size

TypeInv == TypeOK /\ OpenFiles

(* What was hashed is what lies on disk.  The follower reads stripes in order, *)
(* and a stripe's chunk never changes once written; a stream hashes what it    *)
(* appends, after the prefix it found.                                         *)
HashedOnDisk ==
  /\ task.phase \notin {"stream", "stripes", "verified", "renamed"} => task.done = 0
  /\ task.phase = "stream" /\ task.clean /\ ~task.misplaced =>
       Len(tmp) = task.done /\ \A k \in 1 .. task.done : tmp[k] = "good"
  /\ task.phase = "stripes" /\ task.clean => \A k \in 1 .. task.done : tmp[k] = "good"
  /\ task.phase = "verified" => tmp = Whole \/ task.misplaced

Named ==
  /\ final # NoFile => final.chunks = Whole \/ final.misplaced
  /\ local \/ task.phase = "renamed" => final # NoFile

LandInv == TypeInv /\ HashedOnDisk /\ Named

LEMMA Values ==
  /\ Size \in Nat /\ Size > 0 /\ MaxFaults \in Nat
  /\ Idle.phase = "idle" /\ Idle.asked = 0 /\ Idle.offset = 0 /\ Idle.done = 0
  /\ Idle.clean /\ ~Idle.misplaced
PROOF BY SizeAssumption DEF Idle

LEMMA IdleTask == Idle \in Task
PROOF BY SizeAssumption DEF Idle, Task

(* The row keeps its type. *)
LEMMA RowTypes ==
  ASSUME row = None \/ row \in Row
  PROVE  /\ \A s \in Status : transfer_set_status(s) => row' = None \/ row' \in Row
         /\ \A n \in 0 .. Size : transfer_upsert(n) => row' \in Row
         /\ \A n \in 0 .. Size, b \in BOOLEAN :
              transfer_update_progress(n, b) => row' = None \/ row' \in Row
PROOF
  <1>1. ASSUME NEW s \in Status, transfer_set_status(s)
        PROVE  row' = None \/ row' \in Row
    BY <1>1 DEF transfer_set_status, Row
  <1>2. ASSUME NEW n \in 0 .. Size, transfer_upsert(n)
        PROVE  row' \in Row
    BY <1>2 DEF transfer_upsert, Row, Status
  <1>3. ASSUME NEW n \in 0 .. Size, NEW b \in BOOLEAN, transfer_update_progress(n, b)
        PROVE  row' = None \/ row' \in Row
    BY <1>3 DEF transfer_update_progress, Row
  <1> QED BY <1>1, <1>2, <1>3

LEMMA InitLand == Init => LandInv
PROOF
  <1> SUFFICES ASSUME Init PROVE LandInv
    OBVIOUS
  <1>1. TypeOK
    <2>1. local \in BOOLEAN
      BY DEF Init
    <2>2. faults \in 0 .. MaxFaults
      BY Values DEF Init
    <2> QED BY <2>1, <2>2, IdleTask DEF Init, TypeOK, Content, NoFile
  <1>2. task.phase = "idle" /\ task.done = 0 /\ final = NoFile /\ ~local
    BY Values DEF Init
  <1>3. OpenFiles /\ HashedOnDisk /\ Named
    BY <1>2 DEF OpenFiles, HashedOnDisk, Named
  <1> QED BY <1>1, <1>3 DEF LandInv, TypeInv

(* Every step counts its fault, or has none, and leaves the size alone. *)
LEMMA CounterTypes ==
  ASSUME TypeOK, Fine \/ Fault
  PROVE  known' \in {0, Size} /\ large' \in BOOLEAN /\ faults' \in 0 .. MaxFaults
PROOF
  <1>1. CASE Fine
    BY <1>1 DEF Fine, TypeOK
  <1>2. CASE Fault
    BY <1>2, SizeAssumption DEF Fault, TypeOK
  <1> QED BY <1>1, <1>2

(* The updates of the task keep its type. *)
LEMMA TaskSteps ==
  /\ \A n \in 0 .. Size :
       [Idle EXCEPT !.phase = "holders", !.asked = n, !.offset = n] \in Task
  /\ \A t \in Task, n \in Nat, p \in {"parallel", "single"} :
       [t EXCEPT !.offset = n, !.phase = p] \in Task
  /\ \A t \in Task, n \in 0 .. Size, c \in BOOLEAN :
       [t EXCEPT !.done = n, !.clean = c] \in Task
  /\ \A t \in Task, n \in 0 .. Size, c \in BOOLEAN, m \in BOOLEAN :
       [t EXCEPT !.phase = "stream", !.done = n, !.clean = c, !.misplaced = m] \in Task
PROOF
  <1>1. 0 \in 0 .. Size /\ 0 .. Size \subseteq Nat
    BY Values
  <1>2. ASSUME NEW n \in 0 .. Size
        PROVE  [Idle EXCEPT !.phase = "holders", !.asked = n, !.offset = n] \in Task
    BY <1>1, IdleTask DEF Task
  <1>3. ASSUME NEW t \in Task, NEW n \in Nat, NEW p \in {"parallel", "single"}
        PROVE  [t EXCEPT !.offset = n, !.phase = p] \in Task
    BY DEF Task
  <1>4. ASSUME NEW t \in Task, NEW n \in 0 .. Size, NEW c \in BOOLEAN, NEW m \in BOOLEAN
        PROVE  /\ [t EXCEPT !.done = n, !.clean = c] \in Task
               /\ [t EXCEPT !.phase = "stream", !.done = n, !.clean = c, !.misplaced = m]
                    \in Task
    BY DEF Task
  <1> QED BY <1>2, <1>3, <1>4

LEMMA StepTypes ==
  ASSUME TypeInv, [Next]_vars
  PROVE  TypeInv'
PROOF
  <1>0. /\ task \in Task /\ tmp \in Content /\ (row = None \/ row \in Row)
        /\ (final = NoFile \/ final \in File) /\ local \in BOOLEAN /\ TypeOK /\ OpenFiles
    BY DEF TypeInv, TypeOK
  <1> DEFINE Rows == row' = None \/ row' \in Row
             Files == tmp' \in Content /\ OpenFiles'
             Landing == (final' = NoFile \/ final' \in File) /\ local' \in BOOLEAN
  <1>q. ASSUME task' \in Task, Rows, Files, Landing, Fine \/ Fault
        PROVE  TypeInv'
    BY <1>0, <1>q, CounterTypes DEF TypeInv, TypeOK
  <1>1. ASSUME NEW n \in 0 .. Size, DownloadFile(n) PROVE TypeInv'
    <2>1. task' \in Task
      BY <1>1, TaskSteps DEF DownloadFile
    <2>2. Rows /\ Files /\ Landing
      BY <1>0, <1>1 DEF DownloadFile, landing, OpenFiles
    <2> QED BY <1>1, <1>q, <2>1, <2>2 DEF DownloadFile
  <1>2. CASE swarm_download_file
    <2>1. task' \in Task
      BY <1>0, <1>2, Values, IdleTask DEF swarm_download_file, Task
    <2>2. Files
      BY <1>0, <1>2, Values DEF swarm_download_file, OpenFiles, Content, NoFile, Idle
    <2>3. Rows
      BY <1>0, <1>2, Values, RowTypes DEF swarm_download_file, Status, Task
    <2>4. Landing
      <3>1. Whole \in Seq(Chunk)
        BY Values DEF Whole, Chunk
      <3>2. [chunks |-> Whole, misplaced |-> FALSE] \in File
        BY <3>1 DEF File
      <3>3. local' \in BOOLEAN
        BY <1>2 DEF swarm_download_file
      <3> QED BY <1>2, <3>2, <3>3 DEF swarm_download_file
    <2> QED BY <1>2, <1>q, <2>1, <2>2, <2>3, <2>4 DEF swarm_download_file
  <1>3. CASE NoHolders
    <2>1. task' \in Task
      BY <1>0, <1>3, Values, IdleTask DEF NoHolders, landing, Task
    <2>2. Files
      BY <1>0, <1>3, Values DEF NoHolders, landing, OpenFiles, Content, NoFile, Idle
    <2>3. Rows
      BY <1>0, <1>3, Values, RowTypes DEF NoHolders, landing, Status, Task
    <2>4. Landing
      BY <1>0, <1>3 DEF NoHolders, landing, File, Content, NoFile
    <2> QED BY <1>3, <1>q, <2>1, <2>2, <2>3, <2>4 DEF NoHolders
  <1>4. CASE SwarmFails
    <2>1. task' \in Task
      BY <1>0, <1>4, Values, IdleTask DEF SwarmFails, Fails, landing, Task
    <2>2. Files
      BY <1>0, <1>4, Values DEF SwarmFails, Fails, landing, OpenFiles, Content, NoFile, Idle
    <2>3. Rows
      BY <1>0, <1>4, Values, RowTypes DEF SwarmFails, Fails, landing, Status, Task
    <2>4. Landing
      BY <1>0, <1>4 DEF SwarmFails, Fails, landing, File, Content, NoFile
    <2> QED BY <1>4, <1>q, <2>1, <2>2, <2>3, <2>4 DEF SwarmFails
  <1>5. CASE ChoosePath
    <2>1. task' \in Task
      <3>1. PICK n \in Nat, p \in {"parallel", "single"} :
              task' = [task EXCEPT !.offset = n, !.phase = p]
        <4> DEFINE stale == Resumable /\ Stale
                   offset == IF Resumable /\ ~stale THEN Len(tmp) ELSE task.offset
                   path == IF offset = 0 /\ known > 0 /\ large THEN "parallel" ELSE "single"
        <4>1. task.offset \in Nat
          BY <1>0 DEF Task
        <4>2. Resumable => Len(tmp) \in Nat
          BY <1>0 DEF Resumable, Content
        <4>3. offset \in Nat
          BY <4>1, <4>2
        <4>4. path \in {"parallel", "single"}
          OBVIOUS
        <4>5. task' = [task EXCEPT !.offset = offset, !.phase = path]
          BY <1>5 DEF ChoosePath
        <4> HIDE DEF offset, path
        <4> QED BY <4>3, <4>4, <4>5
      <3> QED BY <1>0, <3>1, TaskSteps
    <2>2. Files
      BY <1>0, <1>5, Values DEF ChoosePath, landing, OpenFiles, Content, NoFile, Idle
    <2>3. Rows
      BY <1>0, <1>5, Values, RowTypes DEF ChoosePath, landing, Status, Task
    <2>4. Landing
      BY <1>0, <1>5 DEF ChoosePath, landing, File, Content, NoFile
    <2> QED BY <1>5, <1>q, <2>1, <2>2, <2>3, <2>4 DEF ChoosePath
  <1>6. CASE StartStripes
    <2>1. task' \in Task
      BY <1>0, <1>6, Values, IdleTask DEF StartStripes, landing, Task
    <2>2. Files
      <3>1. tmp' \in Seq(Chunk) /\ Len(tmp') = Size
        BY <1>6, Values DEF StartStripes, Chunk
      <3> QED BY <1>0, <1>6, <3>1 DEF StartStripes, OpenFiles, Content, Task
    <2>3. Rows
      BY <1>0, <1>6, Values, RowTypes DEF StartStripes, landing, Status, Task
    <2>4. Landing
      BY <1>0, <1>6 DEF StartStripes, landing, File, Content, NoFile
    <2> QED BY <1>6, <1>q, <2>1, <2>2, <2>3, <2>4 DEF StartStripes
  <1>7. CASE ParallelNoSpace
    <2>1. task' \in Task
      BY <1>0, <1>7, Values, IdleTask DEF ParallelNoSpace, FallBack, landing, Task
    <2>2. Files
      BY <1>0, <1>7, Values DEF ParallelNoSpace, FallBack, landing, OpenFiles, Content, NoFile, Idle
    <2>3. Rows
      BY <1>0, <1>7, Values, RowTypes DEF ParallelNoSpace, FallBack, landing, Status, Task
    <2>4. Landing
      BY <1>0, <1>7 DEF ParallelNoSpace, FallBack, landing, File, Content, NoFile
    <2> QED BY <1>7, <1>q, <2>1, <2>2, <2>3, <2>4 DEF ParallelNoSpace
  <1>8. CASE ParallelRefused
    <2>1. task' \in Task
      BY <1>0, <1>8, Values, IdleTask DEF ParallelRefused, Fails, landing, Task
    <2>2. Files
      BY <1>0, <1>8, Values DEF ParallelRefused, Fails, landing, OpenFiles, Content, NoFile, Idle
    <2>3. Rows
      BY <1>0, <1>8, Values, RowTypes DEF ParallelRefused, Fails, landing, Status, Task
    <2>4. Landing
      BY <1>0, <1>8 DEF ParallelRefused, Fails, landing, File, Content, NoFile
    <2> QED BY <1>8, <1>q, <2>1, <2>2, <2>3, <2>4 DEF ParallelRefused
  <1>9. ASSUME NEW k \in 1 .. Size, StripeChunk(k) PROVE TypeInv'
    <2>1. task' \in Task
      BY <1>0, <1>9, Values, IdleTask DEF StripeChunk, landing, Task
    <2>2. Files
      <3>1. tmp \in Seq(Chunk) /\ Len(tmp) = Size
        BY <1>0, <1>9 DEF StripeChunk, OpenFiles
      <3>2. tmp' \in Seq(Chunk) /\ Len(tmp') = Size
        BY <1>9, <3>1 DEF StripeChunk, Chunk
      <3> QED BY <1>0, <1>9, <3>2 DEF StripeChunk, OpenFiles, Content
    <2>3. Rows
      BY <1>0, <1>9, Values, RowTypes DEF StripeChunk, landing, Status, Task
    <2>4. Landing
      BY <1>0, <1>9 DEF StripeChunk, landing, File, Content, NoFile
    <2> QED BY <1>9, <1>q, <2>1, <2>2, <2>3, <2>4 DEF StripeChunk
  <1>10. CASE FollowHash
    <2>1. task' \in Task
      <3>1. task.done + 1 \in 0 .. Size
        BY <1>0, <1>10, Values DEF FollowHash, Task
      <3>2. PICK zeros \in BOOLEAN :
              task' = [task EXCEPT !.done = task.done + 1,
                         !.clean = task.clean /\ tmp[task.done + 1] = "good" /\ ~zeros]
        BY <1>10 DEF FollowHash
      <3>3. (task.clean /\ tmp[task.done + 1] = "good" /\ ~zeros) \in BOOLEAN
        OBVIOUS
      <3> QED BY <1>0, <3>1, <3>2, <3>3, TaskSteps
    <2>2. Files
      BY <1>0, <1>10, Values DEF FollowHash, landing, OpenFiles, Content, NoFile, Idle
    <2>3. Rows
      <3>1. task.done + 1 \in 0 .. Size
        BY <1>0, <1>10, Values DEF FollowHash, Task
      <3>2. PICK b \in BOOLEAN : transfer_update_progress(task.done + 1, b)
        BY <1>10 DEF FollowHash
      <3> QED BY <1>0, <3>1, <3>2, RowTypes
    <2>4. Landing
      BY <1>0, <1>10 DEF FollowHash, landing, File, Content, NoFile
    <2> QED BY <1>10, <1>q, <2>1, <2>2, <2>3, <2>4 DEF FollowHash
  <1>11. CASE ParallelBreaks
    <2>1. task' \in Task
      BY <1>0, <1>11, Values, IdleTask DEF ParallelBreaks, FallBack, landing, Task
    <2>2. Files
      BY <1>0, <1>11, Values DEF ParallelBreaks, FallBack, landing, OpenFiles, Content, NoFile, Idle
    <2>3. Rows
      BY <1>0, <1>11, Values, RowTypes DEF ParallelBreaks, FallBack, landing, Status, Task
    <2>4. Landing
      BY <1>0, <1>11 DEF ParallelBreaks, FallBack, landing, File, Content, NoFile
    <2> QED BY <1>11, <1>q, <2>1, <2>2, <2>3, <2>4 DEF ParallelBreaks
  <1>12. CASE FinishStripes
    <2>1. task' \in Task
      BY <1>0, <1>12, Values, IdleTask DEF FinishStripes, FallBack, landing, Task
    <2>2. Files
      BY <1>0, <1>12, Values DEF FinishStripes, FallBack, landing, OpenFiles, Content, NoFile, Idle
    <2>3. Rows
      BY <1>0, <1>12, Values, RowTypes DEF FinishStripes, FallBack, landing, Status, Task
    <2>4. Landing
      BY <1>0, <1>12 DEF FinishStripes, FallBack, landing, File, Content, NoFile
    <2> QED BY <1>12, <1>q, <2>1, <2>2, <2>3, <2>4 DEF FinishStripes
  <1>13. CASE OpenStream
    <2>1. task' \in Task
      <3>1. task.offset \in 0 .. Size
        BY <1>0, <1>13 DEF OpenStream, Task
      <3>2. /\ (task.offset = 0 \/ CleanPrefix) \in BOOLEAN
            /\ (task.offset > 0 /\ Len(tmp) # task.offset) \in BOOLEAN
        OBVIOUS
      <3>3. task' = [task EXCEPT !.phase = "stream", !.done = task.offset,
                       !.clean = task.offset = 0 \/ CleanPrefix,
                       !.misplaced = task.offset > 0 /\ Len(tmp) # task.offset]
        BY <1>13 DEF OpenStream
      <3> QED BY <1>0, <3>1, <3>2, <3>3, TaskSteps
    <2>2. Files
      <3>1. task.offset \in Nat
        BY <1>0 DEF Task
      <3>2. tmp' \in Seq(Chunk)
        BY <1>0, <1>13, <3>1 DEF OpenStream, PrefixOnDisk, Content
      <3>3. task'.phase = "stream"
        BY <1>0, <1>13 DEF OpenStream, Task
      <3> QED BY <3>2, <3>3 DEF OpenFiles, Content
    <2>3. Rows
      BY <1>0, <1>13, Values, RowTypes DEF OpenStream, landing, Status, Task
    <2>4. Landing
      BY <1>0, <1>13 DEF OpenStream, landing, File, Content, NoFile
    <2> QED BY <1>13, <1>q, <2>1, <2>2, <2>3, <2>4 DEF OpenStream
  <1>14. CASE NoPrefix
    <2>1. task' \in Task
      BY <1>0, <1>14, Values, IdleTask DEF NoPrefix, Fails, landing, Task
    <2>2. Files
      BY <1>0, <1>14, Values DEF NoPrefix, Fails, landing, OpenFiles, Content, NoFile, Idle
    <2>3. Rows
      BY <1>0, <1>14, Values, RowTypes DEF NoPrefix, Fails, landing, Status, Task
    <2>4. Landing
      BY <1>0, <1>14 DEF NoPrefix, Fails, landing, File, Content, NoFile
    <2> QED BY <1>14, <1>q, <2>1, <2>2, <2>3, <2>4 DEF NoPrefix
  <1>15. CASE OffsetPastEnd
    <2>1. task' \in Task
      BY <1>0, <1>15, Values, IdleTask DEF OffsetPastEnd, Fails, landing, Task
    <2>2. Files
      BY <1>0, <1>15, Values DEF OffsetPastEnd, Fails, landing, OpenFiles, Content, NoFile, Idle
    <2>3. Rows
      BY <1>0, <1>15, Values, RowTypes DEF OffsetPastEnd, Fails, landing, Status, Task
    <2>4. Landing
      BY <1>0, <1>15 DEF OffsetPastEnd, Fails, landing, File, Content, NoFile
    <2> QED BY <1>15, <1>q, <2>1, <2>2, <2>3, <2>4 DEF OffsetPastEnd
  <1>16. CASE SingleRefused
    <2>1. task' \in Task
      BY <1>0, <1>16, Values, IdleTask DEF SingleRefused, Fails, landing, Task
    <2>2. Files
      BY <1>0, <1>16, Values DEF SingleRefused, Fails, landing, OpenFiles, Content, NoFile, Idle
    <2>3. Rows
      BY <1>0, <1>16, Values, RowTypes DEF SingleRefused, Fails, landing, Status, Task
    <2>4. Landing
      BY <1>0, <1>16 DEF SingleRefused, Fails, landing, File, Content, NoFile
    <2> QED BY <1>16, <1>q, <2>1, <2>2, <2>3, <2>4 DEF SingleRefused
  <1>17. CASE ReceiveChunk
    <2>1. task' \in Task
      <3>1. task.done + 1 \in 0 .. Size
        BY <1>0, <1>17, Values DEF ReceiveChunk, Task
      <3>2. PICK c \in {"good", "bad"} :
              task' = [task EXCEPT !.done = task.done + 1, !.clean = task.clean /\ c = "good"]
        BY <1>17 DEF ReceiveChunk
      <3>3. (task.clean /\ c = "good") \in BOOLEAN
        OBVIOUS
      <3> QED BY <1>0, <3>1, <3>2, <3>3, TaskSteps
    <2>2. Files
      <3>1. tmp \in Seq(Chunk)
        BY <1>0, <1>17 DEF ReceiveChunk, OpenFiles
      <3>2. PICK c \in Chunk : tmp' = Append(tmp, c)
        BY <1>17 DEF ReceiveChunk, Chunk
      <3>3. tmp' \in Seq(Chunk)
        BY <3>1, <3>2
      <3>4. task'.phase = "stream"
        BY <1>0, <1>17 DEF ReceiveChunk, Task
      <3> QED BY <3>3, <3>4 DEF OpenFiles, Content
    <2>3. Rows
      <3>1. task.done + 1 \in 0 .. Size
        BY <1>0, <1>17, Values DEF ReceiveChunk, Task
      <3>2. PICK b \in BOOLEAN : transfer_update_progress(task.done + 1, b)
        BY <1>17 DEF ReceiveChunk
      <3> QED BY <1>0, <3>1, <3>2, RowTypes
    <2>4. Landing
      BY <1>0, <1>17 DEF ReceiveChunk, landing, File, Content, NoFile
    <2> QED BY <1>17, <1>q, <2>1, <2>2, <2>3, <2>4 DEF ReceiveChunk
  <1>18. CASE StreamBreaks
    <2>1. task' \in Task
      BY <1>0, <1>18, Values, IdleTask DEF StreamBreaks, Fails, landing, Task
    <2>2. Files
      BY <1>0, <1>18, Values DEF StreamBreaks, Fails, landing, OpenFiles, Content, NoFile, Idle
    <2>3. Rows
      BY <1>0, <1>18, Values, RowTypes DEF StreamBreaks, Fails, landing, Status, Task
    <2>4. Landing
      BY <1>0, <1>18 DEF StreamBreaks, Fails, landing, File, Content, NoFile
    <2> QED BY <1>18, <1>q, <2>1, <2>2, <2>3, <2>4 DEF StreamBreaks
  <1>19. CASE FinishStream
    <2>1. task' \in Task
      BY <1>0, <1>19, Values, IdleTask DEF FinishStream, Fails, landing, Task
    <2>2. Files
      <3>1. tmp \in Seq(Chunk)
        BY <1>0, <1>19 DEF FinishStream, OpenFiles
      <3>2. tmp' = tmp /\ task'.phase \in {"verified", "idle"}
        BY <1>0, <1>19, Values DEF FinishStream, Fails, Task
      <3> QED BY <3>1, <3>2 DEF OpenFiles, Content
    <2>3. Rows
      BY <1>0, <1>19, Values, RowTypes DEF FinishStream, Fails, landing, Status, Task
    <2>4. Landing
      BY <1>0, <1>19 DEF FinishStream, Fails, landing, File, Content, NoFile
    <2> QED BY <1>19, <1>q, <2>1, <2>2, <2>3, <2>4 DEF FinishStream
  <1>20. CASE Rename
    <2>1. task' \in Task
      BY <1>0, <1>20, Values, IdleTask DEF Rename, Task
    <2>2. Files
      BY <1>0, <1>20, Values DEF Rename, OpenFiles, Content, NoFile, Idle
    <2>3. Rows
      BY <1>0, <1>20, Values, RowTypes DEF Rename, Status, Task
    <2>4. Landing
      <3>1. tmp \in Seq(Chunk) /\ task.misplaced \in BOOLEAN
        BY <1>0, <1>20 DEF Rename, OpenFiles, Task
      <3>2. [chunks |-> tmp, misplaced |-> task.misplaced] \in File
        BY <3>1 DEF File
      <3>3. local' = local
        BY <1>20 DEF Rename
      <3> QED BY <1>0, <1>20, <3>2, <3>3 DEF Rename
    <2> QED BY <1>20, <1>q, <2>1, <2>2, <2>3, <2>4 DEF Rename
  <1>21. CASE FileDownloaded
    <2>1. task' \in Task
      BY <1>0, <1>21, Values, IdleTask DEF FileDownloaded, Task
    <2>2. Files
      BY <1>0, <1>21, Values DEF FileDownloaded, OpenFiles, Content, NoFile, Idle
    <2>3. Rows
      BY <1>0, <1>21, Values, RowTypes DEF FileDownloaded, Status, Task
    <2>4. Landing
      BY <1>0, <1>21 DEF FileDownloaded, File, Content, NoFile
    <2> QED BY <1>21, <1>q, <2>1, <2>2, <2>3, <2>4 DEF FileDownloaded
  <1>22. CASE Restart
    <2>1. task' \in Task
      BY <1>0, <1>22, Values, IdleTask DEF Restart, landing, Task
    <2>2. Files
      <3>1. task'.phase = "idle"
        BY <1>22, Values DEF Restart
      <3>2. CASE UNCHANGED tmp
        BY <1>0, <3>1, <3>2 DEF OpenFiles
      <3>3. CASE task.phase = "stream" /\ task.done > task.offset /\ tmp' = Front(tmp)
        <4>1. tmp \in Seq(Chunk)
          BY <1>0, <3>3 DEF OpenFiles
        <4>2. Front(tmp) \in Seq(Chunk)
          BY <4>1 DEF Front
        <4> QED BY <3>1, <3>3, <4>2 DEF OpenFiles, Content
      <3>4. CASE task.phase = "stripes" /\ \E k \in 1 .. Size : tmp' = [tmp EXCEPT ![k] = "hole"]
        <4>1. tmp \in Seq(Chunk)
          BY <1>0, <3>4 DEF OpenFiles
        <4>2. PICK k \in 1 .. Size : tmp' = [tmp EXCEPT ![k] = "hole"]
          BY <3>4
        <4>3. Len(tmp) = Size
          BY <1>0, <3>4 DEF OpenFiles
        <4>4. tmp' \in Seq(Chunk)
          BY <4>1, <4>2, <4>3 DEF Chunk
        <4> QED BY <3>1, <4>4 DEF OpenFiles, Content
      <3> QED BY <1>22, <3>2, <3>3, <3>4 DEF Restart
    <2>3. Rows
      BY <1>0, <1>22, Values, RowTypes DEF Restart, landing, Status, Task
    <2>4. Landing
      BY <1>0, <1>22 DEF Restart, landing, File, Content, NoFile
    <2> QED BY <1>22, <1>q, <2>1, <2>2, <2>3, <2>4 DEF Restart
  <1>23. CASE Request
    <2>1. transfer_get_partial => row.received \in 0 .. Size
      BY <1>0 DEF transfer_get_partial, Row
    <2>2. PICK n \in 0 .. Size : DownloadFile(n)
      BY <1>23, <2>1, Values DEF Request, cyan_request_file_download, ResumePendingTransfers,
        fetch_attachment_into_scope
    <2> QED BY <1>1, <2>2
  <1>24. CASE UNCHANGED vars
    BY <1>24 DEF vars, TypeInv, TypeOK, OpenFiles
  <1> QED BY <1>2, <1>3, <1>4, <1>5, <1>6, <1>7, <1>8, <1>9, <1>10, <1>11, <1>12, <1>13, <1>14, <1>15, <1>16, <1>17, <1>18, <1>19, <1>20, <1>21, <1>22, <1>23, <1>24 DEF Next, Download

LEMMA StepLand ==
  ASSUME LandInv, [Next]_vars
  PROVE  HashedOnDisk' /\ Named'
PROOF
  <1>0. /\ task \in Task /\ TypeOK /\ OpenFiles /\ HashedOnDisk /\ Named
    BY DEF LandInv, TypeInv, TypeOK
  <1> DEFINE Working == {"stream", "stripes", "verified", "renamed"}
  <1>a. ASSUME task'.phase \notin Working, task'.done = 0, UNCHANGED landing
        PROVE  HashedOnDisk' /\ Named'
    BY <1>0, <1>a DEF HashedOnDisk, Named, landing
  <1>b. ASSUME UNCHANGED landing, task'.phase \in Working \ {"renamed"} PROVE Named'
    BY <1>0, <1>b DEF Named, landing
  <1>1. ASSUME NEW n \in 0 .. Size, DownloadFile(n) PROVE HashedOnDisk' /\ Named'
    <2>1. task'.phase = "holders" /\ task'.done = 0
      BY <1>1, IdleTask, Values DEF DownloadFile, Task
    <2> QED BY <1>1, <1>a, <2>1 DEF DownloadFile, landing
  <1>2. CASE NoHolders
    <2>1. task'.phase \notin Working /\ task'.done = 0 /\ UNCHANGED landing
      BY <1>0, <1>2, Values, IdleTask DEF NoHolders, Fails, FallBack, landing, HashedOnDisk, Task
    <2> QED BY <1>a, <2>1
  <1>3. CASE SwarmFails
    <2>1. task'.phase \notin Working /\ task'.done = 0 /\ UNCHANGED landing
      BY <1>0, <1>3, Values, IdleTask DEF SwarmFails, Fails, FallBack, landing, HashedOnDisk, Task
    <2> QED BY <1>a, <2>1
  <1>4. CASE ChoosePath
    <2>1. task'.phase \notin Working /\ task'.done = 0 /\ UNCHANGED landing
      BY <1>0, <1>4, Values, IdleTask DEF ChoosePath, Fails, FallBack, landing, HashedOnDisk, Task
    <2> QED BY <1>a, <2>1
  <1>5. CASE ParallelNoSpace
    <2>1. task'.phase \notin Working /\ task'.done = 0 /\ UNCHANGED landing
      BY <1>0, <1>5, Values, IdleTask DEF ParallelNoSpace, Fails, FallBack, landing, HashedOnDisk, Task
    <2> QED BY <1>a, <2>1
  <1>6. CASE ParallelRefused
    <2>1. task'.phase \notin Working /\ task'.done = 0 /\ UNCHANGED landing
      BY <1>0, <1>6, Values, IdleTask DEF ParallelRefused, Fails, FallBack, landing, HashedOnDisk, Task
    <2> QED BY <1>a, <2>1
  <1>7. CASE ParallelBreaks
    <2>1. task'.phase \notin Working /\ task'.done = 0 /\ UNCHANGED landing
      BY <1>0, <1>7, Values, IdleTask DEF ParallelBreaks, Fails, FallBack, landing, HashedOnDisk, Task
    <2> QED BY <1>a, <2>1
  <1>8. CASE NoPrefix
    <2>1. task'.phase \notin Working /\ task'.done = 0 /\ UNCHANGED landing
      BY <1>0, <1>8, Values, IdleTask DEF NoPrefix, Fails, FallBack, landing, HashedOnDisk, Task
    <2> QED BY <1>a, <2>1
  <1>9. CASE OffsetPastEnd
    <2>1. task'.phase \notin Working /\ task'.done = 0 /\ UNCHANGED landing
      BY <1>0, <1>9, Values, IdleTask DEF OffsetPastEnd, Fails, FallBack, landing, HashedOnDisk, Task
    <2> QED BY <1>a, <2>1
  <1>10. CASE SingleRefused
    <2>1. task'.phase \notin Working /\ task'.done = 0 /\ UNCHANGED landing
      BY <1>0, <1>10, Values, IdleTask DEF SingleRefused, Fails, FallBack, landing, HashedOnDisk, Task
    <2> QED BY <1>a, <2>1
  <1>11. CASE StreamBreaks
    <2>1. task'.phase \notin Working /\ task'.done = 0 /\ UNCHANGED landing
      BY <1>0, <1>11, Values, IdleTask DEF StreamBreaks, Fails, FallBack, landing, HashedOnDisk, Task
    <2> QED BY <1>a, <2>1
  <1>12. CASE Restart
    <2>1. task'.phase \notin Working /\ task'.done = 0 /\ UNCHANGED landing
      BY <1>0, <1>12, Values, IdleTask DEF Restart, Fails, FallBack, landing, HashedOnDisk, Task
    <2> QED BY <1>a, <2>1
  <1>13. CASE swarm_download_file
    <2>1. task' = Idle /\ final' = [chunks |-> Whole, misplaced |-> FALSE] /\ local'
      BY <1>13 DEF swarm_download_file
    <2>2. final' # NoFile
      <3>1. Whole \in Seq(Chunk)
        BY Values DEF Whole, Chunk
      <3>2. [chunks |-> Whole, misplaced |-> FALSE] \in File
        BY <3>1 DEF File
      <3> QED BY <2>1, <3>2, NoneAssumption DEF NoFile
    <2> QED BY <2>1, <2>2, Values DEF HashedOnDisk, Named
  <1>14. CASE StartStripes
    <2>1. task'.phase = "stripes" /\ task'.done = 0 /\ UNCHANGED landing
      BY <1>0, <1>14 DEF StartStripes, HashedOnDisk, Task
    <2>2. HashedOnDisk'
      BY <2>1 DEF HashedOnDisk
    <2> QED BY <1>b, <2>1, <2>2
  <1>15. ASSUME NEW k \in 1 .. Size, StripeChunk(k) PROVE HashedOnDisk' /\ Named'
    <2>1. task' = task /\ task.phase = "stripes" /\ tmp[k] = "hole" /\ UNCHANGED landing
      BY <1>15 DEF StripeChunk
    <2>2. tmp \in Seq(Chunk) /\ Len(tmp) = Size /\ task.done \in 0 .. Size
      BY <1>0, <2>1 DEF OpenFiles, Task
    <2>3. PICK c \in Chunk : tmp' = [tmp EXCEPT ![k] = c]
      BY <1>15 DEF StripeChunk, Chunk
    <2>4. task.clean => \A j \in 1 .. task.done : tmp'[j] = "good"
      BY <1>0, <2>1, <2>2, <2>3 DEF HashedOnDisk
    <2>5. HashedOnDisk'
      BY <2>1, <2>4 DEF HashedOnDisk
    <2> QED BY <1>b, <2>1, <2>5
  <1>16. CASE FollowHash
    <2>1. PICK zeros \in BOOLEAN :
            task' = [task EXCEPT !.done = task.done + 1,
                       !.clean = task.clean /\ tmp[task.done + 1] = "good" /\ ~zeros]
      BY <1>16 DEF FollowHash
    <2>2. task.phase = "stripes" /\ tmp' = tmp /\ UNCHANGED landing
      BY <1>16 DEF FollowHash
    <2>3. task'.phase = "stripes" /\ task'.done = task.done + 1 /\ task.done \in Nat
      BY <1>0, <2>1, <2>2 DEF Task
    <2>4. task'.clean => task.clean /\ tmp[task.done + 1] = "good"
      BY <1>0, <2>1 DEF Task
    <2>5. task'.clean => \A j \in 1 .. task'.done : tmp'[j] = "good"
      BY <1>0, <2>2, <2>3, <2>4 DEF HashedOnDisk
    <2>6. HashedOnDisk'
      BY <2>3, <2>5 DEF HashedOnDisk
    <2> QED BY <1>b, <2>2, <2>3, <2>6
  <1>17. CASE FinishStripes
    <2>1. CASE task.clean
      <3>1. /\ task'.phase = "verified" /\ tmp' = tmp /\ UNCHANGED landing
            /\ tmp \in Seq(Chunk) /\ Len(tmp) = Size /\ task.done = Size
        BY <1>0, <1>17, <2>1 DEF FinishStripes, OpenFiles, Task
      <3>2. tmp = Whole
        BY <1>0, <1>17, <2>1, <3>1, Values DEF FinishStripes, HashedOnDisk, Whole
      <3>3. HashedOnDisk'
        BY <3>1, <3>2 DEF HashedOnDisk, Whole
      <3> QED BY <1>b, <3>1, <3>3
    <2>2. CASE ~task.clean
      <3>1. task'.phase \notin Working /\ task'.done = 0 /\ UNCHANGED landing
        BY <1>17, <2>2, IdleTask, Values DEF FinishStripes, FallBack, Task
      <3> QED BY <1>a, <3>1
    <2> QED BY <2>1, <2>2
  <1>18. CASE OpenStream
    <2>1. /\ task'.phase = "stream" /\ task'.done = task.offset /\ UNCHANGED landing
          /\ task'.clean => task.offset = 0 \/ CleanPrefix
          /\ ~task'.misplaced => ~(task.offset > 0 /\ Len(tmp) # task.offset)
          /\ tmp' = IF task.offset > 0 THEN tmp ELSE <<>>
          /\ task.offset \in Nat
      BY <1>0, <1>18 DEF OpenStream, Task
    <2>2. task'.clean /\ ~task'.misplaced =>
            Len(tmp') = task'.done /\ \A k \in 1 .. task'.done : tmp'[k] = "good"
      <3> SUFFICES ASSUME task'.clean, ~task'.misplaced
                   PROVE  Len(tmp') = task'.done /\ \A k \in 1 .. task'.done : tmp'[k] = "good"
        OBVIOUS
      <3>1. CASE task.offset = 0
        BY <2>1, <3>1
      <3>2. CASE task.offset > 0
        <4>1. CleanPrefix /\ Len(tmp) = task.offset
          BY <2>1, <3>2
        <4> QED BY <2>1, <3>2, <4>1 DEF CleanPrefix
      <3> QED BY <2>1, <3>1, <3>2
    <2>3. HashedOnDisk'
      BY <2>1, <2>2 DEF HashedOnDisk
    <2> QED BY <1>b, <2>1, <2>3
  <1>19. CASE ReceiveChunk
    <2>1. PICK c \in {"good", "bad"} :
            /\ tmp' = Append(tmp, IF Len(tmp) = task.done THEN c ELSE "bad")
            /\ task' = [task EXCEPT !.done = task.done + 1, !.clean = task.clean /\ c = "good"]
      BY <1>19 DEF ReceiveChunk
    <2>2. /\ task'.phase = "stream" /\ task'.done = task.done + 1 /\ task.done \in Nat
          /\ task'.misplaced = task.misplaced /\ tmp \in Seq(Chunk) /\ UNCHANGED landing
          /\ task.phase = "stream"
      BY <1>0, <1>19, <2>1 DEF ReceiveChunk, OpenFiles, Task
    <2>3. task'.clean => task.clean /\ c = "good"
      BY <1>0, <2>1 DEF Task
    <2>4. task'.clean /\ ~task'.misplaced =>
            Len(tmp') = task'.done /\ \A k \in 1 .. task'.done : tmp'[k] = "good"
      <3> SUFFICES ASSUME task'.clean, ~task'.misplaced
                   PROVE  Len(tmp') = task'.done /\ \A k \in 1 .. task'.done : tmp'[k] = "good"
        OBVIOUS
      <3>1. Len(tmp) = task.done /\ \A k \in 1 .. task.done : tmp[k] = "good"
        BY <1>0, <2>2, <2>3 DEF HashedOnDisk
      <3>2. tmp' = Append(tmp, "good")
        BY <2>1, <2>3, <3>1
      <3> QED BY <2>2, <3>1, <3>2
    <2>5. HashedOnDisk'
      BY <2>2, <2>4 DEF HashedOnDisk
    <2> QED BY <1>b, <2>2, <2>5
  <1>20. CASE FinishStream
    <2>1. CASE task.clean
      <3>1. /\ task'.phase = "verified" /\ task'.misplaced = task.misplaced /\ tmp' = tmp
            /\ tmp \in Seq(Chunk) /\ task.done = Size /\ UNCHANGED landing
        BY <1>0, <1>20, <2>1 DEF FinishStream, OpenFiles, Task
      <3>2. ~task.misplaced => tmp = Whole
        BY <1>0, <1>20, <2>1, <3>1, Values DEF FinishStream, HashedOnDisk, Whole
      <3>3. HashedOnDisk'
        BY <3>1, <3>2 DEF HashedOnDisk, Whole
      <3> QED BY <1>b, <3>1, <3>3
    <2>2. CASE ~task.clean
      <3>1. task'.phase \notin Working /\ task'.done = 0 /\ UNCHANGED landing
        BY <1>20, <2>2, Values DEF FinishStream, Fails
      <3> QED BY <1>a, <3>1
    <2> QED BY <2>1, <2>2
  <1>21. CASE Rename
    <2>1. /\ final' = [chunks |-> tmp, misplaced |-> task.misplaced]
          /\ task'.phase = "renamed" /\ tmp \in Seq(Chunk) /\ task.misplaced \in BOOLEAN
      BY <1>0, <1>21 DEF Rename, OpenFiles, Task
    <2>2. final' # NoFile
      BY <2>1, NoneAssumption DEF File, NoFile
    <2>3. final'.chunks = Whole \/ final'.misplaced
      BY <1>0, <1>21, <2>1 DEF Rename, HashedOnDisk
    <2> QED BY <2>1, <2>2, <2>3 DEF HashedOnDisk, Named, Whole
  <1>22. CASE FileDownloaded
    <2>1. task' = Idle /\ final' = final /\ final # NoFile
      BY <1>0, <1>22 DEF FileDownloaded, Named
    <2> QED BY <1>0, <2>1, Values DEF HashedOnDisk, Named, Whole
  <1>23. CASE Request
    <2>1. transfer_get_partial => row.received \in 0 .. Size
      BY <1>0 DEF transfer_get_partial, TypeOK, Row
    <2>2. PICK n \in 0 .. Size : DownloadFile(n)
      BY <1>23, <2>1, Values DEF Request, cyan_request_file_download, ResumePendingTransfers,
        fetch_attachment_into_scope
    <2> QED BY <1>1, <2>2
  <1>24. CASE UNCHANGED vars
    BY <1>0, <1>24 DEF vars, HashedOnDisk, Named, Whole
  <1> QED BY <1>2, <1>3, <1>4, <1>5, <1>6, <1>7, <1>8, <1>9, <1>10, <1>11, <1>12, <1>13,
        <1>14, <1>15, <1>16, <1>17, <1>18, <1>19, <1>20, <1>21, <1>22, <1>23, <1>24
        DEF Next, Download

LEMMA InvariantHolds == Spec => []LandInv
PROOF
  <1>1. Init => LandInv
    BY InitLand
  <1>2. LandInv /\ [Next]_vars => LandInv'
    BY StepTypes, StepLand DEF LandInv
  <1> QED BY <1>1, <1>2, PTL DEF Spec

(* The variables keep their types: bytes_received stays within the file, and  *)
(* what lies on disk is made of chunks, for every number of chunks, streams    *)
(* and faults.                                                                *)
THEOREM TransferTypes == Spec => []TypeOK
PROOF
  <1>1. LandInv => TypeOK
    BY DEF LandInv, TypeInv
  <1> QED BY <1>1, InvariantHolds, PTL

(* The hash gate holds: a file that local_path points at is the one its hash   *)
(* names, unless a recorded offset put its bytes elsewhere.                    *)
THEOREM HashGateHolds == Spec => []LandedVerified
PROOF
  <1>1. LandInv => LandedVerified
    BY DEF LandInv, Named, LandedVerified
  <1> QED BY <1>1, InvariantHolds, PTL

-----------------------------------------------------------------------------
(* Holes.  Stripes start only when the size is known and leave a tmp of that   *)
(* size, which what is appended or lost of a stream never makes shorter; so a  *)
(* stream that measures the tmp itself finds it stale.                         *)
Holed(c) == \E k \in DOMAIN c : c[k] = "hole"

HolesFill == tmp # NoFile /\ Holed(tmp) => known = Size /\ Len(tmp) >= Size

HolesKept ==
  /\ task.phase \in {"holders", "direct"} => task.offset = task.asked
  /\ task.phase = "parallel" => task.offset = 0
  /\ task.phase \in {"parallel", "stripes"} => known = Size
  /\ task.phase = "single" /\ task.asked = 0 /\ task.offset > 0 => ~Holed(tmp)
  /\ task.phase = "stream" =>
       /\ task.done >= task.offset
       /\ task.asked = 0 => ~Holed(tmp)
       /\ Holed(tmp) => Len(tmp) + task.offset >= Size + task.done

HoleInv == HolesFill /\ HolesKept

(* The follower's step, without what it hashed. *)
LEMMA FollowTask ==
  ASSUME task \in Task, FollowHash
  PROVE  /\ task'.phase = "stripes" /\ task.phase = "stripes"
         /\ tmp' = tmp /\ known' = known
PROOF
  <1>1. PICK zeros \in BOOLEAN :
          task' = [task EXCEPT !.done = task.done + 1,
                     !.clean = task.clean /\ tmp[task.done + 1] = "good" /\ ~zeros]
    BY Zenon DEF FollowHash
  <1>2. task.phase = "stripes" /\ tmp' = tmp
    BY DEF FollowHash
  <1>3. known' = known
    BY DEF FollowHash, Fine
  <1> QED BY <1>1, <1>2, <1>3 DEF Task

(* What a step does to holes.  Most steps only drop the tmp or leave it alone. *)
LEMMA StepHoles ==
  ASSUME LandInv, HoleInv, [Next]_vars
  PROVE  HoleInv'
PROOF
  <1>0. /\ task \in Task /\ tmp \in Content /\ OpenFiles /\ HolesFill /\ HolesKept
        /\ known \in {0, Size} /\ Size \in Nat /\ Size > 0
        /\ row = None \/ row \in Row
    BY Values DEF LandInv, TypeInv, TypeOK, HoleInv
  <1> DEFINE Kept == (tmp' = tmp \/ tmp' = NoFile) /\ known' = known
  <1>a. ASSUME Kept, task'.phase \in {"idle", "verified", "renamed"} PROVE HoleInv'
    BY <1>0, <1>a DEF HoleInv, HolesFill, HolesKept, Holed
  <1>b. ASSUME Kept, task'.phase = "single", task'.offset = 0 PROVE HoleInv'
    BY <1>0, <1>b DEF HoleInv, HolesFill, HolesKept, Holed
  <1>1. ASSUME NEW n \in 0 .. Size, DownloadFile(n) PROVE HoleInv'
    <2>1. task'.phase = "holders" /\ task'.offset = task'.asked
      BY <1>1, IdleTask, Values DEF DownloadFile, Task
    <2>2. Kept
      BY <1>1 DEF DownloadFile, Fine
    <2> QED BY <1>0, <2>1, <2>2 DEF HoleInv, HolesFill, HolesKept, Holed
  <1>2. CASE NoHolders \/ SwarmFails
    <2>1. task'.phase = "direct" /\ task'.offset = task'.asked
      BY <1>0, <1>2 DEF NoHolders, SwarmFails, HolesKept, Task
    <2>2. Kept
      BY <1>2 DEF NoHolders, SwarmFails, Fine, Fault
    <2> QED BY <1>0, <2>1, <2>2 DEF HoleInv, HolesFill, HolesKept, Holed
  <1>3. CASE ChoosePath
    <2> DEFINE stale == Resumable /\ Stale
               offset == IF Resumable /\ ~stale THEN Len(tmp) ELSE task.offset
               path == IF offset = 0 /\ known > 0 /\ large THEN "parallel" ELSE "single"
    <2>1. /\ task' = [task EXCEPT !.offset = offset, !.phase = path]
          /\ tmp' = IF stale THEN NoFile ELSE tmp
          /\ known' = known /\ task.phase = "direct"
      BY <1>3 DEF ChoosePath, Fine
    <2>2. task'.phase = path /\ task'.offset = offset /\ task'.asked = task.asked
      BY <1>0, <2>1 DEF Task
    <2>3. task.asked = 0 /\ offset > 0 => tmp' = tmp /\ ~Holed(tmp)
      <3> SUFFICES ASSUME task.asked = 0, offset > 0
                   PROVE  tmp' = tmp /\ ~Holed(tmp)
        OBVIOUS
      <3>1. task.offset = 0
        BY <1>0, <2>1 DEF HolesKept
      <3>2. Resumable /\ ~stale
        BY <3>1
      <3>3. tmp # NoFile /\ ~Stale
        BY <3>2 DEF Resumable
      <3> QED BY <1>0, <2>1, <3>2, <3>3 DEF HolesFill, Stale
    <2>4. path \in {"parallel", "single"} /\ (path = "parallel" => offset = 0 /\ known = Size)
      BY <1>0
    <2>5. HolesFill'
      BY <1>0, <2>1 DEF HolesFill, Holed
    <2> HIDE DEF offset, path
    <2>6. HolesKept'
      BY <2>1, <2>2, <2>3, <2>4 DEF HolesKept, Holed
    <2> QED BY <2>5, <2>6 DEF HoleInv
  <1>4. CASE StartStripes
    <2>1. /\ task'.phase = "stripes" /\ known' = known /\ known = Size
          /\ tmp' = [k \in 1 .. Size |-> "hole"]
      BY <1>0, <1>4 DEF StartStripes, HolesKept, Fine, Task
    <2>2. Len(tmp') = Size
      BY <1>0, <2>1
    <2> QED BY <1>0, <2>1, <2>2 DEF HoleInv, HolesFill, HolesKept
  <1>5. ASSUME NEW k \in 1 .. Size, StripeChunk(k) PROVE HoleInv'
    <2>1. task' = task /\ task.phase = "stripes" /\ known' = known
      BY <1>5 DEF StripeChunk, Fine, Fault
    <2>2. tmp \in Seq(Chunk) /\ Len(tmp) = Size /\ known = Size
      BY <1>0, <2>1 DEF OpenFiles, HolesKept
    <2>3. PICK c \in Chunk : tmp' = [tmp EXCEPT ![k] = c]
      BY <1>5 DEF StripeChunk, Chunk
    <2>4. Len(tmp') = Size
      BY <2>2, <2>3
    <2> QED BY <1>0, <2>1, <2>2, <2>4 DEF HoleInv, HolesFill, HolesKept
  <1>15. CASE FollowHash
    <2>1. task'.phase = "stripes" /\ tmp' = tmp /\ known' = known /\ task.phase = "stripes"
      BY <1>0, <1>15, FollowTask
    <2> QED BY <1>0, <2>1 DEF HoleInv, HolesFill, HolesKept, Holed
  <1>6. CASE ParallelNoSpace \/ ParallelBreaks
    <2>1. task'.phase = "single" /\ task'.offset = 0
      BY <1>6, IdleTask, Values DEF ParallelNoSpace, ParallelBreaks, FallBack, Task
    <2>2. Kept
      BY <1>6 DEF ParallelNoSpace, ParallelBreaks, Fault
    <2> QED BY <1>b, <2>1, <2>2
  <1>7. CASE FinishStripes
    <2>1. Kept
      BY <1>7 DEF FinishStripes, Fine
    <2>2. CASE task.clean
      BY <1>0, <1>7, <1>a, <2>1, <2>2 DEF FinishStripes, Task
    <2>3. CASE ~task.clean
      <3>1. task'.phase = "single" /\ task'.offset = 0
        BY <1>7, <2>3, IdleTask, Values DEF FinishStripes, FallBack, Task
      <3> QED BY <1>b, <2>1, <3>1
    <2> QED BY <2>2, <2>3
  <1>8. CASE OpenStream
    <2>1. /\ task'.phase = "stream" /\ task'.done = task.offset /\ task'.offset = task.offset
          /\ task'.asked = task.asked /\ known' = known /\ task.phase = "single"
          /\ tmp' = IF task.offset > 0 THEN tmp ELSE <<>>
          /\ task.offset \in Nat
      BY <1>0, <1>8 DEF OpenStream, Fine, Task
    <2>2. CASE task.offset > 0
      <3>1. tmp' = tmp /\ tmp # NoFile /\ tmp \in Seq(Chunk)
        BY <1>0, <1>8, <2>1, <2>2 DEF OpenStream, PrefixOnDisk, Content
      <3>2. task.asked = 0 => ~Holed(tmp)
        BY <1>0, <2>1, <2>2 DEF HolesKept
      <3> QED BY <1>0, <2>1, <3>1, <3>2 DEF HoleInv, HolesFill, HolesKept, Holed
    <2>3. CASE task.offset = 0
      <3>1. tmp' = <<>>
        BY <2>1, <2>3
      <3>2. ~Holed(tmp')
        BY <3>1 DEF Holed
      <3>3. HolesFill'
        BY <3>2 DEF HolesFill, Holed
      <3>4. HolesKept'
        BY <2>1, <3>2 DEF HolesKept, Holed
      <3> QED BY <3>3, <3>4 DEF HoleInv
    <2> QED BY <2>1, <2>2, <2>3
  <1>9. CASE ReceiveChunk
    <2>1. PICK c \in {"good", "bad"} :
            /\ tmp' = Append(tmp, c)
            /\ \E d \in {"good", "bad"} :
                 task' = [task EXCEPT !.done = task.done + 1, !.clean = task.clean /\ d = "good"]
      BY <1>9 DEF ReceiveChunk
    <2>2. /\ task.phase = "stream" /\ task'.phase = "stream" /\ task'.done = task.done + 1
          /\ task'.offset = task.offset /\ task'.asked = task.asked
          /\ task.done \in Nat /\ task.offset \in Nat /\ tmp \in Seq(Chunk) /\ known' = known
      BY <1>0, <1>9, <2>1 DEF ReceiveChunk, OpenFiles, Fine, Fault, Task
    <2>3. Holed(tmp') => Holed(tmp)
      BY <2>1, <2>2 DEF Holed
    <2>4. Len(tmp') = Len(tmp) + 1 /\ tmp # NoFile /\ Len(tmp) \in Nat
      BY <2>1, <2>2, NoneAssumption DEF NoFile
    <2>5. HolesFill'
      <3>1. Holed(tmp') => known = Size /\ Len(tmp) >= Size
        BY <1>0, <2>3, <2>4 DEF HolesFill
      <3> QED BY <1>0, <2>2, <2>4, <3>1 DEF HolesFill, Holed
    <2>6. HolesKept'
      <3>1. /\ task.done >= task.offset /\ (task.asked = 0 => ~Holed(tmp))
            /\ Holed(tmp) => Len(tmp) + task.offset >= Size + task.done
        BY <1>0, <2>2 DEF HolesKept
      <3>2. Holed(tmp') => Len(tmp') + task'.offset >= Size + task'.done
        <4>1. HAVE Holed(tmp')
        <4>2. Len(tmp) + task.offset >= Size + task.done
          BY <2>3, <3>1, <4>1
        <4>3. /\ task'.done = task.done + 1 /\ task'.offset = task.offset
              /\ task.done \in Nat /\ task.offset \in Nat
          BY <2>2
        <4>4. Size \in Nat
          BY <1>0
        <4>5. ASSUME NEW m \in Nat, NEW o \in Nat, NEW n \in Nat, NEW d \in Nat, m + o >= n + d
              PROVE  (m + 1) + o >= n + (d + 1)
          BY <4>5
        <4>6. (Len(tmp) + 1) + task.offset >= Size + (task.done + 1)
          BY <2>4, <4>2, <4>3, <4>4, <4>5
        <4> QED BY <2>4, <4>3, <4>6
      <3>3. task'.done >= task'.offset /\ (task'.asked = 0 => ~Holed(tmp'))
        BY <2>2, <2>3, <3>1
      <3> QED BY <2>2, <3>2, <3>3 DEF HolesKept, Holed
    <2> QED BY <2>5, <2>6 DEF HoleInv
  <1>10. CASE Restart
    <2>1. task'.phase = "idle" /\ known' = known
      BY <1>10, Values DEF Restart, Fault
    <2>2. CASE UNCHANGED tmp
      BY <1>a, <2>1, <2>2
    <2>3. CASE task.phase = "stream" /\ task.done > task.offset /\ tmp' = Front(tmp)
      <3>1. tmp \in Seq(Chunk) /\ tmp # NoFile /\ task.done \in Nat /\ task.offset \in Nat
        BY <1>0, <2>3, NoneAssumption DEF OpenFiles, NoFile, Task
      <3>2. Holed(tmp') => Holed(tmp)
        BY <2>3, <3>1 DEF Front, Holed
      <3>3. Holed(tmp) => known = Size /\ Len(tmp) >= Size + 1
        BY <1>0, <2>3, <3>1 DEF HolesFill, HolesKept
      <3>4. Holed(tmp) => Len(tmp') >= Size
        BY <1>0, <2>3, <3>1, <3>3 DEF Front
      <3> QED BY <2>1, <3>2, <3>3, <3>4 DEF HoleInv, HolesFill, HolesKept, Holed
    <2>4. CASE task.phase = "stripes" /\ \E k \in 1 .. Size : tmp' = [tmp EXCEPT ![k] = "hole"]
      <3>1. tmp \in Seq(Chunk) /\ Len(tmp) = Size /\ known = Size
        BY <1>0, <2>4 DEF OpenFiles, HolesKept
      <3>2. Len(tmp') = Size
        BY <2>4, <3>1
      <3> QED BY <1>0, <2>1, <3>1, <3>2 DEF HoleInv, HolesFill, HolesKept
    <2> QED BY <1>10, <2>2, <2>3, <2>4 DEF Restart
  <1>11. CASE \/ ParallelRefused \/ NoPrefix \/ OffsetPastEnd \/ SingleRefused \/ StreamBreaks
              \/ FileDownloaded \/ swarm_download_file
    <2>1. task' = Idle
      BY <1>11 DEF ParallelRefused, NoPrefix, OffsetPastEnd, SingleRefused, StreamBreaks,
        FileDownloaded, swarm_download_file, Fails
    <2>2. Kept
      BY <1>11 DEF ParallelRefused, NoPrefix, OffsetPastEnd, SingleRefused, StreamBreaks,
        FileDownloaded, swarm_download_file, Fine, Fault
    <2> QED BY <1>a, <2>1, <2>2, Values
  <1>12. CASE FinishStream \/ Rename
    <2>1. task'.phase \in {"idle", "verified", "renamed"}
      BY <1>0, <1>12, Values DEF FinishStream, Rename, Fails, Task
    <2>2. Kept
      BY <1>12 DEF FinishStream, Rename, Fine
    <2> QED BY <1>a, <2>1, <2>2
  <1>13. CASE Request
    <2>1. transfer_get_partial => row.received \in 0 .. Size
      BY <1>0 DEF transfer_get_partial, Row
    <2>2. PICK n \in 0 .. Size : DownloadFile(n)
      BY <1>13, <2>1, Values DEF Request, cyan_request_file_download, ResumePendingTransfers,
        fetch_attachment_into_scope
    <2> QED BY <1>1, <2>2
  <1>14. CASE UNCHANGED vars
    BY <1>0, <1>14 DEF vars, HoleInv, HolesFill, HolesKept, Holed
  <1> QED BY <1>2, <1>3, <1>4, <1>5, <1>6, <1>7, <1>8, <1>9, <1>10, <1>11, <1>12, <1>13, <1>14,
        <1>15 DEF Next, Download

(* A stream that finds its own place to resume never continues stripes.        *)
THEOREM StreamsFindNoHoles == Spec => []ResumesNoHoles
PROOF
  <1>1. Init => HoleInv
    <2> SUFFICES ASSUME Init PROVE HoleInv
      OBVIOUS
    <2> QED BY Values DEF Init, HoleInv, HolesFill, HolesKept
  <1>2. LandInv /\ HoleInv /\ [Next]_vars => HoleInv'
    BY StepHoles
  <1>3. LandInv /\ HoleInv => ResumesNoHoles
    <2> SUFFICES ASSUME LandInv, HoleInv, task.phase = "stream", task.asked = 0
                 PROVE  "hole" \notin Range(tmp)
      BY DEF ResumesNoHoles
    <2> QED BY DEF HoleInv, HolesKept, Holed, Range
  <1> QED BY <1>1, <1>2, <1>3, InvariantHolds, PTL DEF Spec
================================================================================
