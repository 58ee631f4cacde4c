----------------------------- MODULE FileTransfer -----------------------------
(***************************************************************************)
(* The download of one file by one device: from holders known to the swarm, *)
(* else in parallel stripes, else in a single stream that resumes from the *)
(* bytes an earlier attempt left behind.                                   *)
(* Code: actors/topic_actor.rs (DownloadFile), actors/network_actor.rs     *)
(* (the serving side), swarm.rs, storage.rs (file_transfers), ffi/core.rs. *)
(*                                                                         *)
(* A file is Size chunks.  What a chunk on disk is worth depends on where  *)
(* it lies: "good" is the right chunk at its place, "hole" was allocated   *)
(* and never written.  One download of the file runs at a time.            *)
(***************************************************************************)
EXTENDS Naturals, Sequences, SequencesExt

CONSTANTS
  None,
  Size,          \* chunks of the file
  Streams,       \* CYAN_XFER_STREAMS
  RecordEvery,   \* chunks between two updates of bytes_received
  MaxFaults      \* bound on everything that goes wrong

ASSUME SizeAssumption == {Size, Streams, RecordEvery} \subseteq Nat \ {0} /\ MaxFaults \in Nat

VARIABLES
  known,     \* the size in the local file row; 0 when it is not known
  large,     \* is that at least PARALLEL_MIN_BYTES
  tmp,       \* the chunks of <file_id>.tmp; None: no such file
  row,       \* the row of file_transfers; None: no such row
  final,     \* the file under its own name; None: not there
  local,     \* does local_path point at it
  task,      \* the download under way
  faults

landing == <<final, local>>
vars == <<known, large, tmp, row, final, local, task, faults>>

Chunk == {"good", "bad", "hole"}
Whole == [k \in 1 .. Size |-> "good"]
NoFile == None

File == [chunks : Seq(Chunk), misplaced : BOOLEAN]
Content == Seq(Chunk) \cup {NoFile}

Status == {"in_progress", "complete", "hash_mismatch", "relay_refused", "no_disk_space"}
Row == [received : 0 .. Size, status : Status]

ASSUME NoneAssumption == None \notin Seq(Chunk) \cup File \cup Row

(* asked: the offset in the command; offset: where the task resumes.  clean: *)
(* every byte fed to the hasher so far is the right one.  misplaced         *)
(* (history): the bytes were appended elsewhere than at the tmp's end as    *)
(* the hasher saw it.                                                      *)
Task ==
  [phase : {"idle", "holders", "direct", "parallel", "stripes", "single", "stream",
            "verified", "renamed"},
   asked : 0 .. Size, offset : Nat, done : 0 .. Size, clean : BOOLEAN, misplaced : BOOLEAN]

Idle == [phase |-> "idle", asked |-> 0, offset |-> 0, done |-> 0, clean |-> TRUE, misplaced |-> FALSE]

Init ==
  /\ known \in {0, Size}
  /\ large \in BOOLEAN
  /\ tmp = NoFile
  /\ row = None
  /\ final = NoFile
  /\ local = FALSE
  /\ task = Idle
  /\ faults = 0

Fault ==
  /\ faults < MaxFaults
  /\ faults' = faults + 1
  /\ UNCHANGED <<known, large>>

Fine == UNCHANGED <<known, large, faults>>

-----------------------------------------------------------------------------
(* The row of file_transfers *)

transfer_upsert(received) == row' = [received |-> received, status |-> "in_progress"]

(* An UPDATE: nothing happens without a row. *)
transfer_set_status(status) ==
  row' = IF row = None THEN None ELSE [row EXCEPT !.status = status]

transfer_update_progress(received, record) ==
  row' = IF record /\ row # None THEN [row EXCEPT !.received = received] ELSE row

(* No code writes "pending" or "failed". *)
transfer_get_partial == row # None /\ row.status = "in_progress"

-----------------------------------------------------------------------------
(* Requests *)

(* A command with its offset reaches the topic actor, which spawns the task. *)
DownloadFile(offset) ==
  /\ task.phase = "idle"
  /\ task' = [Idle EXCEPT !.phase = "holders", !.asked = offset, !.offset = offset]
  /\ UNCHANGED <<tmp, row, landing>>
  /\ Fine

(* The app's button, for a file not here yet, names the recorded offset. *)
cyan_request_file_download ==
  /\ ~local
  /\ DownloadFile(IF transfer_get_partial THEN row.received ELSE 0)

(* ResumePendingTransfers names it too, whatever is here. *)
ResumePendingTransfers ==
  /\ transfer_get_partial
  /\ DownloadFile(row.received)

(* A message's attachment, and the node binary, start from nothing. *)
fetch_attachment_into_scope == DownloadFile(0)

-----------------------------------------------------------------------------
(* The swarm *)

(* Holders are learnt from IHave gossip. *)
NoHolders ==
  /\ task.phase = "holders"
  /\ task' = [task EXCEPT !.phase = "direct"]
  /\ UNCHANGED <<tmp, row, landing>>
  /\ Fine

(* The blob store verifies while it fetches; the exported copy is verified   *)
(* again.  The tmp file of an earlier attempt is left where it is.          *)
swarm_download_file ==
  /\ task.phase = "holders"
  /\ final' = [chunks |-> Whole, misplaced |-> FALSE]
  /\ local' = TRUE
  /\ transfer_set_status("complete")
  /\ task' = Idle
  /\ UNCHANGED tmp
  /\ Fine

(* No holder could serve it, or the disk is too full. *)
SwarmFails ==
  /\ task.phase = "holders"
  /\ task' = [task EXCEPT !.phase = "direct"]
  /\ \E full \in BOOLEAN : IF full THEN transfer_set_status("no_disk_space") ELSE UNCHANGED row
  /\ UNCHANGED <<tmp, landing>>
  /\ Fault

-----------------------------------------------------------------------------
(* Resuming, and the choice of a path *)

(* Mutant: a full-size tmp is taken for a full prefix. *)
NeverStale == FALSE

(* A tmp at or over the known size starts afresh. *)
Stale == known > 0 /\ Len(tmp) >= known

Resumable == task.offset = 0 /\ transfer_get_partial /\ tmp # NoFile

ChoosePath ==
  /\ task.phase = "direct"
  /\ LET stale == Resumable /\ Stale
         offset == IF Resumable /\ ~stale THEN Len(tmp) ELSE task.offset
     IN /\ tmp' = IF stale THEN NoFile ELSE tmp
        /\ task' = [task EXCEPT !.offset = offset,
                      !.phase = IF offset = 0 /\ known > 0 /\ large
                                THEN "parallel" ELSE "single"]
  /\ UNCHANGED <<row, landing>>
  /\ Fine

(* Every failure ends in one FileDownloadFailed. *)
Fails == task' = Idle /\ UNCHANGED landing

-----------------------------------------------------------------------------
(* Parallel stripes: preallocated, written at their true offsets, hashed in  *)
(* order from the disk by a follower.  A failure falls back to one stream.   *)

FallBack == task' = [Idle EXCEPT !.phase = "single", !.asked = task.asked] /\ UNCHANGED landing

StartStripes ==
  /\ task.phase = "parallel"
  /\ tmp' = [k \in 1 .. Size |-> "hole"]
  /\ transfer_upsert(0)
  /\ task' = [task EXCEPT !.phase = "stripes"]
  /\ UNCHANGED landing
  /\ Fine

(* The disk is too full: nothing was opened yet. *)
ParallelNoSpace ==
  /\ task.phase = "parallel"
  /\ transfer_set_status("no_disk_space")
  /\ FallBack
  /\ UNCHANGED tmp
  /\ Fault

(* Only the relay leads to the peer: final, no single stream around it. *)
ParallelRefused ==
  /\ task.phase = "parallel"
  /\ transfer_set_status("relay_refused")
  /\ tmp' = NoFile
  /\ Fails
  /\ Fault

Stripe(k) == {j \in 1 .. Size : j % Streams = k % Streams}

(* The next chunk of a stripe, right or wrong. *)
StripeChunk(k) ==
  /\ task.phase = "stripes" /\ tmp[k] = "hole"
  /\ \A j \in Stripe(k) : j < k => tmp[j] # "hole"
  /\ \/ tmp' = [tmp EXCEPT ![k] = "good"] /\ Fine
     \/ tmp' = [tmp EXCEPT ![k] = "bad"] /\ Fault
  /\ UNCHANGED <<row, landing, task>>

(* A chunk is counted when its write was handed over, not when it happened:  *)
(* until the stripe's next write the follower may still read zeros there.    *)
MayReadZeros(c) == \A j \in Stripe(c) : j > c => tmp[j] = "hole"

FollowHash ==
  /\ task.phase = "stripes" /\ task.done < Size
  /\ LET c == task.done + 1 IN
       /\ tmp[c] # "hole"
       /\ \E zeros \in IF MayReadZeros(c) THEN BOOLEAN ELSE {FALSE} :
            task' = [task EXCEPT !.done = c, !.clean = @ /\ tmp[c] = "good" /\ ~zeros]
       /\ transfer_update_progress(c, c % RecordEvery = 0 \/ c = Size)
  /\ UNCHANGED <<tmp, landing>>
  /\ Fine

(* No connection, or a stripe ends early. *)
ParallelBreaks ==
  /\ task.phase \in {"parallel", "stripes"}
  /\ tmp' = NoFile
  /\ FallBack
  /\ UNCHANGED row
  /\ Fault

FinishStripes ==
  /\ task.phase = "stripes" /\ task.done = Size
  /\ IF task.clean
     THEN task' = [task EXCEPT !.phase = "verified"] /\ UNCHANGED <<tmp, row, landing>>
     ELSE FallBack /\ transfer_set_status("hash_mismatch") /\ tmp' = NoFile
  /\ Fine

-----------------------------------------------------------------------------
(* One stream *)

PrefixOnDisk == task.offset = 0 \/ (tmp # NoFile /\ Len(tmp) >= task.offset)

(* Mutant: the prefix was verified when it landed. *)
TrustPrefix == TRUE

(* The prefix on disk is hashed again. *)
CleanPrefix == \A k \in 1 .. task.offset : tmp[k] = "good"

(* The file is opened for append, or truncated. *)
OpenStream ==
  /\ task.phase = "single" /\ task.offset <= Size /\ PrefixOnDisk
  /\ tmp' = IF task.offset > 0 THEN tmp ELSE <<>>
  /\ task' = [task EXCEPT !.phase = "stream", !.done = task.offset,
                          !.clean = task.offset = 0 \/ CleanPrefix,
                          !.misplaced = task.offset > 0 /\ Len(tmp) # task.offset]
  /\ transfer_upsert(task.offset)
  /\ UNCHANGED landing
  /\ Fine

(* The tmp is missing or shorter than the offset. *)
NoPrefix ==
  /\ task.phase = "single" /\ task.offset <= Size /\ ~PrefixOnDisk
  /\ Fails
  /\ UNCHANGED <<tmp, row>>
  /\ Fine

(* The serving side computes total_size - offset: in a release build more    *)
(* bytes than any disk has.                                                  *)
OffsetPastEnd ==
  /\ task.phase = "single" /\ task.offset > Size
  /\ transfer_set_status("no_disk_space")
  /\ Fails
  /\ UNCHANGED tmp
  /\ Fine

(* No connection, the peer has no such file, the relay policy, a full disk. *)
SingleRefused ==
  /\ task.phase = "single"
  /\ \/ UNCHANGED row
     \/ \E s \in {"relay_refused", "no_disk_space"} : transfer_set_status(s)
  /\ Fails
  /\ UNCHANGED tmp
  /\ Fault

(* Mutant: the Complete frame is read as one more chunk. *)
ReceivePastEnd ==
  /\ task.phase = "stream" /\ task.done <= Size
  /\ \E c \in {"good", "bad"} :
       /\ tmp' = Append(tmp, IF Len(tmp) = task.done THEN c ELSE "bad")
       /\ task' = [task EXCEPT !.done = @ + 1, !.clean = @ /\ c = "good"]
       /\ IF c = "bad" THEN Fault ELSE Fine
  /\ transfer_update_progress(task.done + 1, (task.done + 1) % RecordEvery = 0)
  /\ UNCHANGED landing

ReceiveChunk ==
  /\ task.phase = "stream" /\ task.done < Size
  /\ \E c \in {"good", "bad"} :
       /\ tmp' = Append(tmp, IF Len(tmp) = task.done THEN c ELSE "bad")
       /\ task' = [task EXCEPT !.done = @ + 1, !.clean = @ /\ c = "good"]
       /\ IF c = "bad" THEN Fault ELSE Fine
  /\ transfer_update_progress(task.done + 1, (task.done + 1) % RecordEvery = 0)
  /\ UNCHANGED landing

StreamBreaks ==
  /\ task.phase = "stream"
  /\ Fails
  /\ UNCHANGED <<tmp, row>>
  /\ Fault

(* Mutant: a mismatch leaves the row resumable. *)
MismatchUnrecorded ==
  /\ task.phase = "stream" /\ task.done = Size
  /\ IF task.clean
     THEN task' = [task EXCEPT !.phase = "verified"] /\ UNCHANGED landing
     ELSE Fails
  /\ UNCHANGED <<tmp, row>>
  /\ Fine

FinishStream ==
  /\ task.phase = "stream" /\ task.done = Size
  /\ IF task.clean
     THEN task' = [task EXCEPT !.phase = "verified"] /\ UNCHANGED <<row, landing>>
     ELSE Fails /\ transfer_set_status("hash_mismatch")
  /\ UNCHANGED tmp
  /\ Fine

-----------------------------------------------------------------------------
(* Landing, on either path *)

Rename ==
  /\ task.phase = "verified"
  /\ tmp' = NoFile
  /\ final' = [chunks |-> tmp, misplaced |-> task.misplaced]
  /\ task' = [task EXCEPT !.phase = "renamed"]
  /\ UNCHANGED <<row, local>>
  /\ Fine

FileDownloaded ==
  /\ task.phase = "renamed"
  /\ local' = TRUE
  /\ transfer_set_status("complete")
  /\ task' = Idle
  /\ UNCHANGED <<tmp, final>>
  /\ Fine

(* The process dies.  The last write may not have reached the file. *)
Restart ==
  /\ task.phase # "idle"
  /\ task' = Idle
  /\ \/ UNCHANGED tmp
     \/ task.phase = "stream" /\ task.done > task.offset /\ tmp' = Front(tmp)
     \/ task.phase = "stripes" /\ \E k \in 1 .. Size : MayReadZeros(k) /\ tmp' = [tmp EXCEPT ![k] = "hole"]
  /\ UNCHANGED <<row, landing>>
  /\ Fault

-----------------------------------------------------------------------------
(* Specification *)

Request == cyan_request_file_download \/ ResumePendingTransfers \/ fetch_attachment_into_scope

Download ==
  \/ NoHolders \/ swarm_download_file \/ SwarmFails \/ ChoosePath
  \/ StartStripes \/ ParallelNoSpace \/ ParallelRefused
  \/ (\E k \in 1 .. Size : StripeChunk(k))
  \/ FollowHash \/ ParallelBreaks \/ FinishStripes
  \/ OpenStream \/ NoPrefix \/ OffsetPastEnd \/ SingleRefused
  \/ ReceiveChunk \/ StreamBreaks \/ FinishStream \/ Rename \/ FileDownloaded

Next == Request \/ Download \/ Restart

Spec == Init /\ [][Next]_vars

(* A download goes on: connecting has a time limit, a dead connection is      *)
(* reported by the transport.  Whoever wants the file asks again with offset *)
(* 0 (a message with the attachment, the node binary), the app or not.       *)
FairSpec == Spec /\ WF_vars(Download) /\ SF_vars(fetch_attachment_into_scope)

-----------------------------------------------------------------------------
(* Properties *)

TypeOK ==
  /\ known \in {0, Size} /\ large \in BOOLEAN /\ local \in BOOLEAN
  /\ tmp \in Content
  /\ row = None \/ row \in Row
  /\ final = NoFile \/ final \in File
  /\ task \in Task
  /\ faults \in 0 .. MaxFaults

(* The hash gate: a file that local_path points at is the file the hash      *)
(* names, whichever attempts, peers and paths its bytes came from.  The one   *)
(* exception is a stream resumed at a recorded offset that is not where the   *)
(* tmp ends: its bytes are hashed in order and appended elsewhere.           *)
LandedVerified == local => final.chunks = Whole \/ final.misplaced

(* A stream that finds its own place to resume never continues a tmp with     *)
(* holes in it, which only stripes leave.  (One told where to resume may.)    *)
ResumesNoHoles ==
  task.phase = "stream" /\ task.asked = 0 => "hole" \notin Range(tmp)

(* A file asked for again and again lands once nothing goes wrong any more:   *)
(* no attempt leaves a row and a tmp behind on which every later one fails.   *)
RetriesLand == <>local
=============================================================================
