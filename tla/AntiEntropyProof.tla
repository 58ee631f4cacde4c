--------------------------- MODULE AntiEntropyProof ---------------------------
(* Theorems about AntiEntropy, for every set of peers, rows and clocks.        *)
EXTENDS AntiEntropy, TLAPS

-------------------------------------------------------------------------------
(* Stores: what the statements of GroupStore return and preserve. *)

(* A delete returns a store. *)
LEMMA EraseReturnsRows ==
  ASSUME NEW s \in Rows, NEW i \in Id
  PROVE  Erase(s, i) \in Rows
PROOF
  <1>1. DeleteBoard(s, i) \in Rows /\ DeleteRow(s, i) \in Rows
    BY DEF DeleteBoard, DeleteRow, Rows
  <1>2. SoftDeleteFile(s, i) \in Rows
    <2>1. CASE ~Present(s, i)
      BY <2>1 DEF SoftDeleteFile
    <2>2. CASE Present(s, i)
      <3>1. s[i] \in Row
        BY <2>2 DEF Present, Rows
      <3>2. [s[i] EXCEPT !.gone = TRUE] \in Row
        BY <3>1 DEF Row
      <3> QED BY <2>2, <3>2 DEF SoftDeleteFile, Rows
    <2> QED BY <2>1, <2>2
  <1> QED BY <1>1, <1>2 DEF Erase

(* So does every other statement. *)
LEMMA StatementsReturnRows ==
  ASSUME NEW s \in Rows, NEW i \in Id, NEW r \in Row
  PROVE  /\ InsertRow(s, i, r) \in Rows
         /\ UpdateRow(s, i, r) \in Rows
         /\ UpsertRow(s, i, r) \in Rows
PROOF
  <1>1. InsertRow(s, i, r) \in Rows /\ UpdateRow(s, i, r) \in Rows
    BY DEF InsertRow, UpdateRow, Rows
  <1>2. LwwMerge(s[i], r) \in Row \cup {None}
    BY DEF LwwMerge, Rows
  <1>3. UpsertRow(s, i, r) \in Rows
    BY <1>2 DEF UpsertRow, Rows
  <1> QED BY <1>1, <1>3

(* The merge of a snapshot's row never removes one. *)
LEMMA MergeReturnsRow ==
  ASSUME NEW i \in Id, NEW old \in Row \cup {None}, NEW new \in Row
  PROVE  SnapshotMerge(i, old, new) \in Row
BY RowAssumption DEF SnapshotMerge, LwwMerge

(* Only rows the frame carries land, none of them refused. *)
LEMMA LandingsAreSound ==
  ASSUME NEW s \in Rows, NEW rows \in Rows, NEW f, NEW done \in Landings(s, rows, f)
  PROVE  /\ done \subseteq Id
         /\ \A i \in done : rows[i] \in Row /\ BoardPresent(s, i)
BY DEF Landings, Carried, Refused, Rows

(* A frame leaves a store. *)
LEMMA FrameReturnsRows ==
  ASSUME NEW s \in Rows, NEW rows \in Rows, NEW f, NEW done \in Landings(s, rows, f)
  PROVE  ApplyRows(s, rows, done) \in Rows
PROOF
  <1>1. \A i \in Id : s[i] \in Row \cup {None}
    BY DEF Rows
  <1>2. \A i \in done : SnapshotMerge(i, s[i], rows[i]) \in Row
    BY <1>1, LandingsAreSound, MergeReturnsRow
  <1> QED BY <1>1, <1>2 DEF ApplyRows, Rows

(* A snapshot is a store. *)
LEMMA ServedReturnsRows ==
  ASSUME NEW s \in Rows, NEW since
  PROVE  Served(s, since) \in Rows
BY DEF Served, Rows

(* Foreign keys of one store. *)
Sound(s) == \A i \in Id : Present(s, i) => BoardPresent(s, i)

(* A delete keeps a store's foreign keys. *)
LEMMA EraseKeepsSound ==
  ASSUME NEW s \in Rows, NEW i \in Id, Sound(s)
  PROVE  Sound(Erase(s, i))
PROOF
  <1> USE RowAssumption
  <1>1. Sound(DeleteBoard(s, i))
    BY HomeAssumption DEF Sound, DeleteBoard, Present, BoardPresent, Rows
  <1>2. ASSUME Kind[i] # "board" PROVE Sound(DeleteRow(s, i))
    BY <1>2, HomeAssumption DEF Sound, DeleteRow, Present, BoardPresent, Rows
  <1>3. Sound(SoftDeleteFile(s, i))
    <2>1. CASE Present(s, i)
      <3>1. s[i] \in Row
        BY <2>1 DEF Present, Rows
      <3>2. [s[i] EXCEPT !.gone = TRUE] \in Row
        BY <3>1 DEF Row
      <3>3. [s[i] EXCEPT !.gone = TRUE] # None
        BY <3>2
      <3> QED BY <2>1, <3>3, HomeAssumption
              DEF Sound, SoftDeleteFile, Present, BoardPresent, Rows
    <2> QED BY <2>1 DEF SoftDeleteFile
  <1> QED BY <1>1, <1>2, <1>3 DEF Erase

(* So does every other statement. *)
LEMMA StatementsKeepSound ==
  ASSUME NEW s \in Rows, NEW i \in Id, NEW r \in Row, Sound(s)
  PROVE  /\ Sound(InsertRow(s, i, r))
         /\ Sound(UpdateRow(s, i, r))
         /\ Sound(UpsertRow(s, i, r))
PROOF
  <1> USE RowAssumption
  <1>1. r # None
    OBVIOUS
  <1>2. Sound(InsertRow(s, i, r))
    BY HomeAssumption DEF Sound, InsertRow, Present, BoardPresent, Rows
  <1>3. Sound(UpdateRow(s, i, r))
    BY HomeAssumption DEF Sound, UpdateRow, Present, BoardPresent, Rows
  <1>4. LwwMerge(s[i], r) # None
    BY DEF LwwMerge
  <1>5. Sound(UpsertRow(s, i, r))
    BY <1>4, HomeAssumption DEF Sound, UpsertRow, Present, BoardPresent, Rows
  <1> QED BY <1>2, <1>3, <1>5

(* So does a frame, wherever it stops. *)
LEMMA FrameKeepsSound ==
  ASSUME NEW s \in Rows, NEW rows \in Rows, NEW f, NEW done \in Landings(s, rows, f),
         Sound(s)
  PROVE  Sound(ApplyRows(s, rows, done))
PROOF
  <1> DEFINE t == ApplyRows(s, rows, done)
  <1>1. \A i \in Id : s[i] \in Row \cup {None}
    BY DEF Rows
  <1>2. \A i \in done : t[i] \in Row
    BY <1>1, LandingsAreSound, MergeReturnsRow DEF ApplyRows
  <1>3. \A i \in Id : i \notin done => t[i] = s[i]
    BY DEF ApplyRows
  <1>4. \A i \in Id : Present(s, i) => Present(t, i)
    BY <1>2, <1>3, RowAssumption DEF Present
  <1>5. \A i \in Id : BoardPresent(s, i) => BoardPresent(t, i)
    BY <1>4, HomeAssumption DEF BoardPresent
  <1>6. \A i \in Id : Present(t, i) => BoardPresent(s, i)
    BY <1>3, LandingsAreSound DEF Sound, Present
  <1> QED BY <1>5, <1>6 DEF Sound

-------------------------------------------------------------------------------
(* Users: every write is one statement and at most one delta, and so is every  *)
(* delete.                                                                     *)

Statement(op, s, i, r) == CASE op = "insert" -> InsertRow(s, i, r)
                            [] op = "update" -> UpdateRow(s, i, r)
                            [] op = "upsert" -> UpsertRow(s, i, r)

(* The tables a statement is for. *)
Suits(op, i) == /\ op \in {"insert", "update", "upsert"}
                /\ op = "insert" => Kind[i] \notin Lww
                /\ op = "update" => Kind[i] \in Drawn
                /\ op = "upsert" => Kind[i] \in Lww

Wrote(n, i, t) ==
  \E op, deltas : /\ Suits(op, i)
                  /\ deltas \subseteq {Told(op, i, Fresh(t), n)}
                  /\ op # "update" => BoardPresent(store[n], i)
                  /\ Author(n, i, t, deltas, Statement(op, store[n], i, Fresh(t)))

Dropped(n, i) ==
  \E deltas : deltas \subseteq {Told("delete", i, None, n)} /\ Drop(n, i, deltas)

LEMMA WritesAreStatements ==
  ASSUME NEW n, NEW i \in Id, NEW t, Writing(n, i, t)
  PROVE  Wrote(n, i, t)
PROOF
  <1>1. ASSUME Kind[i] \notin Lww, Insert(n, i, t) PROVE Wrote(n, i, t)
    <2>1. Suits("insert", i)
      BY <1>1 DEF Suits
    <2>2. Statement("insert", store[n], i, Fresh(t)) = InsertRow(store[n], i, Fresh(t))
      BY DEF Statement
    <2> QED BY <1>1, <2>1, <2>2 DEF Insert, Wrote
  <1>2. ASSUME Kind[i] \in Drawn, Rewrite(n, i, t) PROVE Wrote(n, i, t)
    <2>1. Suits("update", i)
      BY <1>2 DEF Suits
    <2>2. Statement("update", store[n], i, Fresh(t)) = UpdateRow(store[n], i, Fresh(t))
      BY DEF Statement
    <2> QED BY <1>2, <2>1, <2>2 DEF Rewrite, Wrote
  <1>3. ASSUME NEW deltas, deltas \subseteq {Told("upsert", i, Fresh(t), n)},
               Put(n, i, t, deltas)
        PROVE  Wrote(n, i, t)
    <2>1. Suits("upsert", i)
      BY <1>3 DEF Suits, Put
    <2>2. Statement("upsert", store[n], i, Fresh(t)) = UpsertRow(store[n], i, Fresh(t))
      BY DEF Statement
    <2> QED BY <1>3, <2>1, <2>2 DEF Put, Wrote, BoardPresent
  <1>4. CASE \/ CreateBoard(n, i, t) \/ SendChat(n, i, t) \/ UploadFile(n, i, t)
             \/ CreateElement(n, i, t) \/ AddCell(n, i, t)
    BY <1>1, <1>4 DEF CreateBoard, SendChat, UploadFile, CreateElement, AddCell, Mint, Lww
  <1>5. CASE UpdateElement(n, i, t) \/ UpdateCell(n, i, t)
    BY <1>2, <1>5 DEF UpdateElement, UpdateCell, Drawn
  <1>6. CASE PutNote(n, i, t) \/ SetPin(n, i, t) \/ SetBoardPinned(n, i, t)
    BY <1>3, <1>6 DEF PutNote, SetPin, SetBoardPinned, PutTold
  <1>7. CASE UpdateBoardMetadata(n, i, t)
    BY <1>3, <1>7 DEF UpdateBoardMetadata
  <1> QED BY <1>4, <1>5, <1>6, <1>7 DEF Writing

(* Only the creation of a board gives a node something to own. *)
LEMMA WritesOwnIds ==
  ASSUME NEW n, NEW i \in Id, NEW t, Writing(n, i, t), owned \in [Node -> SUBSET Id]
  PROVE  owned' \in [Node -> SUBSET Id]
PROOF
  <1>1. CASE CreateBoard(n, i, t)
    BY <1>1 DEF CreateBoard
  <1>2. CASE ~CreateBoard(n, i, t)
    BY <1>2 DEF Writing, SendChat, UploadFile, CreateElement, AddCell, Mint,
                UpdateElement, UpdateCell, Rewrite, PutNote, SetPin, SetBoardPinned,
                PutTold, UpdateBoardMetadata, Put
  <1> QED BY <1>1, <1>2

LEMMA DeletesAreDrops ==
  ASSUME NEW n, NEW i \in Id, Deleting(n, i)
  PROVE  Dropped(n, i)
BY DEF Deleting, Dropped, DissolveBoard, LeaveBoard, DeleteChat, DeleteNote,
       Discard, DeleteElement, DeleteCell, DeleteFile, DropTold

(* What users leave alone. *)
LEMMA UsersTouchNoNet ==
  ASSUME NEW n, User(n)
  PROVE  UNCHANGED netVars
BY WritesAreStatements, DeletesAreDrops DEF User, Wrote, Dropped, Author, Drop

-------------------------------------------------------------------------------
(* Type correctness. *)

(* Applying a delta leaves a store. *)
LEMMA DeltaReturnsRows ==
  ASSUME NEW s \in Rows, NEW d \in Delta, NEW t \in Stamp
  PROVE  ApplyDelta(s, d, t) \in Rows
PROOF
  <1>1. d.id \in Id /\ d.op \in {"insert", "update", "upsert", "delete"}
    BY DEF Delta
  <1>2. CASE d.op = "delete"
    BY <1>1, <1>2, EraseReturnsRows DEF ApplyDelta
  <1>3. CASE d.op # "delete"
    <2>1. d.row \in Row
      BY <1>3 DEF Delta, Fits
    <2>2. [d.row EXCEPT !.ts = t] \in Row
      BY <2>1 DEF Row
    <2>3. Received(d, t) \in Row
      BY <2>1, <2>2 DEF Received
    <2> QED BY <1>1, <1>3, <2>1, <2>3, StatementsReturnRows DEF ApplyDelta
  <1> QED BY <1>2, <1>3

(* A digest is well formed. *)
LEMMA DigestType ==
  ASSUME TypeOK, NEW n \in Node
  PROVE  GroupDigest(n) \in Digest
PROOF
  <1>1. ASSUME NEW i \in Id, Listed(store[n], i) PROVE Version(i, store[n][i]) \in Nat
    <2>1. store[n][i] \in Row
      BY <1>1 DEF TypeOK, Rows, Listed, Present
    <2> QED BY <2>1, StampAssumption DEF Version, Row
  <1>2. DigestLines(store[n]) \in SUBSET (Id \X Nat)
    BY <1>1 DEF DigestLines
  <1> QED BY <1>2, NodeAssumption DEF GroupDigest, Digest

(* A fresh pull is well formed. *)
LEMMA OpenType ==
  ASSUME NEW m \in Node, NEW since \in Since
  PROVE  Open(m, since) \in Pull
BY DEF Open, Pull, NoRows, Rows

(* So is a pull that has moved on. *)
LEMMA AdvanceType ==
  ASSUME NEW p \in Pull, NEW stage \in 0..4, NEW rows \in Rows
  PROVE  Advance(p, stage, rows) \in Pull
BY DEF Advance, Pull

LEMMA FreshType ==
  ASSUME TypeOK, NEW t \in Stamp
  PROVE  Fresh(t) \in Row
BY DEF Fresh, Row, TypeOK

(* The rows and deltas of a user's write are well formed. *)
LEMMA AuthorType ==
  ASSUME TypeOK, NEW n \in Node, NEW i \in Id, NEW t \in Stamp, Wrote(n, i, t),
         owned' \in [Node -> SUBSET Id]
  PROVE  TypeOK'
PROOF
  <1>1. PICK op, deltas :
          /\ Suits(op, i)
          /\ deltas \subseteq {Told(op, i, Fresh(t), n)}
          /\ Author(n, i, t, deltas, Statement(op, store[n], i, Fresh(t)))
    BY DEF Wrote
  <1>2. [id |-> i, ts |-> t, body |-> edits + 1] \in Write
    BY DEF Write, TypeOK
  <1>3. Told(op, i, Fresh(t), n) \in Delta
    BY <1>1, FreshType, RowAssumption DEF Told, Delta, Fits, Suits
  <1>4. written' \subseteq Write /\ wire' \subseteq Delta /\ edits' \in Nat
    BY <1>1, <1>2, <1>3 DEF TypeOK, Author
  <1>5. Statement(op, store[n], i, Fresh(t)) \in Rows
    BY <1>1, FreshType, StatementsReturnRows DEF TypeOK, Statement, Suits
  <1>6. store' \in [Node -> Rows]
    BY <1>1, <1>5 DEF TypeOK, Author
  <1> QED BY <1>1, <1>4, <1>6 DEF TypeOK, Author, netVars

(* So is what a delete leaves. *)
LEMMA DropType ==
  ASSUME TypeOK, NEW n \in Node, NEW i \in Id, Dropped(n, i)
  PROVE  TypeOK'
PROOF
  <1>1. PICK deltas : deltas \subseteq {Told("delete", i, None, n)} /\ Drop(n, i, deltas)
    BY DEF Dropped
  <1>2. Erase(store[n], i) \in Rows
    BY EraseReturnsRows DEF TypeOK
  <1>3. Told("delete", i, None, n) \in Delta
    BY DEF Told, Delta, Fits
  <1> QED BY <1>1, <1>2, <1>3 DEF TypeOK, Drop, netVars

(* Every variable keeps its type: rows are rows, only deletes travel without   *)
(* one, only elements and cells are updated in place and only clocked tables   *)
(* upserted, a pull is in one of its five stages.                              *)
LEMMA TypeInductive == TypeOK /\ [Next]_vars => TypeOK'
PROOF
  <1> SUFFICES ASSUME TypeOK, [Next]_vars PROVE TypeOK'
    OBVIOUS
  <1> USE DEF TypeOK
  <1>1. CASE UNCHANGED vars
    BY <1>1 DEF vars
  <1>2. ASSUME NEW n \in Node, User(n) PROVE TypeOK'
    <2>1. ASSUME NEW i \in Id, NEW t \in Stamp, Writing(n, i, t) PROVE TypeOK'
      BY <2>1, WritesAreStatements, WritesOwnIds, AuthorType
    <2>2. ASSUME NEW i \in Id, Deleting(n, i) PROVE TypeOK'
      BY <2>2, DeletesAreDrops, DropType
    <2> QED BY <1>2, <2>1, <2>2 DEF User
  <1>3. ASSUME NEW n \in Node, Gossip(n) PROVE TypeOK'
    <2>1. ASSUME NEW d \in wire, Deliver(n, d) PROVE TypeOK'
      BY <2>1 DEF Deliver
    <2>2. ASSUME NEW t \in Stamp, Persist(n, t) PROVE TypeOK'
      <3>1. Head(inbox[n]) \in Delta /\ Tail(inbox[n]) \in Seq(Delta)
        BY <2>2 DEF Persist
      <3>2. ApplyDelta(store[n], Head(inbox[n]), t) \in Rows
        BY <3>1, DeltaReturnsRows
      <3> QED BY <2>2, <3>1, <3>2 DEF Persist
    <2> QED BY <1>3, <2>1, <2>2 DEF Gossip
  <1>4. ASSUME NEW n \in Node, Repair(n) PROVE TypeOK'
    <2>1. ASSUME NEW m \in Node, Sweep(m, n) PROVE TypeOK'
      <3>1. GroupDigest(m) \in Digest
        BY DigestType
      <3> QED BY <2>1, <3>1 DEF Sweep
    <2>2. ASSUME NEW m \in Node, IgnoreDigest(n, m) PROVE TypeOK'
      BY <2>2 DEF IgnoreDigest
    <2>3. ASSUME NEW m \in Node, StartRepair(n, m) PROVE TypeOK'
      <3>1. Open(m, NoSince) \in Pull
        BY OpenType DEF Since
      <3> QED BY <2>3, <3>1 DEF StartRepair, Pulls
    <2> QED BY <1>4, <2>1, <2>2, <2>3 DEF Repair
  <1>5. ASSUME NEW n \in Node, PullStep(n) PROVE TypeOK'
    <2>1. ASSUME NEW m \in Node, NEW since \in Since, StartSync(n, m, since) PROVE TypeOK'
      <3>1. Open(m, since) \in Pull
        BY OpenType
      <3> QED BY <2>1, <3>1 DEF StartSync, Pulls
    <2>2. ASSUME NEW k \in Pulls, Serve(n, k) PROVE TypeOK'
      <3> DEFINE p == pull[n][k]
      <3>1. p \in Pull
        BY <2>2 DEF Serve
      <3>2. Served(store[p.from], p.since) \in Rows
        BY <3>1, ServedReturnsRows DEF Pull
      <3>3. Advance(p, 1, Served(store[p.from], p.since)) \in Pull
        BY <3>1, <3>2, AdvanceType
      <3> QED BY <2>2, <3>3 DEF Serve
    <2>3. ASSUME NEW k \in Pulls, ApplyFrame(n, k) PROVE TypeOK'
      <3> DEFINE p == pull[n][k]
      <3>1. p \in Pull /\ p.next \in 1..3
        BY <2>3 DEF ApplyFrame
      <3>2. p.rows \in Rows
        BY <3>1 DEF Pull
      <3>3. Remaining(p.rows, p.next) \in Rows
        BY <3>2 DEF Remaining, Rows
      <3>4. Advance(p, p.next + 1, Remaining(p.rows, p.next)) \in Pull
        <4>1. p.next + 1 \in 0..4
          BY <3>1
        <4> QED BY <3>1, <3>3, <4>1, AdvanceType
      <3>5. PICK done \in Landings(store[n], p.rows, p.next) :
              store' = [store EXCEPT ![n] = ApplyRows(@, p.rows, done)]
        BY <2>3 DEF ApplyFrame
      <3>6. ApplyRows(store[n], p.rows, done) \in Rows
        BY <3>2, FrameReturnsRows
      <3> QED BY <2>3, <3>4, <3>5, <3>6 DEF ApplyFrame
    <2>4. ASSUME NEW k \in Pulls, CompletePull(n, k) PROVE TypeOK'
      BY <2>4 DEF CompletePull, Close
    <2>5. ASSUME NEW k \in Pulls, BreakPull(n, k) PROVE TypeOK'
      <3>1. faults' \in Nat
        BY <2>5 DEF BreakPull
      <3>2. /\ pull' \in [Node -> [Pulls -> Pull \cup {None}]]
            /\ repairing' \in [Node -> BOOLEAN]
        BY <2>5 DEF BreakPull, Close
      <3> QED BY <2>5, <3>1, <3>2 DEF BreakPull
    <2> QED BY <1>5, <2>1, <2>2, <2>3, <2>4, <2>5 DEF PullStep
  <1>6. ASSUME NEW n \in Node, Restart(n) PROVE TypeOK'
    BY <1>6 DEF Restart
  <1> QED BY <1>1, <1>2, <1>3, <1>4, <1>5, <1>6 DEF Next

LEMMA TypeInit == Init => TypeOK
PROOF
  <1> SUFFICES ASSUME Init PROVE TypeOK
    OBVIOUS
  <1>1. SeedRow \in Row
    BY SeedAssumption DEF SeedRow, Row
  <1>2. store \in [Node -> Rows]
    BY <1>1 DEF Init, Rows
  <1>3. written \subseteq Write
    BY SeedAssumption DEF Init, Write
  <1>4. owned \in [Node -> SUBSET Id]
    BY SeedAssumption DEF Init
  <1> QED BY <1>2, <1>3, <1>4 DEF Init, TypeOK

(* The typing invariant of the specification. *)
THEOREM TypeCorrect == Spec => []TypeOK
BY TypeInit, TypeInductive, PTL DEF Spec

-------------------------------------------------------------------------------
(* The repair slot. *)

LEMMA RepairSlotInductive == TypeOK /\ RepairSlot /\ [Next]_vars => RepairSlot'
PROOF
  <1> SUFFICES ASSUME TypeOK, RepairSlot, [Next]_vars PROVE RepairSlot'
    OBVIOUS
  <1> USE DEF TypeOK, RepairSlot
  <1>1. CASE UNCHANGED <<repairing, pull>>
    BY <1>1
  <1>2. ASSUME NEW n \in Node, User(n) \/ Gossip(n) PROVE UNCHANGED <<repairing, pull>>
    BY <1>2, UsersTouchNoNet DEF Gossip, Deliver, Persist, netVars
  <1>3. ASSUME NEW n \in Node, Repair(n) PROVE RepairSlot'
    <2>1. ASSUME NEW m \in Node, Sweep(m, n) \/ IgnoreDigest(n, m)
          PROVE  UNCHANGED <<repairing, pull>>
      BY <2>1 DEF Sweep, IgnoreDigest
    <2>2. ASSUME NEW m \in Node, StartRepair(n, m) PROVE RepairSlot'
      <3>1. Open(m, NoSince) # None
        BY OpenType, NoneAssumption DEF Since
      <3> QED BY <2>2, <3>1 DEF StartRepair, Pulls
    <2> QED BY <1>1, <1>3, <2>1, <2>2 DEF Repair
  <1>4. ASSUME NEW n \in Node, PullStep(n) PROVE RepairSlot'
    <2>1. ASSUME NEW m \in Node, NEW since \in Since, StartSync(n, m, since)
          PROVE  RepairSlot'
      BY <2>1 DEF StartSync, Pulls
    <2>2. ASSUME NEW k \in Pulls, NEW q \in Pull, pull[n][k] # None,
                 pull' = [pull EXCEPT ![n][k] = q], UNCHANGED repairing
          PROVE  RepairSlot'
      BY <2>2, NoneAssumption DEF Pulls
    <2>3. ASSUME NEW k \in Pulls, Serve(n, k) PROVE RepairSlot'
      <3> DEFINE p == pull[n][k]
      <3>1. p \in Pull
        BY <2>3 DEF Serve
      <3>2. Advance(p, 1, Served(store[p.from], p.since)) \in Pull
        BY <3>1, ServedReturnsRows, AdvanceType DEF Pull
      <3> QED BY <2>2, <2>3, <3>2 DEF Serve
    <2>4. ASSUME NEW k \in Pulls, ApplyFrame(n, k) PROVE RepairSlot'
      <3> DEFINE p == pull[n][k]
      <3>1. p \in Pull /\ p.next \in 1..3
        BY <2>4 DEF ApplyFrame
      <3>2. Remaining(p.rows, p.next) \in Rows /\ p.next + 1 \in 0..4
        BY <3>1 DEF Remaining, Rows, Pull
      <3>3. Advance(p, p.next + 1, Remaining(p.rows, p.next)) \in Pull
        BY <3>1, <3>2, AdvanceType
      <3> QED BY <2>2, <2>4, <3>3 DEF ApplyFrame
    <2>5. ASSUME NEW k \in Pulls, Close(n, k) PROVE RepairSlot'
      BY <2>5 DEF Close, Pulls
    <2> QED BY <1>4, <2>1, <2>3, <2>4, <2>5 DEF PullStep, CompletePull, BreakPull
  <1>5. ASSUME NEW n \in Node, Restart(n) PROVE RepairSlot'
    BY <1>5 DEF Restart, Pulls
  <1> QED BY <1>1, <1>2, <1>3, <1>4, <1>5 DEF Next, vars

(* The debounce flag is up exactly while a repair pull is in flight, however   *)
(* pulls end, break or are cut off by a restart.                               *)
THEOREM RepairSlotSafe == Spec => []RepairSlot
PROOF
  <1>1. Init => RepairSlot
    BY DEF Init, RepairSlot, Pulls
  <1> QED BY <1>1, TypeCorrect, RepairSlotInductive, PTL DEF Spec

-------------------------------------------------------------------------------
(* The one way rows change: every action leaves a peer's store alone, or puts  *)
(* it through one statement or one frame, with rows taken from G.              *)

StoreChange(s, t, G) ==
  \/ t = s
  \/ \E i \in Id, r \in Row :
       /\ <<i, r>> \in G
       /\ \/ Kind[i] \notin Lww /\ t = InsertRow(s, i, r)
          \/ Kind[i] \in Drawn /\ t = UpdateRow(s, i, r)
          \/ Kind[i] \in Lww /\ t = UpsertRow(s, i, r)
  \/ \E i \in Id : i \in Deletes /\ t = Erase(s, i)
  \/ \E rows \in Rows, f \in 1..3 :
       /\ \A i \in Id : rows[i] # None => <<i, rows[i]>> \in G
       /\ \E done \in Landings(s, rows, f) : t = ApplyRows(s, rows, done)

(* The rows users have written, under every clock a cell may have been given,  *)
(* and those of them that may travel.                                          *)
Authentic == {p \in Id \X Row : Authored(p[1], p[2])}
Live == {p \in Id \X Row : Sendable(p[1], p[2])}

(* No action forgets a write. *)
LEMMA WrittenGrows == [Next]_vars => written \subseteq written'
PROOF
  <1> SUFFICES ASSUME [Next]_vars PROVE written \subseteq written'
    OBVIOUS
  <1>1. ASSUME NEW n \in Node, User(n) PROVE written \subseteq written'
    BY <1>1, WritesAreStatements, DeletesAreDrops
       DEF User, Wrote, Dropped, Author, Drop
  <1>2. ASSUME NEW n \in Node, Gossip(n) \/ Repair(n) PROVE written' = written
    BY <1>2 DEF Gossip, Repair, Deliver, Persist, Sweep, IgnoreDigest, StartRepair
  <1>3. ASSUME NEW n \in Node, PullStep(n) \/ Restart(n) PROVE written' = written
    BY <1>3 DEF PullStep, StartSync, Serve, ApplyFrame, CompletePull, BreakPull, Restart
  <1> QED BY <1>1, <1>2, <1>3 DEF Next, vars

(* So what was authentic stays so. *)
LEMMA AuthenticGrows ==
  [Next]_vars => Authentic \subseteq Authentic' /\ Live \subseteq Live'
BY WrittenGrows DEF Authentic, Live, Sendable, Authored

(* The row of a user's write may travel. *)
LEMMA FreshLive ==
  ASSUME TypeOK, NEW n \in Node, NEW i \in Id, NEW t \in Stamp, NEW deltas, NEW rows,
         Author(n, i, t, deltas, rows), NEW r \in Row, r = Fresh(t)
  PROVE  <<i, r>> \in Live'
PROOF
  <1>1. PICK w \in written' : w = [id |-> i, ts |-> t, body |-> edits + 1]
    BY DEF Author
  <1>2. w.id = i /\ w.body = r.body /\ w.ts = r.ts
    BY <1>1 DEF Fresh
  <1>3. ~r.gone
    BY DEF Fresh
  <1> QED BY <1>2, <1>3 DEF Authored, Sendable, Live

(* Deltas carry such rows. *)
LEMMA DeltaLive ==
  ASSUME TypeOK, NEW d \in Delta, DeltaAuthored(d), d.op # "delete", NEW t \in Stamp
  PROVE  /\ d.row \in Row /\ <<d.id, d.row>> \in Live
         /\ Received(d, t) \in Row /\ <<d.id, Received(d, t)>> \in Live
PROOF
  <1>1. d.row \in Row /\ d.id \in Id
    BY DEF Delta, Fits
  <1>2. <<d.id, d.row>> \in Live
    BY <1>1 DEF DeltaAuthored, Live
  <1>3. CASE Kind[d.id] = "cell"
    <2> DEFINE r == [d.row EXCEPT !.ts = t]
    <2>1. r \in Row /\ r.body = d.row.body /\ r.gone = d.row.gone
      BY <1>1 DEF Row
    <2>2. Received(d, t) = r
      BY <1>3 DEF Received
    <2>3. PICK w \in written : w.id = d.id /\ w.body = d.row.body
      BY DEF DeltaAuthored, Sendable, Authored
    <2>4. Sendable(d.id, r)
      BY <1>3, <2>1, <2>3 DEF DeltaAuthored, Sendable, Authored
    <2> QED BY <1>1, <1>2, <2>1, <2>2, <2>4 DEF Live
  <1>4. CASE Kind[d.id] # "cell"
    BY <1>1, <1>2, <1>4 DEF Received
  <1> QED BY <1>3, <1>4

(* What every action does to the rows of every peer. *)
LEMMA StoreChanges ==
  ASSUME TypeOK, RowsAuthored, [Next]_vars, NEW m \in Node
  PROVE  StoreChange(store[m], store'[m], Live')
PROOF
  <1> USE DEF TypeOK
  <1> DEFINE Goal == StoreChange(store[m], store'[m], Live')
  <1>1. ASSUME store'[m] = store[m] PROVE Goal
    BY <1>1 DEF StoreChange
  <1>2. ASSUME NEW n \in Node, User(n) PROVE Goal
    <2>1. ASSUME NEW i \in Id, NEW t \in Stamp, Wrote(n, i, t) PROVE Goal
      <3>1. PICK r \in Row : r = Fresh(t)
        BY FreshType
      <3>2. PICK op, deltas :
              Suits(op, i) /\ Author(n, i, t, deltas, Statement(op, store[n], i, r))
        BY <2>1, <3>1 DEF Wrote
      <3>3. store' = [store EXCEPT ![n] = Statement(op, store[n], i, r)]
        BY <3>2 DEF Author
      <3>4. <<i, r>> \in Live'
        BY <3>1, <3>2, FreshLive
      <3> QED BY <1>1, <3>2, <3>3, <3>4 DEF StoreChange, Statement, Suits
    <2>2. ASSUME NEW i \in Id, Dropped(n, i) PROVE Goal
      BY <1>1, <2>2 DEF Dropped, Drop, StoreChange
    <2> QED BY <1>2, <2>1, <2>2, WritesAreStatements, DeletesAreDrops DEF User
  <1>3. ASSUME NEW n \in Node, NEW t \in Stamp, Persist(n, t) PROVE Goal
    <2> DEFINE d == Head(inbox[n])
    <2>1. d \in Delta /\ DeltaAuthored(d) /\ d.id \in Id
      <3>1. inbox[n] \in Seq(Delta) /\ inbox[n] # <<>>
        BY <1>3 DEF Persist
      <3>2. 1 \in DOMAIN inbox[n] /\ d = inbox[n][1]
        BY <3>1
      <3> QED BY <3>1, <3>2 DEF RowsAuthored, Delta
    <2>2. store' = [store EXCEPT ![n] = ApplyDelta(store[n], d, t)]
      BY <1>3 DEF Persist
    <2>3. CASE d.op = "delete"
      <3>1. ApplyDelta(store[n], d, t) = Erase(store[n], d.id) /\ d.id \in Deletes
        BY <2>1, <2>3 DEF ApplyDelta, DeltaAuthored
      <3> QED BY <1>1, <2>1, <2>2, <3>1 DEF StoreChange
    <2>4. CASE d.op # "delete"
      <3>1. /\ d.row \in Row /\ <<d.id, d.row>> \in Live'
            /\ Received(d, t) \in Row /\ <<d.id, Received(d, t)>> \in Live'
        BY <2>1, <2>4, DeltaLive, AuthenticGrows
      <3>2. CASE d.op = "insert"
        <4>1. ApplyDelta(store[n], d, t) = InsertRow(store[n], d.id, Received(d, t))
          BY <3>2 DEF ApplyDelta
        <4>2. Kind[d.id] \notin Lww
          BY <2>1, <3>2 DEF Delta, Fits
        <4> QED BY <1>1, <2>1, <2>2, <3>1, <4>1, <4>2 DEF StoreChange
      <3>3. CASE d.op = "update"
        <4>1. ApplyDelta(store[n], d, t) = UpdateRow(store[n], d.id, Received(d, t))
          BY <3>3 DEF ApplyDelta
        <4>2. Kind[d.id] \in Drawn
          BY <2>1, <3>3 DEF Delta, Fits
        <4> QED BY <1>1, <2>1, <2>2, <3>1, <4>1, <4>2 DEF StoreChange
      <3>4. CASE d.op = "upsert"
        <4>1. ApplyDelta(store[n], d, t) = UpsertRow(store[n], d.id, d.row)
          BY <3>4 DEF ApplyDelta
        <4>2. Kind[d.id] \in Lww
          BY <2>1, <3>4 DEF Delta, Fits
        <4> QED BY <1>1, <2>1, <2>2, <3>1, <4>1, <4>2 DEF StoreChange
      <3> QED BY <2>1, <2>4, <3>2, <3>3, <3>4 DEF Delta
    <2> QED BY <2>3, <2>4
  <1>4. ASSUME NEW n \in Node, NEW k \in Pulls, ApplyFrame(n, k) PROVE Goal
    <2> DEFINE p == pull[n][k]
    <2>1. p \in Pull /\ p # None /\ p.next \in 1..3 /\ p.rows \in Rows
      BY <1>4 DEF ApplyFrame, Pull
    <2>2. \A i \in Id : p.rows[i] # None => <<i, p.rows[i]>> \in Live
      <3>1. \A i \in Id : p.rows[i] # None => p.rows[i] \in Row
        BY <2>1 DEF Rows
      <3> QED BY <2>1, <3>1 DEF RowsAuthored, Live
    <2>3. PICK done \in Landings(store[n], p.rows, p.next) :
            store' = [store EXCEPT ![n] = ApplyRows(store[n], p.rows, done)]
      BY <1>4 DEF ApplyFrame
    <2>4. \A i \in Id : p.rows[i] # None => <<i, p.rows[i]>> \in Live'
      BY <2>2, AuthenticGrows
    <2> QED BY <1>1, <2>1, <2>3, <2>4 DEF StoreChange
  <1>5. ASSUME NEW n \in Node, Gossip(n) PROVE Goal
    BY <1>1, <1>3, <1>5 DEF Gossip, Deliver
  <1>6. ASSUME NEW n \in Node, Repair(n) \/ Restart(n) PROVE Goal
    BY <1>1, <1>6 DEF Repair, Sweep, IgnoreDigest, StartRepair, Restart
  <1>7. ASSUME NEW n \in Node, PullStep(n) PROVE Goal
    BY <1>1, <1>4, <1>7 DEF PullStep, StartSync, Serve, CompletePull, BreakPull
  <1> QED BY <1>1, <1>2, <1>5, <1>6, <1>7 DEF Next, vars

-------------------------------------------------------------------------------
(* Rows are what users wrote. *)

TombstoneClosed(G) ==
  \A i \in Id, r \in Row :
    <<i, r>> \in G /\ Kind[i] = "file" => <<i, [r EXCEPT !.gone = TRUE]>> \in G

LEMMA AuthenticTombstones == TombstoneClosed(Authentic) /\ TombstoneClosed(Authentic')
PROOF
  <1>1. \A r \in Row : LET g == [r EXCEPT !.gone = TRUE]
                      IN  g \in Row /\ g.body = r.body /\ g.ts = r.ts
    BY DEF Row
  <1>2. TombstoneClosed(Authentic)
    BY <1>1 DEF TombstoneClosed, Authentic, Authored
  <1>3. TombstoneClosed(Authentic')
    BY <1>1 DEF TombstoneClosed, Authentic, Authored
  <1> QED BY <1>2, <1>3

(* A change brings in rows of H only; a tombstone does not alter a row's text. *)
LEMMA ChangeKeepsAuthentic ==
  ASSUME NEW G, TombstoneClosed(G), NEW H, H \subseteq G,
         NEW s \in Rows, NEW t \in Rows, StoreChange(s, t, H),
         \A i \in Id : Present(s, i) => <<i, s[i]>> \in G
  PROVE  \A i \in Id : Present(t, i) => <<i, t[i]>> \in G
PROOF
  <1> SUFFICES ASSUME NEW j \in Id, Present(t, j) PROVE <<j, t[j]>> \in G
    OBVIOUS
  <1>1. CASE t = s
    BY <1>1
  <1>2. ASSUME NEW i \in Id, NEW r \in Row, <<i, r>> \in G,
               \/ t = InsertRow(s, i, r)
               \/ t = UpdateRow(s, i, r)
               \/ t = UpsertRow(s, i, r)
        PROVE  <<j, t[j]>> \in G
    <2>1. t[j] = s[j] \/ (j = i /\ t[j] = r)
      BY <1>2 DEF InsertRow, UpdateRow, UpsertRow, LwwMerge, Rows
    <2> QED BY <1>2, <2>1 DEF Present
  <1>3. ASSUME NEW i \in Id, t = Erase(s, i) PROVE <<j, t[j]>> \in G
    <2>1. CASE Kind[i] = "board"
      BY <1>3, <2>1 DEF Erase, DeleteBoard, Present, Rows
    <2>2. CASE Kind[i] = "file"
      <3>1. CASE Present(s, i) /\ j = i
        <4>1. s[j] \in Row /\ <<j, s[j]>> \in G
          BY <3>1 DEF Present, Rows
        <4>2. t[j] = [s[j] EXCEPT !.gone = TRUE]
          BY <1>3, <2>2, <3>1 DEF Erase, SoftDeleteFile, Rows
        <4> QED BY <2>2, <3>1, <4>1, <4>2 DEF TombstoneClosed
      <3>2. CASE ~(Present(s, i) /\ j = i)
        BY <1>3, <2>2, <3>2 DEF Erase, SoftDeleteFile, Present, Rows
      <3> QED BY <3>1, <3>2
    <2>3. CASE Kind[i] # "board" /\ Kind[i] # "file"
      BY <1>3, <2>3 DEF Erase, DeleteRow, Present, Rows
    <2> QED BY <2>1, <2>2, <2>3
  <1>4. ASSUME NEW rows \in Rows, NEW f \in 1..3, NEW done \in Landings(s, rows, f),
               \A i \in Id : rows[i] # None => <<i, rows[i]>> \in G,
               t = ApplyRows(s, rows, done)
        PROVE  <<j, t[j]>> \in G
    <2>1. t[j] = s[j] \/ (j \in done /\ t[j] = rows[j])
      BY <1>4 DEF ApplyRows, SnapshotMerge, LwwMerge
    <2>2. j \in done => rows[j] # None
      BY LandingsAreSound, RowAssumption
    <2> QED BY <1>4, <2>1, <2>2 DEF Present
  <1> QED BY <1>1, <1>2, <1>3, <1>4 DEF StoreChange

(* What a pull has left to apply was in the holder's store. *)
LEMMA ServedLive ==
  ASSUME NEW s \in Rows, NEW since, NEW i \in Id, Served(s, since)[i] # None
  PROVE  Served(s, since)[i] = s[i] /\ Present(s, i) /\ ~s[i].gone
BY DEF Served, Present, Listed

(* The one way a pull changes. *)
PullChange(p, q) ==
  \/ q = p
  \/ q = None
  \/ \E m \in Node, since \in Since : q = Open(m, since)
  \/ /\ p \in Pull
     /\ \/ q = Advance(p, 1, Served(store[p.from], p.since))
        \/ \E f \in 1..3 : q = Advance(p, f + 1, Remaining(p.rows, f))

LEMMA PullChanges ==
  ASSUME TypeOK, [Next]_vars, NEW m \in Node, NEW l \in Pulls
  PROVE  PullChange(pull[m][l], pull'[m][l])
PROOF
  <1> USE DEF TypeOK
  <1> DEFINE Goal == PullChange(pull[m][l], pull'[m][l])
  <1>1. ASSUME UNCHANGED pull PROVE Goal
    BY <1>1 DEF PullChange
  <1>2. ASSUME NEW n \in Node, User(n) \/ Gossip(n) PROVE UNCHANGED pull
    BY <1>2, UsersTouchNoNet DEF Gossip, Deliver, Persist, netVars
  <1>3. ASSUME NEW n \in Node, Repair(n) PROVE Goal
    BY <1>3 DEF Repair, Sweep, IgnoreDigest, StartRepair, PullChange, Pulls, Since
  <1>4. ASSUME NEW n \in Node, PullStep(n) PROVE Goal
    <2>1. ASSUME NEW x \in Node, NEW since \in Since, StartSync(n, x, since) PROVE Goal
      BY <2>1 DEF StartSync, PullChange, Pulls
    <2>2. ASSUME NEW k \in Pulls, Serve(n, k) PROVE Goal
      BY <2>2 DEF Serve, PullChange
    <2>3. ASSUME NEW k \in Pulls, ApplyFrame(n, k) PROVE Goal
      BY <2>3 DEF ApplyFrame, PullChange
    <2>4. ASSUME NEW k \in Pulls, Close(n, k) PROVE Goal
      BY <2>4 DEF Close, PullChange
    <2> QED BY <1>4, <2>1, <2>2, <2>3, <2>4 DEF PullStep, CompletePull, BreakPull
  <1>5. ASSUME NEW n \in Node, Restart(n) PROVE Goal
    BY <1>5 DEF Restart, PullChange
  <1> QED BY <1>1, <1>2, <1>3, <1>4, <1>5 DEF Next, vars

(* A delta on the wire was there, is a delete users make, or may travel. *)
LEMMA WireChanges ==
  ASSUME TypeOK, [Next]_vars, NEW d \in wire'
  PROVE  \/ d \in wire
         \/ d.op = "delete" /\ d.id \in Deletes
         \/ d.op # "delete" /\ <<d.id, d.row>> \in Live'
PROOF
  <1> DEFINE Goal == \/ d \in wire
                     \/ d.op = "delete" /\ d.id \in Deletes
                     \/ d.op # "delete" /\ <<d.id, d.row>> \in Live'
  <1>1. ASSUME NEW n \in Node, NEW i \in Id, NEW t \in Stamp, Wrote(n, i, t) PROVE Goal
    <2>1. PICK op, deltas, rows :
            /\ Suits(op, i)
            /\ deltas \subseteq {Told(op, i, Fresh(t), n)}
            /\ Author(n, i, t, deltas, rows)
      BY <1>1 DEF Wrote
    <2>2. d \in wire \/ d = Told(op, i, Fresh(t), n)
      BY <2>1 DEF Author
    <2>3. PICK r \in Row : r = Fresh(t)
      BY FreshType
    <2>4. <<i, r>> \in Live'
      BY <2>1, <2>3, FreshLive
    <2> QED BY <2>1, <2>2, <2>3, <2>4 DEF Told, Suits
  <1>2. ASSUME NEW n \in Node, NEW i \in Id, Dropped(n, i) PROVE Goal
    BY <1>2 DEF Dropped, Drop, Told
  <1>3. ASSUME NEW n \in Node, User(n) PROVE Goal
    BY <1>1, <1>2, <1>3, WritesAreStatements, DeletesAreDrops DEF User
  <1>4. ASSUME NEW n \in Node, Gossip(n) \/ Repair(n) PROVE wire' = wire
    BY <1>4 DEF Gossip, Repair, Deliver, Persist, Sweep, IgnoreDigest, StartRepair
  <1>5. ASSUME NEW n \in Node, PullStep(n) \/ Restart(n) PROVE wire' = wire
    BY <1>5 DEF PullStep, StartSync, Serve, ApplyFrame, CompletePull, BreakPull, Restart
  <1> QED BY <1>3, <1>4, <1>5 DEF Next, vars

(* A queued delta was queued already or comes from the wire. *)
LEMMA InboxChanges ==
  ASSUME TypeOK, [Next]_vars, NEW m \in Node, NEW j \in DOMAIN inbox'[m]
  PROVE  \/ \E x \in DOMAIN inbox[m] : inbox'[m][j] = inbox[m][x]
         \/ inbox'[m][j] \in wire
PROOF
  <1> USE DEF TypeOK
  <1> DEFINE Goal == \/ \E x \in DOMAIN inbox[m] : inbox'[m][j] = inbox[m][x]
                     \/ inbox'[m][j] \in wire
  <1>1. ASSUME inbox'[m] = inbox[m] PROVE Goal
    BY <1>1
  <1>2. ASSUME NEW n \in Node, NEW d \in wire, Deliver(n, d) PROVE Goal
    <2>1. CASE m = n
      <3>1. inbox[m] \in Seq(Delta) /\ inbox'[m] = Append(inbox[m], d)
        BY <1>2, <2>1 DEF Deliver
      <3> QED BY <3>1
    <2> QED BY <1>1, <1>2, <2>1 DEF Deliver
  <1>3. ASSUME NEW n \in Node, NEW t \in Stamp, Persist(n, t) PROVE Goal
    <2>1. CASE m = n
      <3>1. inbox[m] \in Seq(Delta) /\ inbox[m] # <<>> /\ inbox'[m] = Tail(inbox[m])
        BY <1>3, <2>1 DEF Persist
      <3>2. j + 1 \in DOMAIN inbox[m] /\ inbox'[m][j] = inbox[m][j + 1]
        BY <3>1
      <3> QED BY <3>2
    <2> QED BY <1>1, <1>3, <2>1 DEF Persist
  <1>4. ASSUME NEW n \in Node, Restart(n) PROVE Goal
    <2>1. CASE m = n
      BY <1>4, <2>1 DEF Restart
    <2> QED BY <1>1, <1>4, <2>1 DEF Restart
  <1>5. ASSUME NEW n \in Node, User(n) \/ Repair(n) PROVE inbox' = inbox
    BY <1>5, UsersTouchNoNet DEF netVars, Repair, Sweep, IgnoreDigest, StartRepair
  <1>6. ASSUME NEW n \in Node, PullStep(n) PROVE inbox' = inbox
    BY <1>6 DEF PullStep, StartSync, Serve, ApplyFrame, CompletePull, BreakPull
  <1> QED BY <1>1, <1>2, <1>3, <1>4, <1>5, <1>6 DEF Next, Gossip, vars

(* Rows, frames and deltas carry user writes and nothing else. *)
LEMMA RowsAuthoredInductive == TypeOK /\ RowsAuthored /\ [Next]_vars => RowsAuthored'
PROOF
  <1> SUFFICES ASSUME TypeOK, RowsAuthored, [Next]_vars PROVE RowsAuthored'
    OBVIOUS
  <1>1. TypeOK'
    BY TypeInductive
  <1> USE DEF TypeOK
  <1>2. ASSUME NEW n \in Node, NEW i \in Id, Present(store'[n], i)
        PROVE  Authored(i, store[n][i])'
    <2>1. \A j \in Id : Present(store[n], j) => <<j, store[n][j]>> \in Authentic
      <3>1. \A j \in Id : Present(store[n], j) => store[n][j] \in Row
        BY DEF Present, Rows
      <3> QED BY <3>1 DEF RowsAuthored, Authentic
    <2>2. \A j \in Id : Present(store[n], j) => <<j, store[n][j]>> \in Authentic'
      BY <2>1, AuthenticGrows
    <2>3. <<i, store'[n][i]>> \in Authentic'
      <3>1. StoreChange(store[n], store'[n], Live') /\ Live' \subseteq Authentic'
        BY StoreChanges DEF Live, Authentic, Sendable
      <3>2. store[n] \in Rows /\ store'[n] \in Rows
        BY <1>1
      <3> QED BY <1>2, <2>2, <3>1, <3>2, AuthenticTombstones, ChangeKeepsAuthentic
    <2> QED BY <2>3 DEF Authentic
  <1>3. ASSUME NEW n \in Node, NEW k \in Pulls, NEW i \in Id, pull'[n][k] # None,
               pull'[n][k].rows[i] # None
        PROVE  Sendable(i, pull[n][k].rows[i])'
    <2> DEFINE p == pull[n][k]
               q == pull'[n][k]
    <2>1. CASE q = p
      <3>1. p \in Pull /\ p.rows[i] \in Row /\ Sendable(i, p.rows[i])
        BY <1>3, <2>1 DEF RowsAuthored, Pull, Rows
      <3>2. <<i, p.rows[i]>> \in Live'
        BY <3>1, AuthenticGrows DEF Live
      <3> QED BY <2>1, <3>2 DEF Live
    <2>2. ASSUME NEW m \in Node, NEW since \in Since, q = Open(m, since) PROVE FALSE
      BY <1>3, <2>2 DEF Open, NoRows
    <2>3. CASE p \in Pull /\ q = Advance(p, 1, Served(store[p.from], p.since))
      <3>1. q.rows = Served(store[p.from], p.since)
        BY <2>3 DEF Advance, Pull
      <3>2. store[p.from] \in Rows /\ p.from \in Node
        BY <2>3 DEF Pull
      <3>3. /\ q.rows[i] = store[p.from][i] /\ Present(store[p.from], i)
            /\ ~q.rows[i].gone
        BY <1>3, <3>1, <3>2, ServedLive
      <3>4. store[p.from][i] \in Row /\ Authored(i, store[p.from][i])
        BY <3>2, <3>3 DEF RowsAuthored, Present, Rows
      <3>5. <<i, q.rows[i]>> \in Live'
        BY <3>3, <3>4, AuthenticGrows DEF Live, Sendable
      <3> QED BY <3>5 DEF Live
    <2>4. ASSUME NEW f \in 1..3, p \in Pull, q = Advance(p, f + 1, Remaining(p.rows, f))
          PROVE  Sendable(i, pull[n][k].rows[i])'
      <3>1. q.rows = Remaining(p.rows, f)
        BY <2>4 DEF Advance, Pull
      <3>2. q.rows[i] = p.rows[i] /\ p.rows[i] # None
        BY <1>3, <3>1 DEF Remaining
      <3>3. p.rows[i] \in Row /\ Sendable(i, p.rows[i])
        BY <2>4, <3>2, NoneAssumption DEF RowsAuthored, Pull, Rows
      <3>4. <<i, q.rows[i]>> \in Live'
        BY <3>2, <3>3, AuthenticGrows DEF Live
      <3> QED BY <3>4 DEF Live
    <2> QED BY <1>3, <2>1, <2>2, <2>3, <2>4, PullChanges DEF PullChange
  <1>4. ASSUME NEW d \in Delta, DeltaAuthored(d) PROVE DeltaAuthored(d)'
    <2>1. d.op # "delete" => <<d.id, d.row>> \in Live
      BY <1>4 DEF DeltaAuthored, Live, Delta, Fits
    <2>2. d.op # "delete" => <<d.id, d.row>> \in Live'
      BY <2>1, AuthenticGrows
    <2> QED BY <1>4, <2>2 DEF DeltaAuthored, Live
  <1>5. ASSUME NEW d \in wire' PROVE DeltaAuthored(d)'
    <2>1. CASE d \in wire
      BY <1>4, <2>1 DEF RowsAuthored
    <2>2. CASE d.op = "delete" /\ d.id \in Deletes
      BY <2>2 DEF DeltaAuthored
    <2>3. CASE d.op # "delete" /\ <<d.id, d.row>> \in Live'
      BY <2>3 DEF DeltaAuthored, Live
    <2> QED BY <2>1, <2>2, <2>3, WireChanges
  <1>6. ASSUME NEW m \in Node, NEW j \in DOMAIN inbox'[m] PROVE DeltaAuthored(inbox[m][j])'
    <2>1. PICK d \in Delta : d = inbox'[m][j] /\ DeltaAuthored(d)
      <3>1. \A x \in DOMAIN inbox[m] : inbox[m][x] \in Delta
        OBVIOUS
      <3> QED BY <3>1, InboxChanges DEF RowsAuthored
    <2> QED BY <1>4, <2>1 DEF DeltaAuthored
  <1> QED BY <1>2, <1>3, <1>5, <1>6 DEF RowsAuthored

LEMMA RowsAuthoredInit == Init => RowsAuthored
PROOF
  <1> SUFFICES ASSUME Init PROVE RowsAuthored
    OBVIOUS
  <1>1. ASSUME NEW n \in Node, NEW i \in Id, Present(store[n], i)
        PROVE  Authored(i, store[n][i])
    <2>1. i \in Seeded /\ store[n][i] = SeedRow
      BY <1>1 DEF Init, Present
    <2>2. PICK w \in written : w = [id |-> i, ts |-> SeedStamp, body |-> 0]
      BY <2>1 DEF Init
    <2> QED BY <2>1, <2>2 DEF Authored, SeedRow
  <1>2. \A n \in Node, k \in Pulls : pull[n][k] = None
    BY DEF Init
  <1>3. wire = {} /\ \A n \in Node : DOMAIN inbox[n] = {}
    BY DEF Init
  <1> QED BY <1>1, <1>2, <1>3 DEF RowsAuthored

(* Every row on every peer, in every frame and in every delta is a row that    *)
(* some user wrote: retries, duplicates, restarts and half-finished pulls mix  *)
(* nothing up.                                                                 *)
THEOREM RowsAuthoredSafe == Spec => []RowsAuthored
BY RowsAuthoredInit, RowsAuthoredInductive, TypeCorrect, PTL DEF Spec

-------------------------------------------------------------------------------
(* Foreign keys. *)

LEMMA ReferentialInductive ==
  TypeOK /\ RowsAuthored /\ Referential /\ [Next]_vars => Referential'
PROOF
  <1> SUFFICES ASSUME TypeOK, RowsAuthored, Referential, [Next]_vars, NEW n \in Node
               PROVE  Sound(store'[n])
    BY DEF Referential, Sound
  <1> DEFINE s == store[n]
             t == store'[n]
  <1>1. s \in Rows /\ Sound(s)
    BY DEF TypeOK, Referential, Sound
  <1>2. StoreChange(s, t, Live')
    BY StoreChanges
  <1> QED BY <1>1, <1>2, EraseKeepsSound, StatementsKeepSound, FrameKeepsSound DEF StoreChange

(* No peer ever holds a chat, file, element, cell or metadata row whose board  *)
(* it lacks, in whatever order deltas, frames and board deletes interleave.    *)
THEOREM ReferentialSafe == Spec => []Referential
PROOF
  <1>1. Init => Referential
    BY SeedAssumption DEF Init, Referential, Present, BoardPresent
  <1> QED BY <1>1, ReferentialInductive, RowsAuthoredSafe, TypeCorrect, PTL DEF Spec

-------------------------------------------------------------------------------
(* No rollback. *)

(* No statement and no frame puts an older row in the place of a newer one,    *)
(* except in the tables of elements and cells.                                 *)
LEMMA ChangeIsNotOlder ==
  ASSUME NEW G, NEW s \in Rows, NEW t, StoreChange(s, t, G), NEW j \in Id,
         Present(s, j), Present(t, j)
  PROVE  NotOlder(j, s[j], t[j])
PROOF
  <1>1. ASSUME t[j] = s[j] PROVE NotOlder(j, s[j], t[j])
    BY <1>1 DEF NotOlder
  <1>2. ASSUME NEW r \in Row, t[j] = LwwMerge(s[j], r), Kind[j] \in Lww
        PROVE  NotOlder(j, s[j], t[j])
    BY <1>2 DEF LwwMerge, NotOlder, Present, Lww, FirstWins
  <1>3. ASSUME NEW i \in Id, t = Erase(s, i) PROVE NotOlder(j, s[j], t[j])
    <2>1. CASE Kind[i] = "board"
      BY <1>1, <1>3, <2>1 DEF Erase, DeleteBoard, Present
    <2>2. CASE Kind[i] = "file"
      <3>1. CASE Present(s, i) /\ j = i
        <4>1. t[j] = [s[j] EXCEPT !.gone = TRUE] /\ s[j] \in Row
          BY <1>3, <2>2, <3>1 DEF Erase, SoftDeleteFile, Present, Rows
        <4>2. t[j].ts = s[j].ts /\ t[j].body = s[j].body
          BY <4>1 DEF Row
        <4>3. t[j].gone = TRUE
          BY <4>1 DEF Row
        <4>4. Kind[j] \in FirstWins /\ Kind[j] \notin Lww
          BY <2>2, <3>1 DEF FirstWins, Lww
        <4>5. s[j].gone => t[j].gone
          BY <4>3, Zenon
        <4> QED BY <4>2, <4>4, <4>5 DEF NotOlder
      <3> QED BY <1>1, <1>3, <2>2, <3>1 DEF Erase, SoftDeleteFile, Rows
    <2> QED BY <1>1, <1>3, <2>1, <2>2 DEF Erase, DeleteRow, Present, Rows
  <1>4. ASSUME NEW i \in Id, NEW r \in Row,
               \/ t = InsertRow(s, i, r)
               \/ Kind[i] \in Drawn /\ t = UpdateRow(s, i, r)
               \/ Kind[i] \in Lww /\ t = UpsertRow(s, i, r)
        PROVE  NotOlder(j, s[j], t[j])
    <2>1. CASE t[j] = s[j]
      BY <1>1, <2>1
    <2>2. CASE t[j] # s[j]
      <3>1. j = i
        BY <1>4, <2>2 DEF InsertRow, UpdateRow, UpsertRow, Rows
      <3>2. CASE t = InsertRow(s, i, r)
        BY <2>2, <3>1, <3>2 DEF InsertRow
      <3>3. CASE Kind[i] \in Drawn
        BY <3>1, <3>3 DEF NotOlder, Drawn, FirstWins, Lww
      <3>4. CASE Kind[i] \in Lww /\ t = UpsertRow(s, i, r)
        BY <1>2, <2>2, <3>1, <3>4 DEF UpsertRow, Rows
      <3> QED BY <1>4, <3>2, <3>3, <3>4
    <2> QED BY <2>1, <2>2
  <1>5. ASSUME NEW rows \in Rows, NEW f, NEW done \in Landings(s, rows, f),
               t = ApplyRows(s, rows, done)
        PROVE  NotOlder(j, s[j], t[j])
    <2>1. CASE j \notin done
      BY <1>1, <1>5, <2>1 DEF ApplyRows
    <2>2. CASE j \in done
      <3>1. rows[j] \in Row /\ t[j] = SnapshotMerge(j, s[j], rows[j])
        BY <1>5, <2>2, LandingsAreSound DEF ApplyRows
      <3>2. CASE Kind[j] \in FirstWins
        <4>1. s[j] # None /\ Kind[j] \notin Lww
          BY <3>2 DEF Present, FirstWins, Lww
        <4>2. t[j] = s[j]
          BY <3>1, <3>2, <4>1 DEF SnapshotMerge
        <4> QED BY <1>1, <4>2
      <3>3. CASE Kind[j] \in Lww
        BY <1>2, <3>1, <3>3 DEF SnapshotMerge, FirstWins, Lww
      <3> QED BY <3>2, <3>3 DEF NotOlder
    <2> QED BY <2>1, <2>2
  <1> QED BY <1>1, <1>3, <1>4, <1>5 DEF StoreChange

(* Boards, chats and files keep the row they first had and their tombstone,    *)
(* notes, pins and metadata only get newer, on every path that writes them.    *)
THEOREM NeverRollsBack == Spec => NoRollback
PROOF
  <1>1. TypeOK /\ RowsAuthored /\ [Next]_vars =>
          [\A n \in Node, i \in Id :
             Present(store[n], i) /\ Present(store'[n], i)
               => NotOlder(i, store[n][i], store'[n][i])]_vars
    BY StoreChanges, ChangeIsNotOlder DEF TypeOK
  <1> QED BY <1>1, TypeCorrect, RowsAuthoredSafe, PTL DEF Spec, NoRollback
-------------------------------------------------------------------------------
(* The digest.  Bodies number the writes, so that every write is a new one, and *)
(* where DistinctStamps holds no two writes of a row share a clock; so a digest *)
(* line names one write.                                                        *)

BodiesCounted == \A w \in written : w.body <= edits

ContentsDistinct == \A v, w \in written : v.id = w.id /\ v.body = w.body => v = w

ClocksDistinct ==
  DistinctStamps => \A v, w \in written : v.id = w.id /\ v.ts = w.ts => v = w

WritesDistinct == BodiesCounted /\ ContentsDistinct /\ ClocksDistinct

(* A step records no write, or the next one. *)
LEMMA WrittenSteps ==
  ASSUME [Next]_vars
  PROVE  \/ written' = written /\ (edits' = edits \/ edits' = edits + 1)
         \/ \E i \in Id, t \in Stamp :
              /\ DistinctStamps => Unstamped(i, t)
              /\ edits' = edits + 1
              /\ written' = written \cup {[id |-> i, ts |-> t, body |-> edits + 1]}
PROOF
  <1>1. ASSUME NEW n \in Node, NEW i \in Id, NEW t \in Stamp, Writing(n, i, t)
        PROVE  /\ DistinctStamps => Unstamped(i, t)
               /\ edits' = edits + 1
               /\ written' = written \cup {[id |-> i, ts |-> t, body |-> edits + 1]}
    BY <1>1, WritesAreStatements DEF Wrote, Author
  <1>2. ASSUME NEW n \in Node, NEW i \in Id, Deleting(n, i)
        PROVE  written' = written /\ edits' = edits + 1
    BY <1>2, DeletesAreDrops DEF Dropped, Drop
  <1>3. ASSUME NEW n \in Node, Gossip(n) \/ Repair(n)
        PROVE  written' = written /\ edits' = edits
    BY <1>3 DEF Gossip, Repair, Deliver, Persist, Sweep, IgnoreDigest, StartRepair
  <1>4. ASSUME NEW n \in Node, PullStep(n) \/ Restart(n)
        PROVE  written' = written /\ edits' = edits
    BY <1>4 DEF PullStep, StartSync, Serve, ApplyFrame, CompletePull, BreakPull, Restart
  <1>5. CASE UNCHANGED vars
    BY <1>5 DEF vars
  <1> QED BY <1>1, <1>2, <1>3, <1>4, <1>5 DEF Next, User

LEMMA WritesDistinctInductive == TypeOK /\ WritesDistinct /\ [Next]_vars => WritesDistinct'
PROOF
  <1> SUFFICES ASSUME TypeOK, WritesDistinct, [Next]_vars PROVE WritesDistinct'
    OBVIOUS
  <1>0. /\ edits \in Nat /\ written \subseteq Write
        /\ BodiesCounted /\ ContentsDistinct /\ ClocksDistinct
    BY DEF TypeOK, WritesDistinct
  <1>1. \A w \in written : w.body \in Nat /\ w.body <= edits
    BY <1>0 DEF Write, BodiesCounted
  <1>2. CASE written' = written /\ (edits' = edits \/ edits' = edits + 1)
    BY <1>0, <1>1, <1>2 DEF WritesDistinct, BodiesCounted, ContentsDistinct, ClocksDistinct
  <1>3. ASSUME NEW i \in Id, NEW t \in Stamp,
               DistinctStamps => Unstamped(i, t),
               edits' = edits + 1,
               written' = written \cup {[id |-> i, ts |-> t, body |-> edits + 1]}
        PROVE  WritesDistinct'
    <2> DEFINE new == [id |-> i, ts |-> t, body |-> edits + 1]
    <2>1. new.id = i /\ new.ts = t /\ new.body = edits + 1
      OBVIOUS
    <2>2. \A w \in written' : w \in written \/ w = new
      BY <1>3
    <2>3. BodiesCounted'
      BY <1>0, <1>1, <1>3, <2>1, <2>2 DEF BodiesCounted
    <2>4. \A w \in written : w.body # new.body
      BY <1>0, <1>1, <2>1
    <2>5. ContentsDistinct'
      BY <1>0, <2>2, <2>4 DEF ContentsDistinct
    <2>6. DistinctStamps => \A w \in written : w.id = new.id => w.ts # new.ts
      BY <1>3, <2>1 DEF Unstamped
    <2>7. ClocksDistinct'
      BY <1>0, <2>2, <2>6 DEF ClocksDistinct
    <2> QED BY <2>3, <2>5, <2>7 DEF WritesDistinct
  <1> QED BY <1>2, <1>3, WrittenSteps

LEMMA WritesAreDistinct == Spec => []WritesDistinct
PROOF
  <1>1. Init => WritesDistinct
    BY DEF Init, WritesDistinct, BodiesCounted, ContentsDistinct, ClocksDistinct
  <1> QED BY <1>1, WritesDistinctInductive, TypeCorrect, PTL DEF Spec

(* Rows that a digest cannot tell apart are the same row. *)
LEMMA LinesTellRows ==
  ASSUME TypeOK, RowsAuthored, WritesDistinct, DistinctStamps,
         NEW n \in Node, NEW m \in Node, NEW i \in Id,
         Listed(store[n], i), Listed(store[m], i), Kind[i] # "cell",
         Version(i, store[n][i]) = Version(i, store[m][i])
  PROVE  store[n][i] = store[m][i]
PROOF
  <1> DEFINE r == store[n][i]
             q == store[m][i]
  <1>1. r \in Row /\ q \in Row /\ r.gone = FALSE /\ q.gone = FALSE
    BY DEF TypeOK, Rows, Listed, Present, Row
  <1>2. PICK v \in written : v.id = i /\ v.body = r.body /\ v.ts = r.ts
    BY DEF RowsAuthored, Authored, Listed
  <1>3. PICK w \in written : w.id = i /\ w.body = q.body /\ w.ts = q.ts
    BY DEF RowsAuthored, Authored, Listed
  <1>4. v.body = w.body \/ v.ts = w.ts
    BY <1>2, <1>3 DEF Version
  <1>5. v = w
    BY <1>2, <1>3, <1>4 DEF WritesDistinct, ContentsDistinct, ClocksDistinct
  <1>6. r.ts = q.ts /\ r.body = q.body
    BY <1>2, <1>3, <1>5
  <1> QED BY <1>1, <1>6 DEF Row

(* Where no two writes of a row share a second, peers whose digests agree show  *)
(* their users the same rows: "in sync" is never said of peers that differ, in  *)
(* whatever order writes, deltas, pulls, deletes and faults came.               *)
THEOREM DigestIsSound ==
  ASSUME DistinctStamps
  PROVE  Spec => []DigestSound
PROOF
  <1>1. TypeOK /\ RowsAuthored /\ WritesDistinct => DigestSound
    <2> SUFFICES ASSUME TypeOK, RowsAuthored, WritesDistinct,
                        NEW n \in Node, NEW m \in Node,
                        DigestLines(store[n]) = DigestLines(store[m]), NEW i \in Id
                 PROVE  /\ Listed(store[n], i) <=> Listed(store[m], i)
                        /\ Listed(store[n], i) /\ Kind[i] # "cell"
                             => store[n][i] = store[m][i]
      BY DEF DigestSound
    <2>1. ASSUME NEW x \in Node, NEW y \in Node, Listed(store[x], i),
                 DigestLines(store[x]) = DigestLines(store[y])
          PROVE  Listed(store[y], i) /\ Version(i, store[x][i]) = Version(i, store[y][i])
      <3>1. <<i, Version(i, store[x][i])>> \in DigestLines(store[y])
        BY <2>1 DEF DigestLines
      <3>2. PICK j \in Id : /\ Listed(store[y], j)
                            /\ <<i, Version(i, store[x][i])>> = <<j, Version(j, store[y][j])>>
        BY <3>1 DEF DigestLines
      <3> QED BY <3>2
    <2> QED BY <2>1, LinesTellRows
  <1> QED BY <1>1, WritesAreDistinct, RowsAuthoredSafe, TypeCorrect, PTL

-------------------------------------------------------------------------------
(* The frames of a full pull. *)

(* Only files have tombstones; so a board that is there is served. *)
BoardsLive == \A n \in Node, i \in Id : Present(store[n], i) /\ Kind[i] # "file" => ~store[n][i].gone

LEMMA BoardsLiveInductive == TypeOK /\ RowsAuthored /\ BoardsLive /\ [Next]_vars => BoardsLive'
PROOF
  <1> SUFFICES ASSUME TypeOK, RowsAuthored, BoardsLive, [Next]_vars, NEW n \in Node
               PROVE  \A i \in Id : Present(store'[n], i) /\ Kind[i] # "file" => ~store'[n][i].gone
    BY DEF BoardsLive
  <1> DEFINE G == {p \in Id \X Row : Kind[p[1]] = "file" \/ ~p[2].gone}
  <1>1. TombstoneClosed(G)
    BY DEF TombstoneClosed, Row
  <1>2. Live' \subseteq G
    BY DEF Live, Sendable
  <1>3. store[n] \in Rows /\ store'[n] \in Rows
    BY TypeInductive DEF TypeOK
  <1>4. \A i \in Id : Present(store[n], i) => <<i, store[n][i]>> \in G
    BY <1>3 DEF BoardsLive, Present, Rows
  <1>5. StoreChange(store[n], store'[n], Live')
    BY StoreChanges
  <1> HIDE DEF G
  <1>6. \A i \in Id : Present(store'[n], i) => <<i, store'[n][i]>> \in G
    BY <1>1, <1>2, <1>3, <1>4, <1>5, ChangeKeepsAuthentic
  <1> QED BY <1>6 DEF G

(* The rows a full pull has built or received carry their boards. *)
WithBoards(rows) ==
  \A i \in Id : rows[i] # None /\ Kind[i] \in NeedsBoard => rows[Home[i]] # None

FullPullsWithBoards ==
  \A n \in Node, k \in Pulls :
    pull[n][k] # None /\ pull[n][k].since = NoSince /\ pull[n][k].next = 1
      => WithBoards(pull[n][k].rows)

LEMMA ServedWithBoards ==
  ASSUME NEW s \in Rows, Sound(s),
         \A i \in Id : Present(s, i) /\ Kind[i] # "file" => ~s[i].gone
  PROVE  WithBoards(Served(s, NoSince))
PROOF
  <1> SUFFICES ASSUME NEW i \in Id, Served(s, NoSince)[i] # None, Kind[i] \in NeedsBoard
               PROVE  Served(s, NoSince)[Home[i]] # None
    BY DEF WithBoards
  <1>1. Home[i] \in Id /\ Kind[Home[i]] = "board"
    BY HomeAssumption
  <1>2. Present(s, Home[i])
    BY ServedLive DEF Sound, BoardPresent
  <1>3. Listed(s, Home[i])
    BY <1>1, <1>2 DEF Listed
  <1>4. s[Home[i]] \in Row /\ s[Home[i]].ts \in Nat
    BY <1>1, <1>2, StampAssumption DEF Present, Rows, Row
  <1>5. s[Home[i]].ts > NoSince
    BY <1>4 DEF NoSince
  <1> QED BY <1>1, <1>3, <1>4, <1>5, RowAssumption DEF Served

LEMMA FullPullsInductive ==
  TypeOK /\ Referential /\ BoardsLive /\ FullPullsWithBoards /\ [Next]_vars => FullPullsWithBoards'
PROOF
  <1> SUFFICES ASSUME TypeOK, Referential, BoardsLive, FullPullsWithBoards, [Next]_vars,
                      NEW n \in Node, NEW k \in Pulls, pull'[n][k] # None,
                      pull'[n][k].since = NoSince, pull'[n][k].next = 1
               PROVE  WithBoards(pull'[n][k].rows)
    BY DEF FullPullsWithBoards
  <1> DEFINE p == pull[n][k]
             q == pull'[n][k]
  <1>1. PullChange(p, q)
    BY PullChanges
  <1>2. CASE q = p
    BY <1>2 DEF FullPullsWithBoards
  <1>3. ASSUME NEW m \in Node, NEW since \in Since, q = Open(m, since) PROVE FALSE
    BY <1>3 DEF Open
  <1>4. CASE p \in Pull /\ q = Advance(p, 1, Served(store[p.from], p.since))
    <2>1. p.from \in Node /\ q.rows = Served(store[p.from], p.since) /\ q.since = p.since
      BY <1>4 DEF Pull, Advance
    <2>2. store[p.from] \in Rows /\ Sound(store[p.from])
      BY <2>1 DEF TypeOK, Referential, Sound
    <2> QED BY <2>1, <2>2, ServedWithBoards DEF BoardsLive
  <1>5. ASSUME p \in Pull, NEW f \in 1..3, q = Advance(p, f + 1, Remaining(p.rows, f)) PROVE FALSE
    <2>1. q.next = f + 1
      BY <1>5 DEF Pull, Advance
    <2> QED BY <2>1
  <1> QED BY <1>1, <1>2, <1>3, <1>4, <1>5 DEF PullChange

(* The first frame refuses nothing, so all of it lands. *)
LEMMA StructureLands ==
  ASSUME NEW s \in Rows, NEW rows \in Rows, NEW done \in Landings(s, rows, 1), WithBoards(rows),
         NEW i \in Id, rows[i] # None
  PROVE  BoardPresent(ApplyRows(s, rows, done), i)
PROOF
  <1>1. \A j \in Id : Frame(j) = 1 <=> Kind[j] = "board"
    <2> SUFFICES ASSUME NEW j \in Id PROVE Frame(j) = 1 <=> Kind[j] = "board"
      OBVIOUS
    <2>1. CASE Kind[j] = "board"
      BY <2>1 DEF Frame, Drawn
    <2>2. CASE Kind[j] # "board"
      <3>1. Frame(j) = 2 \/ Frame(j) = 3
        BY <2>2 DEF Frame
      <3> QED BY <2>2, <3>1
    <2> QED BY <2>1, <2>2
  <1>2. Refused(s, rows, 1) = {}
    BY <1>1 DEF Refused, Carried, BoardPresent, NeedsBoard
  <1>3. done = Carried(rows, 1)
    BY <1>2 DEF Landings
  <1>4. CASE Kind[i] \in NeedsBoard
    <2>1. Home[i] \in Id /\ Kind[Home[i]] = "board" /\ rows[Home[i]] # None
      BY <1>4, HomeAssumption DEF WithBoards
    <2>2. Home[i] \in done
      BY <1>1, <1>3, <2>1 DEF Carried
    <2>3. s[Home[i]] \in Row \cup {None} /\ rows[Home[i]] \in Row
      BY <2>1 DEF Rows
    <2>4. ApplyRows(s, rows, done)[Home[i]] \in Row
      BY <2>1, <2>2, <2>3, MergeReturnsRow DEF ApplyRows
    <2> QED BY <2>4, RowAssumption DEF BoardPresent, Present
  <1> QED BY <1>4 DEF BoardPresent

(* A full pull brings the board of every row that needs one, and before it:      *)
(* whatever the puller lacked, and whatever was written, deleted or delivered on *)
(* either side since it asked, nothing of the later frames is without its board  *)
(* when the first one has been applied.                                          *)
THEOREM FullPullsAreComplete == Spec => StructureFirst
PROOF
  <1> DEFINE Inv == BoardsLive /\ FullPullsWithBoards
             First == \A n \in Node, k \in Pulls :
                        ApplyFrame(n, k) /\ pull[n][k].since = NoSince /\ pull[n][k].next = 1 =>
                          \A i \in Id : pull'[n][k].rows[i] # None => BoardPresent(store'[n], i)
  <1>1. Init => Inv
    BY DEF Init, BoardsLive, FullPullsWithBoards, SeedRow, Present
  <1>2. TypeOK /\ RowsAuthored /\ Referential /\ Inv /\ [Next]_vars => Inv'
    BY BoardsLiveInductive, FullPullsInductive
  <1>3. TypeOK /\ Inv => First
    <2> SUFFICES ASSUME TypeOK, Inv, NEW n \in Node, NEW k \in Pulls, ApplyFrame(n, k),
                        pull[n][k].since = NoSince, pull[n][k].next = 1,
                        NEW i \in Id, pull'[n][k].rows[i] # None
                 PROVE  BoardPresent(store'[n], i)
      OBVIOUS
    <2> DEFINE p == pull[n][k]
    <2>1. p \in Pull /\ p # None /\ p.rows \in Rows /\ store[n] \in Rows
      BY DEF ApplyFrame, TypeOK, Pull
    <2>2. WithBoards(p.rows)
      BY <2>1 DEF FullPullsWithBoards
    <2>3. PICK done \in Landings(store[n], p.rows, 1) :
            store'[n] = ApplyRows(store[n], p.rows, done)
      BY DEF ApplyFrame, TypeOK
    <2>4. pull'[n][k].rows = Remaining(p.rows, 1)
      BY <2>1 DEF ApplyFrame, TypeOK, Advance, Pull
    <2>5. p.rows[i] # None
      BY <2>4 DEF Remaining
    <2> QED BY <2>1, <2>2, <2>3, <2>5, StructureLands
  <1>4. Spec => []Inv
    BY <1>1, <1>2, TypeCorrect, RowsAuthoredSafe, ReferentialSafe, PTL DEF Spec
  <1>5. Spec => [][First]_vars
    BY <1>3, <1>4, TypeCorrect, PTL
  <1> QED BY <1>5 DEF StructureFirst

===============================================================================
