------------------------------ MODULE AntiEntropy ------------------------------
(* One group's rows on the peers that joined it: user writes, best-effort      *)
(* gossip of deltas, the persist worker, the digest sweep with its debounced   *)
(* repair pull, snapshot and catch-up pulls, broken streams and restarts.      *)
(* Code: actors/topic_actor.rs, anti_entropy.rs, snapshot.rs, lib.rs.          *)
EXTENDS GroupStore, Sequences

CONSTANTS
  Node,
  JoinedAt,        \* created_at of a node's own copy of the group row
  Owner,           \* the node a seeded board was created on
  Seeded,          \* rows every node holds at the start
  SeedStamp,       \* and their clock
  Deletes,         \* rows that users delete
  Repairs,         \* nodes that digests reach
  Syncs,           \* nodes that run a join pull or a catch-up
  DistinctStamps,  \* TRUE: no two writes of a row in the same second
  MaxEdits,        \* bound on user actions
  MaxInbox,        \* bound on the persist queue
  MaxDigests,      \* bound on digests in flight
  MaxFaults        \* bound on broken streams and restarts

ASSUME NodeAssumption == JoinedAt \in [Node -> Stamp] /\ Owner \in [Id -> Node]
ASSUME SeedAssumption == /\ Seeded \subseteq Id /\ SeedStamp \in Stamp
                         /\ \A i \in Seeded : Home[i] \in Seeded
ASSUME DeletesAssumption == Deletes \subseteq Id /\ Repairs \cup Syncs \subseteq Node
ASSUME BoundAssumption == /\ DistinctStamps \in BOOLEAN
                          /\ {MaxEdits, MaxInbox, MaxDigests, MaxFaults} \subseteq Nat

VARIABLES
  store,      \* the rows of each node
  owned,      \* boards whose local row names this node as owner
  written,    \* every user write so far (history)
  wire,       \* deltas broadcast so far: each may arrive late, twice or never
  inbox,      \* the persist worker's FIFO
  heard,      \* heard[n][m]: a digest of m on its way to n
  repairing,  \* the debounce flag
  pull,       \* pulls in flight
  edits,      \* number of user actions
  faults      \* number of faults

netVars == <<inbox, heard, repairing, pull, faults>>
vars == <<store, owned, written, wire, inbox, heard, repairing, pull, edits, faults>>

Pulls == {"repair", "sync"}   \* the debounced repair; a join pull or catch-up

Since == Stamp \cup {NoSince}

Pull == [from : Node, since : Since, next : 0..4, rows : Rows]

Digest == [group : Stamp, lines : SUBSET (Id \X Nat)]

(* A delta of the right shape; only a delete carries no row. *)
Fits(d) == /\ d.op = "delete" <=> d.row = None
           /\ d.op = "insert" => Kind[d.id] \notin Lww
           /\ d.op = "update" => Kind[d.id] \in Drawn
           /\ d.op = "upsert" => Kind[d.id] \in Lww

Delta == {d \in [op : {"insert", "update", "upsert", "delete"}, id : Id,
                 row : Row \cup {None}, from : Node] : Fits(d)}

Write == [id : Id, ts : Stamp, body : Nat]

ASSUME NoneAssumption == None \notin Pull /\ None \notin Digest

SeedRow == [ts |-> SeedStamp, body |-> 0, gone |-> FALSE]

NoRows == [i \in Id |-> None]

GroupDigest(n) == [group |-> JoinedAt[n], lines |-> DigestLines(store[n])]

Init ==
  /\ store = [n \in Node |-> [i \in Id |-> IF i \in Seeded THEN SeedRow ELSE None]]
  /\ owned = [n \in Node |-> {i \in Seeded : Kind[i] = "board" /\ Owner[i] = n}]
  /\ written = {[id |-> i, ts |-> SeedStamp, body |-> 0] : i \in Seeded}
  /\ wire = {}
  /\ inbox = [n \in Node |-> <<>>]
  /\ heard = [n \in Node |-> [m \in Node |-> None]]
  /\ repairing = [n \in Node |-> FALSE]
  /\ pull = [n \in Node |-> [k \in Pulls |-> None]]
  /\ edits = 0
  /\ faults = 0

-------------------------------------------------------------------------------
(* User writes: the local statement, then the broadcast. *)

(* The row written by the next user write, stamped t. *)
Fresh(t) == [ts |-> t, body |-> edits + 1, gone |-> FALSE]

Unstamped(i, t) == \A w \in written : w.id = i => w.ts # t

Told(op, i, r, n) == [op |-> op, id |-> i, row |-> r, from |-> n]

Author(n, i, t, deltas, rows) ==
  /\ edits < MaxEdits
  /\ DistinctStamps => Unstamped(i, t)
  /\ edits' = edits + 1
  /\ written' = written \cup {[id |-> i, ts |-> t, body |-> edits + 1]}
  /\ wire' = wire \cup deltas
  /\ store' = [store EXCEPT ![n] = rows]
  /\ UNCHANGED netVars

Insert(n, i, t) ==
  /\ BoardPresent(store[n], i)
  /\ Author(n, i, t, {Told("insert", i, Fresh(t), n)}, InsertRow(store[n], i, Fresh(t)))

(* A board's id is its name's hash, so any node may create it again. *)
CreateBoard(n, i, t) ==
  /\ Kind[i] = "board"
  /\ Insert(n, i, t)
  /\ owned' = [owned EXCEPT ![n] = IF Present(store[n], i) THEN @ ELSE @ \cup {i}]

Minted(i) == \E w \in written : w.id = i

(* The other ids are minted once. *)
Mint(n, i, t) ==
  /\ ~Minted(i)
  /\ Insert(n, i, t)
  /\ UNCHANGED owned

SendChat(n, i, t) == Kind[i] = "chat" /\ Mint(n, i, t)
UploadFile(n, i, t) == Kind[i] = "file" /\ Mint(n, i, t)
CreateElement(n, i, t) == Kind[i] = "element" /\ Mint(n, i, t)
AddCell(n, i, t) == Kind[i] = "cell" /\ Mint(n, i, t)

(* Elements and cells are edited in place: the group is looked up by the board *)
(* and told even when the row has just been deleted here.                      *)
Rewrite(n, i, t) ==
  /\ Minted(i) /\ Present(store[n], Home[i])
  /\ Author(n, i, t, {Told("update", i, Fresh(t), n)}, UpdateRow(store[n], i, Fresh(t)))
  /\ UNCHANGED owned

UpdateElement(n, i, t) == Kind[i] = "element" /\ Rewrite(n, i, t)
UpdateCell(n, i, t) == Kind[i] = "cell" /\ Rewrite(n, i, t)

(* The local upsert may refuse a write that is not newer than the stored row;  *)
(* it is broadcast all the same.                                               *)
Put(n, i, t, deltas) ==
  /\ Kind[i] \in Lww
  /\ Present(store[n], Home[i])
  /\ Author(n, i, t, deltas, UpsertRow(store[n], i, Fresh(t)))
  /\ UNCHANGED owned

PutTold(n, i, t) == Put(n, i, t, {Told("upsert", i, Fresh(t), n)})

PutNote(n, i, t) == Kind[i] = "note" /\ PutTold(n, i, t)
SetPin(n, i, t) == Kind[i] = "pin" /\ PutTold(n, i, t)
SetBoardPinned(n, i, t) == Kind[i] = "meta" /\ PutTold(n, i, t)

(* Board metadata edits are told to nobody. *)
UpdateBoardMetadata(n, i, t) == Kind[i] = "meta" /\ Put(n, i, t, {})

Drop(n, i, deltas) ==
  /\ i \in Deletes
  /\ edits < MaxEdits
  /\ edits' = edits + 1
  /\ store' = [store EXCEPT ![n] = Erase(@, i)]
  /\ owned' = [owned EXCEPT ![n] = @ \ {i}]
  /\ wire' = wire \cup deltas
  /\ UNCHANGED <<written, netVars>>

DropTold(n, i) == Drop(n, i, {Told("delete", i, None, n)})

(* Only the owner deletes a board; anyone leaves it, and tells nobody. *)
DissolveBoard(n, i) == Kind[i] = "board" /\ i \in owned[n] /\ DropTold(n, i)
LeaveBoard(n, i) == Kind[i] = "board" /\ Present(store[n], i) /\ Drop(n, i, {})

(* The row names the group, a tombstoned file's as well. *)
DeleteChat(n, i) == Kind[i] = "chat" /\ Present(store[n], i) /\ DropTold(n, i)
DeleteFile(n, i) == Kind[i] = "file" /\ Present(store[n], i) /\ DropTold(n, i)

(* The note's board does; nobody is told of a note whose board is gone. *)
DeleteNote(n, i) ==
  /\ Kind[i] = "note" /\ Present(store[n], i)
  /\ IF Present(store[n], Home[i]) THEN DropTold(n, i) ELSE Drop(n, i, {})

(* The command does, whether or not the row is still there. *)
Discard(n, i) == Minted(i) /\ Present(store[n], Home[i]) /\ DropTold(n, i)

DeleteElement(n, i) == Kind[i] = "element" /\ Discard(n, i)
DeleteCell(n, i) == Kind[i] = "cell" /\ Discard(n, i)

-------------------------------------------------------------------------------
(* Gossip deltas: received into the FIFO, then persisted one by one. *)

Deliver(n, d) ==
  /\ d.from # n
  /\ Len(inbox[n]) < MaxInbox
  /\ inbox' = [inbox EXCEPT ![n] = Append(@, d)]
  /\ UNCHANGED <<store, owned, written, wire, heard, repairing, pull, edits, faults>>

(* Mutant: every row is stamped with the receiver's clock. *)
Restamped(d, t) == [d.row EXCEPT !.ts = t]

(* A cell arrives without a clock and takes the receiver's, t. *)
Received(d, t) == IF Kind[d.id] = "cell" THEN [d.row EXCEPT !.ts = t] ELSE d.row

ApplyDelta(s, d, t) ==
  CASE d.op = "insert" -> InsertRow(s, d.id, Received(d, t))
    [] d.op = "update" -> UpdateRow(s, d.id, Received(d, t))
    [] d.op = "upsert" -> UpsertRow(s, d.id, d.row)
    [] d.op = "delete" -> Erase(s, d.id)

Persist(n, t) ==
  /\ inbox[n] # <<>>
  /\ LET d == Head(inbox[n])
     IN  /\ store' = [store EXCEPT ![n] = ApplyDelta(@, d, t)]
         /\ owned' = [owned EXCEPT ![n] = IF d.op = "delete" THEN @ \ {d.id} ELSE @]
  /\ inbox' = [inbox EXCEPT ![n] = Tail(@)]
  /\ UNCHANGED <<written, wire, heard, repairing, pull, edits, faults>>

-------------------------------------------------------------------------------
(* Anti-entropy. *)

(* m's sweep reaches n; a digest still on its way from m to n is overtaken.    *)
(* The group row makes the count positive, so a sweep is never skipped.        *)
Sweep(m, n) ==
  /\ n \in Repairs /\ m # n
  /\ Cardinality({p \in Node \X Node : heard[p[1]][p[2]] # None}) < MaxDigests
  /\ heard' = [heard EXCEPT ![n][m] = GroupDigest(m)]
  /\ UNCHANGED <<store, owned, written, wire, inbox, repairing, pull, edits, faults>>

Open(m, since) == [from |-> m, since |-> since, next |-> 0, rows |-> NoRows]

(* Mutant: only a sender strictly ahead is worth a pull. *)
UnneededUnlessBehind(n, d) ==
  \/ d = GroupDigest(n)
  \/ Cardinality(d.lines) <= Cardinality(DigestLines(store[n]))
  \/ repairing[n]

(* In sync, ahead of the sender, or already repairing: the digest is dropped. *)
Unneeded(n, d) ==
  \/ d = GroupDigest(n)
  \/ Cardinality(d.lines) < Cardinality(DigestLines(store[n]))
  \/ repairing[n]

IgnoreDigest(n, m) ==
  /\ heard[n][m] # None
  /\ Unneeded(n, heard[n][m])
  /\ heard' = [heard EXCEPT ![n][m] = None]
  /\ UNCHANGED <<store, owned, written, wire, inbox, repairing, pull, edits, faults>>

StartRepair(n, m) ==
  /\ heard[n][m] # None
  /\ ~Unneeded(n, heard[n][m])
  /\ heard' = [heard EXCEPT ![n][m] = None]
  /\ repairing' = [repairing EXCEPT ![n] = TRUE]
  /\ pull' = [pull EXCEPT ![n]["repair"] = Open(m, NoSince)]
  /\ UNCHANGED <<store, owned, written, wire, inbox, edits, faults>>

-------------------------------------------------------------------------------
(* Pulls.  One join pull or catch-up at a time is a bound of the model. *)

(* A join pull asks for everything, a catch-up for what is newer than the      *)
(* requester's high-water mark.                                                *)
StartSync(n, m, since) ==
  /\ n \in Syncs /\ m # n
  /\ pull[n]["sync"] = None
  /\ since = NoSince \/ IsHighWater(store[n], JoinedAt[n], since)
  /\ pull' = [pull EXCEPT ![n]["sync"] = Open(m, since)]
  /\ UNCHANGED <<store, owned, written, wire, inbox, heard, repairing, edits, faults>>

(* Pull p with its remaining rows, before frame stage. *)
Advance(p, stage, rows) == [p EXCEPT !.next = stage, !.rows = rows]

(* The holder builds all frames before it streams the first. *)
Serve(n, k) ==
  /\ pull[n][k] # None
  /\ pull[n][k].next = 0
  /\ LET p == pull[n][k]
     IN  pull' = [pull EXCEPT ![n][k] = Advance(p, 1, Served(store[p.from], p.since))]
  /\ UNCHANGED <<store, owned, written, wire, inbox, heard, repairing, edits, faults>>

(* The rows of the frames after f. *)
Remaining(rows, f) == [i \in Id |-> IF Frame(i) = f THEN None ELSE rows[i]]

(* A frame arrives and its rows are applied; an error inside is only logged. *)
ApplyFrame(n, k) ==
  /\ pull[n][k] # None
  /\ pull[n][k].next \in 1..3
  /\ LET p == pull[n][k]
     IN  /\ \E done \in Landings(store[n], p.rows, p.next) :
              store' = [store EXCEPT ![n] = ApplyRows(@, p.rows, done)]
         /\ pull' = [pull EXCEPT ![n][k] =
                        Advance(p, p.next + 1, Remaining(p.rows, p.next))]
  /\ UNCHANGED <<owned, written, wire, inbox, heard, repairing, edits, faults>>

(* Mutant: an error returns before the slot is given back. *)
CloseIfComplete(n, k) ==
  /\ pull' = [pull EXCEPT ![n][k] = None]
  /\ repairing' = [repairing EXCEPT ![n] = IF k = "repair" /\ pull[n][k].next = 4
                                             THEN FALSE ELSE @]

(* The pull is over; a repair gives its slot back. *)
Close(n, k) ==
  /\ pull' = [pull EXCEPT ![n][k] = None]
  /\ repairing' = [repairing EXCEPT ![n] = IF k = "repair" THEN FALSE ELSE @]

CompletePull(n, k) ==
  /\ pull[n][k] # None
  /\ pull[n][k].next = 4
  /\ Close(n, k)
  /\ UNCHANGED <<store, owned, written, wire, inbox, heard, edits, faults>>

(* Connect failure, timeout or stream end before the Complete frame. *)
BreakPull(n, k) ==
  /\ faults < MaxFaults
  /\ pull[n][k] # None
  /\ pull[n][k].next < 4
  /\ Close(n, k)
  /\ faults' = faults + 1
  /\ UNCHANGED <<store, owned, written, wire, inbox, heard, edits>>

(* The process restarts: SQLite survives, queue, flag and pulls do not. *)
Restart(n) ==
  /\ faults < MaxFaults
  /\ inbox' = [inbox EXCEPT ![n] = <<>>]
  /\ repairing' = [repairing EXCEPT ![n] = FALSE]
  /\ pull' = [pull EXCEPT ![n] = [k \in Pulls |-> None]]
  /\ faults' = faults + 1
  /\ UNCHANGED <<store, owned, written, wire, heard, edits>>

-------------------------------------------------------------------------------
Writing(n, i, t) ==
  \/ CreateBoard(n, i, t) \/ SendChat(n, i, t) \/ UploadFile(n, i, t)
  \/ CreateElement(n, i, t) \/ AddCell(n, i, t)
  \/ UpdateElement(n, i, t) \/ UpdateCell(n, i, t)
  \/ PutNote(n, i, t) \/ SetPin(n, i, t)
  \/ SetBoardPinned(n, i, t) \/ UpdateBoardMetadata(n, i, t)

Deleting(n, i) ==
  \/ DissolveBoard(n, i) \/ LeaveBoard(n, i) \/ DeleteChat(n, i) \/ DeleteNote(n, i)
  \/ DeleteElement(n, i) \/ DeleteCell(n, i) \/ DeleteFile(n, i)

User(n) == \E i \in Id : (\E t \in Stamp : Writing(n, i, t)) \/ Deleting(n, i)

Gossip(n) == \/ \E d \in wire : Deliver(n, d)
             \/ \E t \in Stamp : Persist(n, t)

Repair(n) == \E m \in Node : Sweep(m, n) \/ IgnoreDigest(n, m) \/ StartRepair(n, m)

PullStep(n) == \/ \E m \in Node, since \in Since : StartSync(n, m, since)
               \/ \E k \in Pulls : \/ Serve(n, k) \/ ApplyFrame(n, k)
                                   \/ CompletePull(n, k) \/ BreakPull(n, k)

Next == \E n \in Node : User(n) \/ Gossip(n) \/ Repair(n) \/ PullStep(n) \/ Restart(n)

Spec == Init /\ [][Next]_vars

(* What the runtime keeps doing: the worker drains its queue, sweeps keep      *)
(* firing and some of them arrive, digests are handled, a pull proceeds.       *)
Fairness ==
  \A n \in Node :
    /\ WF_vars(\E t \in Stamp : Persist(n, t))
    /\ \A m \in Node : /\ WF_vars(Sweep(m, n))
                       /\ WF_vars(IgnoreDigest(n, m) \/ StartRepair(n, m))
    /\ \A k \in Pulls : WF_vars(Serve(n, k) \/ ApplyFrame(n, k) \/ CompletePull(n, k))

FairSpec == Spec /\ Fairness

-------------------------------------------------------------------------------
TypeOK ==
  /\ store \in [Node -> Rows]
  /\ owned \in [Node -> SUBSET Id]
  /\ written \subseteq Write
  /\ wire \subseteq Delta
  /\ inbox \in [Node -> Seq(Delta)]
  /\ heard \in [Node -> [Node -> Digest \cup {None}]]
  /\ repairing \in [Node -> BOOLEAN]
  /\ pull \in [Node -> [Pulls -> Pull \cup {None}]]
  /\ edits \in Nat
  /\ faults \in Nat

(* Foreign keys hold on every peer at every moment: whatever order deltas,     *)
(* frames and board deletes interleave in, no chat, file, element, cell or     *)
(* metadata row is left hanging on a board the peer does not have.             *)
Referential ==
  \A n \in Node, i \in Id : Present(store[n], i) => BoardPresent(store[n], i)

(* Row r of id i is what some user wrote; a cell keeps only the content.       *)
Authored(i, r) ==
  \E w \in written : w.id = i /\ w.body = r.body /\ (Kind[i] # "cell" => w.ts = r.ts)

(* A tombstone never travels. *)
Sendable(i, r) == Authored(i, r) /\ ~r.gone

DeltaAuthored(d) ==
  IF d.op = "delete" THEN d.id \in Deletes ELSE Sendable(d.id, d.row)

(* Replication invents nothing: rows stored, rows in the frames of a pull and  *)
(* rows in deltas are user writes with their own clock and content, never a    *)
(* mix of two, only a peer's own copy of a file is ever a tombstone, and only  *)
(* rows that users delete are deleted anywhere.                                *)
RowsAuthored ==
  /\ \A n \in Node, i \in Id : Present(store[n], i) => Authored(i, store[n][i])
  /\ \A n \in Node, k \in Pulls, i \in Id :
       pull[n][k] # None /\ pull[n][k].rows[i] # None => Sendable(i, pull[n][k].rows[i])
  /\ \A d \in wire : DeltaAuthored(d)
  /\ \A n \in Node : \A j \in DOMAIN inbox[n] : DeltaAuthored(inbox[n][j])

(* The debounce flag is up exactly while a repair pull is in flight: a peer    *)
(* neither pulls twice at once nor stays barred from repairing for ever.       *)
RepairSlot == \A n \in Node : repairing[n] <=> pull[n]["repair"] # None

(* A row that stays on a peer never goes back: a first-wins row keeps its      *)
(* content and its tombstone, a last-writer-wins row only gets newer.          *)
NotOlder(i, old, new) ==
  CASE Kind[i] \in FirstWins -> /\ new.ts = old.ts /\ new.body = old.body
                                /\ old.gone => new.gone
    [] Kind[i] \in Lww -> new = old \/ new.ts > old.ts
    [] OTHER -> TRUE

(* No path (delta, snapshot, catch-up, local write) rolls such a row back.     *)
NoRollback ==
  [][\A n \in Node, i \in Id :
       Present(store[n], i) /\ Present(store'[n], i)
         => NotOlder(i, store[n][i], store'[n][i])]_vars

(* A full pull carries the board of every row that needs one, and in front:    *)
(* once its first frame is applied nothing of the later frames is without its  *)
(* board, whatever the puller lacked; only a delete in between refuses a row.  *)
StructureFirst ==
  [][\A n \in Node, k \in Pulls :
       ApplyFrame(n, k) /\ pull[n][k].since = NoSince /\ pull[n][k].next = 1 =>
         \A i \in Id : pull'[n][k].rows[i] # None => BoardPresent(store'[n], i)]_vars

(* The digest is a sound in-sync test as long as no two writes of a row share  *)
(* a second: peers with equal digests show their users the same rows.          *)
DigestSound ==
  \A n, m \in Node :
    DigestLines(store[n]) = DigestLines(store[m]) =>
      \A i \in Id :
        /\ Listed(store[n], i) <=> Listed(store[m], i)
        /\ Listed(store[n], i) /\ Kind[i] # "cell" => store[n][i] = store[m][i]

(* A repair or join pull never replaces a row by an older one.                 *)
SnapshotMonotone ==
  [][(\E n \in Node, k \in Pulls : ApplyFrame(n, k)) =>
       \A n \in Node, i \in Id :
         Present(store[n], i) => store'[n][i].ts >= store[n][i].ts]_vars

(* A catch-up from any peer merges to what a full pull from it would.          *)
MergeAll(s, rows) ==
  LET f1 == ApplyRows(s, rows, Carried(rows, 1))
      f2 == ApplyRows(f1, rows, Carried(rows, 2))
  IN  ApplyRows(f2, rows, Carried(rows, 3))

CatchUpEqualsFullPull ==
  \A n, m \in Node, t \in Stamp :
    IsHighWater(store[n], JoinedAt[n], t) =>
      MergeAll(store[n], Served(store[m], t)) = MergeAll(store[n], Served(store[m], NoSince))

(* Once users stop writing, all peers end up with the same rows for good.      *)
Converges == <>[](\A n, m \in Node : store[n] = store[m])

(* And then stop pulling snapshots from each other.                            *)
RepairsCease == <>[](\A n \in Node : ~repairing[n])

(* A file deleted on one peer ends up deleted, or unknown, on every peer.      *)
DeletionsConverge ==
  \A n, m \in Node, i \in Id :
    (Present(store[n], i) /\ store[n][i].gone)
      ~> (Present(store[m], i) => store[m][i].gone)

(* The tables with a convergent merge, which is all but elements and cells. *)
Convergent == {i \in Id : Kind[i] \in FirstWins \cup Lww}

Shown(s) == [i \in Id |-> IF i \in Convergent THEN s[i] ELSE None]

Abstract ==
  INSTANCE ConvergentStore WITH
    Seeded <- Seeded \cap Convergent,
    rows <- [n \in Node |-> Shown(store[n])],
    written <- {w \in written : w.id \in Convergent}

(* Replication implements the abstract store: a peer's rows in those tables    *)
(* only ever change by merging user writes or by the delete of a row that      *)
(* users delete, whatever deltas, pulls, faults and restarts do.               *)
ImplementsConvergentStore == Abstract!Spec
===============================================================================
