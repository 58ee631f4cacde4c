------------------------------ MODULE GroupStore ------------------------------
(* The rows one peer keeps for a group and the rules by which rows enter them: *)
(* the statements of storage.rs, the snapshot frames of snapshot.rs and the    *)
(* digest of anti_entropy.rs.  Everything here is a pure operator on a store,  *)
(* a function from row ids to rows; AntiEntropy.tla is the state machine.      *)
(*                                                                             *)
(* The group row and its workspaces are always present: these are the stores   *)
(* of peers that have joined.  A row's content is the number of the user write *)
(* that produced it.                                                           *)
EXTENDS Integers, FiniteSets

CONSTANTS
  Id,      \* row ids: boards, chats, files, elements, cells, ...
  Kind,    \* the table an id belongs to
  Home,    \* the board a row hangs on (a board's home is itself)
  Stamp,   \* timestamps, in whole seconds
  None     \* "no such row"

Kinds == {"board", "chat", "file", "element", "cell", "meta", "note", "pin"}

(* Tables whose rows carry an enforced foreign key to the board. *)
NeedsBoard == {"chat", "file", "element", "cell", "meta"}

(* Tables merged last-writer-wins on updated_at by every path. *)
Lww == {"note", "pin", "meta"}

(* Tables with INSERT OR IGNORE on every path: the first row stays. *)
FirstWins == {"board", "chat", "file"}

(* The remaining tables: edited in place, replaced by snapshots. *)
Drawn == {"element", "cell"}

Row == [ts : Stamp, body : Nat, gone : BOOLEAN]

Rows == [Id -> Row \cup {None}]

ASSUME KindAssumption == Kind \in [Id -> Kinds]
ASSUME HomeAssumption == /\ Home \in [Id -> Id]
                         /\ \A i \in Id : Kind[Home[i]] = "board"
                         /\ \A i \in Id : Kind[i] = "board" => Home[i] = i
ASSUME StampAssumption == Stamp \subseteq Nat
ASSUME RowAssumption == None \notin Row

-------------------------------------------------------------------------------
(* Single-row statements. *)

Present(s, i) == s[i] # None

(* The foreign key of row i is satisfied in store s. *)
BoardPresent(s, i) == Kind[i] \in NeedsBoard => Present(s, Home[i])

(* Mutant: the row that arrives last wins. *)
LastArrivalWins(old, new) == new

(* Strictly newer wins; a tie keeps the row already stored. *)
LwwMerge(old, new) == IF old = None \/ new.ts > old.ts THEN new ELSE old

(* INSERT OR IGNORE; a broken foreign key refuses the row. *)
InsertRow(s, i, r) ==
  IF BoardPresent(s, i) /\ ~Present(s, i) THEN [s EXCEPT ![i] = r] ELSE s

(* UPDATE ... WHERE id: unconditional on an existing row, nothing otherwise. *)
UpdateRow(s, i, r) == IF Present(s, i) THEN [s EXCEPT ![i] = r] ELSE s

(* INSERT ... ON CONFLICT DO UPDATE ... WHERE excluded.updated_at > updated_at. *)
UpsertRow(s, i, r) ==
  IF BoardPresent(s, i) THEN [s EXCEPT ![i] = LwwMerge(s[i], r)] ELSE s

DeleteRow(s, i) == [s EXCEPT ![i] = None]

(* Mutant: the delete does not cascade. *)
DeleteBoardAlone(s, b) == [s EXCEPT ![b] = None]

(* A board takes every row with a foreign key to it along; notes and pins stay. *)
DeleteBoard(s, b) ==
  [i \in Id |-> IF i = b \/ (Home[i] = b /\ Kind[i] \in NeedsBoard) THEN None ELSE s[i]]

(* Mutant: a deletion that finds no row leaves a bare tombstone. *)
TombstoneAnyway(s, i) ==
  [s EXCEPT ![i] = IF Present(s, i) THEN [@ EXCEPT !.gone = TRUE] ELSE [gone |-> TRUE]]

SoftDeleteFile(s, i) ==
  IF Present(s, i) THEN [s EXCEPT ![i] = [s[i] EXCEPT !.gone = TRUE]] ELSE s

(* The effect of a delete on a store. *)
Erase(s, i) == CASE Kind[i] = "board" -> DeleteBoard(s, i)
                 [] Kind[i] = "file" -> SoftDeleteFile(s, i)
                 [] OTHER -> DeleteRow(s, i)

-------------------------------------------------------------------------------
(* What a peer lists, digests and serves. *)

(* Tombstoned files are hidden, and so is the pin of a board that is gone. *)
Listed(s, i) ==
  /\ Present(s, i)
  /\ ~s[i].gone
  /\ Kind[i] = "pin" => Present(s, Home[i])

(* Mutant: only files have a version, other rows just an id. *)
VersionOfFiles(i, r) == IF Kind[i] = "file" THEN r.body ELSE 0

(* Files are versioned by content hash, everything else by its clock. *)
Version(i, r) == IF Kind[i] = "file" THEN r.body ELSE r.ts

DigestLines(s) == {<<i, Version(i, s[i])>> : i \in {j \in Id : Listed(s, j)}}

NoSince == -1   \* since = None, a full pull: every clock is later

(* The rows of a snapshot: newer than since, board metadata always. *)
Served(s, since) ==
  [i \in Id |-> IF Listed(s, i) /\ (Kind[i] = "meta" \/ s[i].ts > since)
                  THEN s[i] ELSE None]

(* t is the largest clock of the listed rows and the group row's joinedAt. *)
IsHighWater(s, joinedAt, t) ==
  /\ t = joinedAt \/ \E i \in Id : Listed(s, i) /\ s[i].ts = t
  /\ joinedAt <= t
  /\ \A i \in Id : Listed(s, i) => s[i].ts <= t

-------------------------------------------------------------------------------
(* Applying a snapshot: frame 1 Structure, 2 Content, 3 Metadata. *)

(* Mutant: boards travel with the metadata. *)
BoardsLast(i) == IF Kind[i] \in Drawn THEN 2 ELSE 3

Frame(i) == CASE Kind[i] = "board" -> 1
              [] Kind[i] \in Drawn -> 2
              [] OTHER -> 3

(* Position of a row's table in the loop over its frame. *)
Order(i) == CASE Kind[i] \in {"board", "element", "chat"} -> 1
              [] Kind[i] \in {"cell", "file"} -> 2
              [] Kind[i] = "meta" -> 3
              [] Kind[i] = "note" -> 4
              [] OTHER -> 5

(* Mutant: INSERT OR REPLACE on every table. *)
SnapshotReplace(i, old, new) == new

(* The merge of one row: first wins, last writer wins, or INSERT OR REPLACE. *)
SnapshotMerge(i, old, new) ==
  CASE Kind[i] \in FirstWins -> IF old = None THEN new ELSE old
    [] Kind[i] \in Lww -> LwwMerge(old, new)
    [] OTHER -> new

Carried(rows, f) == {i \in Id : rows[i] # None /\ Frame(i) = f}

Refused(s, rows, f) == {i \in Carried(rows, f) : ~BoardPresent(s, i)}

(* The sets of rows frame f may leave in the store: all it carries, or, as the *)
(* first refused row ends the loop, the tables before that row's and some of   *)
(* that row's own table.                                                       *)
Landings(s, rows, f) ==
  LET carried == Carried(rows, f)
      refused == Refused(s, rows, f)
  IN  {done \in SUBSET (carried \ refused) :
         IF refused = {} THEN done = carried
         ELSE \E r \in refused :
                /\ \A q \in refused : Order(r) <= Order(q)
                /\ \A i \in carried : Order(i) < Order(r) => i \in done
                /\ \A i \in done : Order(i) <= Order(r)}

ApplyRows(s, rows, done) ==
  [i \in Id |-> IF i \in done THEN SnapshotMerge(i, s[i], rows[i]) ELSE s[i]]
===============================================================================
