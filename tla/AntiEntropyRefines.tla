-------------------------- MODULE AntiEntropyRefines --------------------------
(* AntiEntropy implements ConvergentStore, for every set of peers, rows,       *)
(* clocks and deleted rows.                                                    *)
EXTENDS AntiEntropyProof

-------------------------------------------------------------------------------
(* The abstract store: what joining some writes does to a row. *)

LEMMA JoinedRow ==
  ASSUME NEW s, NEW W, \A v, w \in W : v.id = w.id => v = w, NEW i \in Id
  PROVE  /\ \A w \in W : w.id = i =>
              Abstract!Joined(s, W)[i] = Abstract!ConvergentMerge(i, s[i], Abstract!RowOf(w))
         /\ (\A w \in W : w.id # i) => Abstract!Joined(s, W)[i] = s[i]
PROOF
  <1>1. ASSUME NEW w \in W, w.id = i
        PROVE  Abstract!Joined(s, W)[i] = Abstract!ConvergentMerge(i, s[i], Abstract!RowOf(w))
    <2>1. (CHOOSE v \in W : v.id = i) = w
      BY <1>1
    <2> QED BY <1>1, <2>1 DEF Abstract!Joined
  <1>2. ASSUME \A w \in W : w.id # i PROVE Abstract!Joined(s, W)[i] = s[i]
    BY <1>2 DEF Abstract!Joined
  <1> QED BY <1>1, <1>2

-------------------------------------------------------------------------------
(* What a peer shows of its rows, and what a statement does to it. *)

AbstractWritten == {w \in written : w.id \in Convergent}

(* A statement on a row of another table shows nothing. *)
LEMMA DrawnRowsAreHidden ==
  ASSUME NEW s \in Rows, NEW i \in Id, i \notin Convergent, NEW r
  PROVE  /\ Shown(InsertRow(s, i, r)) = Shown(s)
         /\ Shown(UpdateRow(s, i, r)) = Shown(s)
         /\ Shown(UpsertRow(s, i, r)) = Shown(s)
         /\ Shown(Erase(s, i)) = Shown(s)
PROOF
  <1>1. Kind[i] # "board" /\ Kind[i] # "file"
    BY DEF Convergent, FirstWins
  <1>2. Erase(s, i) = DeleteRow(s, i)
    BY <1>1 DEF Erase
  <1>3. ASSUME NEW t, \A j \in Convergent : t[j] = s[j] PROVE Shown(t) = Shown(s)
    BY <1>3 DEF Shown
  <1>4. \A j \in Convergent : j # i /\ j \in Id
    BY DEF Convergent
  <1> QED BY <1>2, <1>3, <1>4 DEF InsertRow, UpdateRow, UpsertRow, DeleteRow, Rows

(* The merge of one row is the same on both levels. *)
LEMMA MergesAgree ==
  ASSUME NEW i \in Convergent, NEW old, NEW new
  PROVE  /\ Abstract!ConvergentMerge(i, old, new) = SnapshotMerge(i, old, new)
         /\ Kind[i] \in Lww => SnapshotMerge(i, old, new) = LwwMerge(old, new)
         /\ Kind[i] \notin Lww => SnapshotMerge(i, old, new) = IF old = None THEN new ELSE old
PROOF
  <1>1. Kind[i] \in FirstWins \cup Lww
    BY DEF Convergent
  <1>2. Kind[i] \in Lww => Kind[i] \notin FirstWins
    BY DEF Lww, FirstWins
  <1> QED BY <1>1, <1>2 DEF Abstract!ConvergentMerge, Abstract!LwwMerge, Abstract!Lww,
                            SnapshotMerge, LwwMerge, Lww

(* A statement the foreign key lets through joins its row. *)
LEMMA StatementJoins ==
  ASSUME NEW s \in Rows, NEW i \in Convergent, NEW w, w.id = i,
         NEW t, BoardPresent(s, i),
         \/ Kind[i] \notin Lww /\ t = InsertRow(s, i, Abstract!RowOf(w))
         \/ Kind[i] \in Lww /\ t = UpsertRow(s, i, Abstract!RowOf(w))
  PROVE  Shown(t) = Abstract!Joined(Shown(s), {w})
PROOF
  <1> DEFINE r == Abstract!RowOf(w)
  <1>1. i \in Id /\ Shown(s)[i] = s[i]
    BY DEF Convergent, Shown
  <1>2. t[i] = SnapshotMerge(i, s[i], r)
    BY <1>1, MergesAgree DEF InsertRow, UpsertRow, Present, Rows
  <1>3. \A j \in Id : j # i => t[j] = s[j]
    BY <1>1 DEF InsertRow, UpsertRow, Rows
  <1>4. \A j \in Id : Abstract!Joined(Shown(s), {w})[j] =
                         IF j = i THEN Abstract!ConvergentMerge(i, s[i], r) ELSE Shown(s)[j]
    BY <1>1, JoinedRow
  <1>5. \A j \in Id : Abstract!Joined(Shown(s), {w})[j] = Shown(t)[j]
    BY <1>1, <1>2, <1>3, <1>4, MergesAgree DEF Shown
  <1> QED BY <1>5 DEF Shown, Abstract!Joined

-------------------------------------------------------------------------------
(* A step without a user write: the peer learns of some writes. *)

Learned(s, t) ==
  \E W \in SUBSET AbstractWritten :
    /\ \A v, w \in W : v.id = w.id => v = w
    /\ Shown(t) = Abstract!Joined(Shown(s), W)

(* A row that may travel is the row of a write. *)
LEMMA LiveRowsAreWritten ==
  ASSUME TypeOK, NEW i \in Convergent, NEW r \in Row, <<i, r>> \in Live
  PROVE  \E w \in AbstractWritten : w.id = i /\ Abstract!RowOf(w) = r
PROOF
  <1>1. Sendable(i, r)
    BY DEF Live
  <1>2. Kind[i] # "cell"
    BY DEF Convergent, FirstWins, Lww
  <1>3. PICK w \in written : w.id = i /\ w.body = r.body /\ w.ts = r.ts
    BY <1>1, <1>2 DEF Sendable, Authored
  <1>4. r.gone = FALSE
    BY <1>1 DEF Sendable, Row
  <1>5. r = [ts |-> r.ts, body |-> r.body, gone |-> r.gone]
    BY DEF Row
  <1> QED BY <1>3, <1>4, <1>5 DEF AbstractWritten, Abstract!RowOf

LEMMA NothingLearned ==
  ASSUME NEW s, NEW t, Shown(t) = Shown(s)
  PROVE  Learned(s, t)
PROOF
  <1>1. Abstract!Joined(Shown(s), {}) = [i \in Id |-> Shown(s)[i]]
    BY DEF Abstract!Joined
  <1>2. Shown(s) = [i \in Id |-> Shown(s)[i]]
    BY DEF Shown
  <1> QED BY <1>1, <1>2 DEF Learned

LEMMA FrameIsLearned ==
  ASSUME TypeOK, NEW s \in Rows, NEW rows \in Rows, NEW f, NEW done \in Landings(s, rows, f),
         \A i \in Id : rows[i] # None => <<i, rows[i]>> \in Live
  PROVE  Learned(s, ApplyRows(s, rows, done))
PROOF
  <1> DEFINE t == ApplyRows(s, rows, done)
             W == {w \in AbstractWritten : w.id \in done /\ Abstract!RowOf(w) = rows[w.id]}
  <1>1. ASSUME NEW v \in W, NEW w \in W, v.id = w.id PROVE v = w
    <2>1. v \in Write /\ w \in Write
      BY DEF AbstractWritten, TypeOK
    <2>2. v.ts = w.ts /\ v.body = w.body
      BY <1>1 DEF Abstract!RowOf
    <2> QED BY <1>1, <2>1, <2>2 DEF Write
  <1>2. ASSUME NEW i \in Id PROVE Shown(t)[i] = Abstract!Joined(Shown(s), W)[i]
    <2>1. CASE i \in done /\ i \in Convergent
      <3>1. rows[i] \in Row /\ <<i, rows[i]>> \in Live
        BY <2>1, LandingsAreSound, RowAssumption
      <3>2. PICK w \in W : w.id = i /\ Abstract!RowOf(w) = rows[i]
        BY <2>1, <3>1, LiveRowsAreWritten
      <3>3. Abstract!Joined(Shown(s), W)[i] = Abstract!ConvergentMerge(i, Shown(s)[i], rows[i])
        BY <1>1, <3>2, JoinedRow
      <3> QED BY <2>1, <3>3, MergesAgree DEF Shown, ApplyRows
    <2>2. CASE ~(i \in done /\ i \in Convergent)
      <3>1. \A w \in W : w.id # i
        BY <2>2 DEF AbstractWritten
      <3>2. Abstract!Joined(Shown(s), W)[i] = Shown(s)[i]
        BY <1>1, <3>1, JoinedRow
      <3> QED BY <2>2, <3>2 DEF Shown, ApplyRows
    <2> QED BY <2>1, <2>2
  <1>3. Shown(t) = Abstract!Joined(Shown(s), W)
    BY <1>2 DEF Shown, Abstract!Joined
  <1> QED BY <1>1, <1>3 DEF Learned

(* A delete shows as the delete of what is shown. *)
Removed(s, t) == \E i \in Id : i \in Deletes /\ Shown(t) = Abstract!Erase(Shown(s), i)

LEMMA EraseIsRemoved ==
  ASSUME NEW s \in Rows, NEW i \in Deletes
  PROVE  Removed(s, Erase(s, i))
PROOF
  <1>0. i \in Id
    BY DeletesAssumption
  <1>1. \A j \in Convergent : j \in Id
    BY DEF Convergent
  <1>2. Kind[i] = "file" => i \in Convergent
    BY <1>0 DEF Convergent, FirstWins
  <1>3. Shown(s) \in [Id -> Row \cup {None}] /\ \A j \in Convergent : Shown(s)[j] = s[j]
    BY <1>1 DEF Shown, Rows
  <1>4. ASSUME NEW j \in Id PROVE Shown(Erase(s, i))[j] = Abstract!Erase(Shown(s), i)[j]
    <2>1. CASE Kind[i] = "board"
      <3>1. /\ Erase(s, i) = DeleteBoard(s, i)
            /\ Abstract!Erase(Shown(s), i) = Abstract!DeleteBoard(Shown(s), i)
        BY <2>1 DEF Erase, Abstract!Erase
      <3> QED BY <3>1 DEF DeleteBoard, Abstract!DeleteBoard, NeedsBoard, Abstract!NeedsBoard, Shown
    <2>2. CASE Kind[i] = "file"
      <3>1. /\ Erase(s, i) = SoftDeleteFile(s, i)
            /\ Abstract!Erase(Shown(s), i) = Abstract!SoftDeleteFile(Shown(s), i)
        BY <2>2 DEF Erase, Abstract!Erase
      <3> QED BY <1>0, <1>2, <1>3, <2>2, <3>1
            DEF SoftDeleteFile, Abstract!SoftDeleteFile, Present, Abstract!Present, Shown, Rows
    <2>3. CASE Kind[i] \notin {"board", "file"}
      <3>1. /\ Erase(s, i) = DeleteRow(s, i)
            /\ Abstract!Erase(Shown(s), i) = Abstract!DeleteRow(Shown(s), i)
        BY <2>3 DEF Erase, Abstract!Erase
      <3> QED BY <1>0, <1>3, <3>1 DEF DeleteRow, Abstract!DeleteRow, Shown, Rows
    <2> QED BY <2>1, <2>2, <2>3
  <1>5. /\ Shown(Erase(s, i)) = [j \in Id |-> Shown(Erase(s, i))[j]]
        /\ Abstract!Erase(Shown(s), i) = [j \in Id |-> Abstract!Erase(Shown(s), i)[j]]
    BY <1>0, <1>3 DEF Shown, Abstract!Erase, Abstract!DeleteBoard, Abstract!SoftDeleteFile,
      Abstract!DeleteRow, Abstract!Present
  <1> QED BY <1>0, <1>4, <1>5 DEF Removed

(* Whatever changes a store's rows with rows that may travel is such a step. *)
LEMMA ChangeIsLearned ==
  ASSUME TypeOK, NEW s \in Rows, NEW t, StoreChange(s, t, Live)
  PROVE  Learned(s, t) \/ Removed(s, t)
PROOF
  <1>1. CASE t = s
    BY <1>1, NothingLearned
  <1>2. ASSUME NEW i \in Id, NEW r \in Row, <<i, r>> \in Live,
               \/ Kind[i] \notin Lww /\ t = InsertRow(s, i, r)
               \/ Kind[i] \in Drawn /\ t = UpdateRow(s, i, r)
               \/ Kind[i] \in Lww /\ t = UpsertRow(s, i, r)
        PROVE  Learned(s, t)
    <2>1. CASE i \notin Convergent
      BY <1>2, <2>1, DrawnRowsAreHidden, NothingLearned
    <2>2. CASE i \in Convergent
      <3>1. PICK w \in AbstractWritten : w.id = i /\ Abstract!RowOf(w) = r
        BY <1>2, <2>2, LiveRowsAreWritten
      <3>2. Kind[i] \notin Drawn
        BY <2>2 DEF Convergent, FirstWins, Lww, Drawn
      <3>3. CASE BoardPresent(s, i)
        <4>1. Shown(t) = Abstract!Joined(Shown(s), {w})
          BY <1>2, <2>2, <3>1, <3>2, <3>3, StatementJoins
        <4> QED BY <4>1 DEF Learned
      <3>4. CASE ~BoardPresent(s, i)
        BY <1>2, <3>2, <3>4, NothingLearned DEF InsertRow, UpsertRow
      <3> QED BY <3>3, <3>4
    <2> QED BY <2>1, <2>2
  <1>3. ASSUME NEW i \in Id, i \in Deletes, t = Erase(s, i) PROVE Removed(s, t)
    BY <1>3, EraseIsRemoved
  <1>4. ASSUME NEW rows \in Rows, NEW f, NEW done \in Landings(s, rows, f),
               \A i \in Id : rows[i] # None => <<i, rows[i]>> \in Live,
               t = ApplyRows(s, rows, done)
        PROVE  Learned(s, t)
    BY <1>4, FrameIsLearned
  <1> QED BY <1>1, <1>2, <1>3, <1>4 DEF StoreChange

-------------------------------------------------------------------------------
(* The steps of the specification. *)

(* A step is a user's write, or writes nothing and changes one peer's rows. *)
Silent == /\ UNCHANGED written
          /\ edits' \in Nat /\ edits' >= edits
          /\ \/ UNCHANGED store
             \/ \E n \in Node : \E rows : store' = [store EXCEPT ![n] = rows]

LEMMA WriteOrSilent ==
  ASSUME TypeOK, [Next]_vars
  PROVE  Silent \/ \E n \in Node, i \in Id, t \in Stamp : Wrote(n, i, t)
PROOF
  <1>1. ASSUME UNCHANGED <<written, edits, store>> PROVE Silent
    BY <1>1 DEF Silent, TypeOK
  <1>2. ASSUME NEW n \in Node, NEW rows, store' = [store EXCEPT ![n] = rows],
               UNCHANGED written, edits' \in {edits, edits + 1}
        PROVE  Silent
    <2>1. edits' \in Nat /\ edits' >= edits
      BY <1>2 DEF TypeOK
    <2>2. \E m \in Node : \E new : store' = [store EXCEPT ![m] = new]
      BY <1>2, Zenon
    <2> QED BY <1>2, <2>1, <2>2 DEF Silent
  <1>3. ASSUME NEW n \in Node, NEW i \in Id, Dropped(n, i) PROVE Silent
    BY <1>2, <1>3 DEF Dropped, Drop
  <1>4. ASSUME NEW n \in Node, NEW t \in Stamp, Persist(n, t) PROVE Silent
    BY <1>2, <1>4 DEF Persist
  <1>5. ASSUME NEW n \in Node, NEW k \in Pulls, ApplyFrame(n, k) PROVE Silent
    BY <1>2, <1>5 DEF ApplyFrame
  <1>6. ASSUME NEW n \in Node, Gossip(n) PROVE Silent
    BY <1>1, <1>4, <1>6 DEF Gossip, Deliver
  <1>7. ASSUME NEW n \in Node, Repair(n) \/ Restart(n) PROVE Silent
    BY <1>1, <1>7 DEF Repair, Sweep, IgnoreDigest, StartRepair, Restart
  <1>8. ASSUME NEW n \in Node, PullStep(n) PROVE Silent
    BY <1>1, <1>5, <1>8 DEF PullStep, StartSync, Serve, CompletePull, BreakPull
  <1>9. ASSUME NEW n \in Node, User(n), ~Silent
        PROVE  \E i \in Id, t \in Stamp : Wrote(n, i, t)
    BY <1>3, <1>9, WritesAreStatements, DeletesAreDrops DEF User
  <1> QED BY <1>1, <1>6, <1>7, <1>8, <1>9 DEF Next, vars

AbstractRows == [n \in Node |-> Shown(store[n])]

(* A step without a write is an abstract peer learning or forgetting, or nothing. *)
LEMMA SilentLearns ==
  ASSUME TypeOK, RowsAuthored, [Next]_vars, Silent
  PROVE  \/ \E n \in Node : Abstract!Learn(n) \/ \E i \in Id : Abstract!Remove(n, i)
         \/ UNCHANGED <<AbstractRows, AbstractWritten>>
PROOF
  <1>1. UNCHANGED AbstractWritten
    BY DEF Silent, AbstractWritten, Convergent
  <1>2. CASE UNCHANGED store
    BY <1>1, <1>2 DEF AbstractRows, Shown, Convergent
  <1>3. ASSUME NEW n \in Node, NEW rows, store' = [store EXCEPT ![n] = rows]
        PROVE  Abstract!Learn(n) \/ \E i \in Id : Abstract!Remove(n, i)
    <2>1. Live' = Live
      BY DEF Silent, Live, Sendable, Authored
    <2>2. store[n] \in Rows /\ store'[n] = rows
      BY <1>3 DEF TypeOK
    <2>3. StoreChange(store[n], rows, Live)
      BY <2>1, <2>2, StoreChanges
    <2>4. CASE Learned(store[n], rows)
      <3>1. PICK W \in SUBSET AbstractWritten :
              /\ \A v, w \in W : v.id = w.id => v = w
              /\ Shown(rows) = Abstract!Joined(Shown(store[n]), W)
        BY <2>4 DEF Learned
      <3>2. AbstractRows' = [AbstractRows EXCEPT ![n] = Abstract!Joined(@, W)]
        BY <1>3, <2>2, <3>1 DEF AbstractRows, TypeOK
      <3> QED BY <1>1, <3>1, <3>2 DEF Abstract!Learn, AbstractRows, AbstractWritten
    <2>5. CASE Removed(store[n], rows)
      <3>1. PICK i \in Id : i \in Deletes /\ Shown(rows) = Abstract!Erase(Shown(store[n]), i)
        BY <2>5 DEF Removed
      <3>2. AbstractRows' = [AbstractRows EXCEPT ![n] = Abstract!Erase(@, i)]
        BY <1>3, <2>2, <3>1 DEF AbstractRows, TypeOK
      <3> QED BY <1>1, <3>1, <3>2 DEF Abstract!Remove, AbstractRows, AbstractWritten
    <2> QED BY <2>2, <2>3, <2>4, <2>5, ChangeIsLearned
  <1> QED BY <1>2, <1>3 DEF Silent

(* A user's write of a row is a write of that row, or of no row, above. *)
LEMMA WritesWrite ==
  ASSUME TypeOK, BodiesCounted, NEW n \in Node, NEW i \in Id, NEW t \in Stamp, Wrote(n, i, t)
  PROVE  Abstract!WriteRow(n, i) \/ UNCHANGED <<AbstractRows, AbstractWritten>>
PROOF
  <1> DEFINE w == [id |-> i, ts |-> t, body |-> edits + 1]
  <1>1. PICK op, deltas :
          /\ Suits(op, i)
          /\ op # "update" => BoardPresent(store[n], i)
          /\ Author(n, i, t, deltas, Statement(op, store[n], i, Fresh(t)))
    BY DEF Wrote
  <1> DEFINE new == Statement(op, store[n], i, Fresh(t))
  <1>2. written' = written \cup {w} /\ store' = [store EXCEPT ![n] = new]
    BY <1>1 DEF Author
  <1>3. store[n] \in Rows
    BY DEF TypeOK
  <1>4. CASE i \notin Convergent
    <2>1. Shown(new) = Shown(store[n])
      BY <1>1, <1>3, <1>4, DrawnRowsAreHidden DEF Statement, Suits
    <2>2. UNCHANGED AbstractRows
      BY <1>2, <2>1 DEF AbstractRows, TypeOK
    <2>3. UNCHANGED AbstractWritten
      BY <1>2, <1>4 DEF AbstractWritten
    <2> QED BY <2>2, <2>3
  <1>5. CASE i \in Convergent
    <2>1. Abstract!RowOf(w) = Fresh(t)
      BY DEF Abstract!RowOf, Fresh
    <2>2. op # "update"
      BY <1>1, <1>5 DEF Suits, Convergent, Drawn, FirstWins, Lww
    <2>3. Shown(new) = Abstract!Joined(Shown(store[n]), {w})
      BY <1>1, <1>3, <1>5, <2>1, <2>2, StatementJoins DEF Statement, Suits
    <2>4. AbstractRows' = [AbstractRows EXCEPT ![n] = Abstract!Joined(@, {w})]
      BY <1>2, <2>3 DEF AbstractRows, TypeOK
    <2>5. w \notin written
      BY DEF BodiesCounted, TypeOK
    <2>6. AbstractWritten' = AbstractWritten \cup {w} /\ w \in AbstractWritten' \ AbstractWritten
      BY <1>2, <1>5, <2>5 DEF AbstractWritten
    <2> QED BY <2>4, <2>6 DEF Abstract!WriteRow, AbstractRows, AbstractWritten
  <1> QED BY <1>4, <1>5

(* The seeded stores are the abstract ones. *)
LEMMA InitRefines == Init => Abstract!Init
PROOF
  <1> SUFFICES ASSUME Init PROVE Abstract!Init
    OBVIOUS
  <1>1. AbstractWritten = Abstract!SeedWrites
    BY DEF Init, AbstractWritten, Abstract!SeedWrites
  <1>2. ASSUME NEW n \in Node, NEW i \in Id
        PROVE  Shown(store[n])[i] = Abstract!Joined(Abstract!Empty, Abstract!SeedWrites)[i]
    <2>1. \A v, w \in Abstract!SeedWrites : v.id = w.id => v = w
      BY DEF Abstract!SeedWrites
    <2>2. Abstract!Empty[i] = None
      BY DEF Abstract!Empty
    <2>3. CASE i \in Seeded \cap Convergent
      <3>1. PICK w \in Abstract!SeedWrites : w = [id |-> i, ts |-> SeedStamp, body |-> 0]
        BY <2>3 DEF Abstract!SeedWrites
      <3>2. Abstract!RowOf(w) = SeedRow /\ w.id = i
        BY <3>1 DEF Abstract!RowOf, SeedRow
      <3>3. Abstract!Joined(Abstract!Empty, Abstract!SeedWrites)[i] =
              Abstract!ConvergentMerge(i, None, SeedRow)
        BY <2>1, <2>2, <3>1, <3>2, JoinedRow
      <3>4. Shown(store[n])[i] = SeedRow
        BY <2>3 DEF Init, Shown
      <3> QED BY <3>3, <3>4 DEF Abstract!ConvergentMerge, Abstract!LwwMerge
    <2>4. CASE i \notin Seeded \cap Convergent
      <3>1. \A w \in Abstract!SeedWrites : w.id # i
        BY <2>4 DEF Abstract!SeedWrites
      <3>2. Abstract!Joined(Abstract!Empty, Abstract!SeedWrites)[i] = None
        BY <2>1, <2>2, <3>1, JoinedRow
      <3> QED BY <2>4, <3>2 DEF Init, Shown
    <2> QED BY <2>3, <2>4
  <1>3. \A n \in Node :
          Shown(store[n]) = Abstract!Joined(Abstract!Empty, Abstract!SeedWrites)
    BY <1>2 DEF Shown, Abstract!Joined
  <1> QED BY <1>1, <1>3 DEF Abstract!Init, AbstractWritten

LEMMA StepRefines ==
  TypeOK /\ RowsAuthored /\ BodiesCounted /\ [Next]_vars => [Abstract!Next]_(Abstract!view)
PROOF
  <1> SUFFICES ASSUME TypeOK, RowsAuthored, BodiesCounted, [Next]_vars
               PROVE  [Abstract!Next]_(Abstract!view)
    OBVIOUS
  <1>1. UNCHANGED <<AbstractRows, AbstractWritten>> => UNCHANGED Abstract!view
    BY DEF AbstractRows, AbstractWritten, Abstract!view
  <1> QED BY <1>1, WriteOrSilent, SilentLearns, WritesWrite DEF Abstract!Next

(* Replication implements the abstract store: whatever deltas, pulls, faults   *)
(* and restarts do, a peer's rows in the tables with a convergent merge are    *)
(* the merge of user writes, less what users delete.                           *)
THEOREM ImplementsAbstract == Spec => ImplementsConvergentStore
PROOF
  <1>1. WritesDistinct => BodiesCounted
    BY DEF WritesDistinct
  <1> QED BY <1>1, InitRefines, StepRefines, TypeCorrect, RowsAuthoredSafe, WritesAreDistinct,
        PTL DEF Spec, ImplementsConvergentStore, Abstract!Spec

===============================================================================
