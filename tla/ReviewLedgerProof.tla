--------------------------- MODULE ReviewLedgerProof ---------------------------
(* Theorems about ReviewLedger, for every set of devices, entries and clocks.  *)
EXTENDS ReviewLedger, TLAPS

(* The contents that a human or a change-list verb approved. *)
Given == approvals \cup asserted

(* What every row must be, wherever it is kept: approved only where approval   *)
(* was given, and with its decision recorded under its clock.                  *)
FitRow(e, r, A) ==
  /\ r \in Row
  /\ r.state = "approved" => e \in A

RecordedRow(e, r, W) == Record(e, r) \in W

Fit(rows, A) == rows \in Rows /\ \A e \in Entry : rows[e] # None => FitRow(e, rows[e], A)

Recorded(rows, W) == \A e \in Entry : rows[e] # None => RecordedRow(e, rows[e], W)

RowsPart ==
  /\ entries \in [Device -> Rows]
  /\ \A p \in Device : Fit(entries[p], Given) /\ Recorded(entries[p], wrote)
  /\ wrote \subseteq Write
  /\ approvals \subseteq Entry /\ asserted \subseteq Entry

DeltaPart ==
  /\ deltas \subseteq Delta
  /\ \A d \in deltas : FitRow(d.entry, d.row, Given) /\ RecordedRow(d.entry, d.row, wrote)

RenderPart ==
  /\ render \in [Device -> Render \cup {None}]
  /\ \A p \in Device : render[p] # None => render[p].ops \subseteq Given

RowInv == RowsPart /\ DeltaPart /\ RenderPart

Loops == [state : LoopState, round : 0 .. MaxRounds, at : Nat]

GateRow(r, G) ==
  r # None =>
    /\ r.state # "DRAFT" => <<"publish", r.round>> \in G
    /\ r.state = "CONFORMING" => <<"confirm", r.round>> \in G
    /\ r.state \in {"FINISHING", "DELIVERED"} => <<"finish", r.round>> \in G

Gates == {"publish", "confirm", "finish"} \X (0 .. MaxRounds)

LoopInv ==
  /\ review \in [Device -> Loops \cup {None}]
  /\ gates \subseteq Gates
  /\ \A p \in Device : GateRow(review[p], gates)

RestInv ==
  /\ versions \in [Device -> SUBSET Nat]
  /\ head \in [Device -> Head \cup {None}]
  /\ cuts \subseteq Head
  /\ now \in Nat \ {0}
  /\ commands \in Nat

Inv == RowInv /\ LoopInv /\ RestInv

LEMMA ClockType ==
  ASSUME RestInv, NEW p \in Device
  PROVE  Clock(p) \in Nat \ {0}
PROOF
  <1>1. now \in Nat /\ now > 0
    BY DEF RestInv
  <1>2. Skew[p] \in Nat
    BY SkewAssumption
  <1> QED BY <1>1, <1>2 DEF Clock

-------------------------------------------------------------------------------
(* The operators on rows *)

LEMMA FitGrows ==
  ASSUME NEW A, NEW B, A \subseteq B, NEW rows, Fit(rows, A)
  PROVE  Fit(rows, B)
BY DEF Fit, FitRow

LEMMA FreshRow == Fresh \in Row /\ Fresh.state = "proposed"
BY DEF Fresh, Row, EntryState

LEMMA AppendFit ==
  ASSUME NEW A, NEW rows, Fit(rows, A), NEW e \in Entry, NEW r \in Row,
         rows[e] = None /\ r.state = "approved" => e \in A
  PROVE  Fit(Append(rows, e, r), A) /\ Append(rows, e, r)[e] # None
PROOF
  <1> DEFINE new == [r EXCEPT !.at = 0, !.by = 0]
             kept == IF rows[e] # None THEN rows[e] ELSE new
             out == Append(rows, e, r)
  <1>1. new \in Row /\ new.state = r.state
    BY DEF Row
  <1>2. rows[e] = None => FitRow(e, new, A)
    BY <1>1 DEF FitRow
  <1>3. new # None
    BY <1>1, NoneAssumption
  <1>4. rows \in Rows
    BY DEF Fit
  <1>5. out = [rows EXCEPT ![e] = kept]
    BY DEF Append
  <1>6. kept # None /\ FitRow(e, kept, A)
    BY <1>2, <1>3 DEF Fit
  <1> HIDE DEF kept
  <1>7. out \in Rows /\ out[e] = kept
    BY <1>4, <1>5, <1>6 DEF Rows, FitRow
  <1>8. \A x \in Entry : x # e => out[x] = rows[x]
    BY <1>4, <1>5 DEF Rows
  <1> HIDE DEF out
  <1>9. \A x \in Entry : out[x] # None => FitRow(x, out[x], A)
    BY <1>6, <1>7, <1>8 DEF Fit
  <1>10. Fit(out, A)
    BY <1>7, <1>9 DEF Fit
  <1> QED BY <1>6, <1>7, <1>10 DEF out

LEMMA MoveFit ==
  ASSUME NEW A, NEW rows, Fit(rows, A), NEW e \in Entry, rows[e] # None,
         NEW s \in EntryState, NEW a \in BOOLEAN, NEW at \in Nat \ {0}, NEW by \in Nat,
         s = "approved" => e \in A
  PROVE  Fit(Move(rows, e, s, a, at, by), A)
PROOF
  <1> DEFINE new == [state |-> s, active |-> a, at |-> at, by |-> by,
                     stamped |-> rows[e].stamped]
             out == Move(rows, e, s, a, at, by)
  <1>1. rows \in Rows /\ rows[e] \in Row
    BY DEF Fit, FitRow
  <1>2. new \in Row
    BY <1>1 DEF Row
  <1>3. FitRow(e, new, A) /\ new # None
    BY <1>2, NoneAssumption DEF FitRow
  <1>4. out = [rows EXCEPT ![e] = new]
    BY DEF Move
  <1>5. out \in Rows
    BY <1>1, <1>2, <1>4 DEF Rows
  <1>6. out[e] = new /\ \A x \in Entry : x # e => out[x] = rows[x]
    BY <1>1, <1>4 DEF Rows
  <1> HIDE DEF out, new
  <1>7. \A x \in Entry : out[x] # None => FitRow(x, out[x], A)
    BY <1>3, <1>6 DEF Fit
  <1>8. Fit(out, A)
    BY <1>5, <1>7 DEF Fit
  <1> QED BY <1>8 DEF out

LEMMA MoveKeeps ==
  ASSUME NEW rows \in Rows, NEW e \in Entry, rows[e] \in Row, NEW s \in EntryState,
         NEW a \in BOOLEAN, NEW at \in Nat, NEW by \in Nat, NEW x \in Entry, rows[x] # None
  PROVE  Move(rows, e, s, a, at, by)[x] # None
PROOF
  <1> DEFINE new == [state |-> s, active |-> a, at |-> at, by |-> by,
                     stamped |-> rows[e].stamped]
  <1>1. new \in Row
    BY DEF Row
  <1>2. new # None
    BY <1>1, NoneAssumption
  <1>3. Move(rows, e, s, a, at, by) = [rows EXCEPT ![e] = new]
    BY DEF Move
  <1> HIDE DEF new
  <1> QED BY <1>2, <1>3 DEF Rows

LEMMA AppendHolds ==
  ASSUME NEW A, NEW rows, Fit(rows, A), NEW e \in Entry, NEW x \in Entry, NEW r \in Row,
         rows[x] # None
  PROVE  Append(rows, e, r)[x] # None
PROOF
  <1> DEFINE kept == IF rows[e] # None THEN rows[e] ELSE [r EXCEPT !.at = 0, !.by = 0]
  <1>1. rows \in Rows
    BY DEF Fit
  <1>2. Append(rows, e, r) = [rows EXCEPT ![e] = kept]
    BY DEF Append
  <1>3. x = e => kept = rows[x]
    OBVIOUS
  <1> HIDE DEF kept
  <1> QED BY <1>1, <1>2, <1>3 DEF Rows

LEMMA ToldFit ==
  ASSUME NEW k \in {"entry", "lifecycle"}, NEW e \in Entry, NEW A, NEW row, FitRow(e, row, A)
  PROVE  Told(k, e, row) \in Delta /\ FitRow(Told(k, e, row).entry, Told(k, e, row).row, A)
PROOF
  <1>1. Told(k, e, row) \in Delta
    BY DEF Told, FitRow, Delta
  <1>2. Told(k, e, row).entry = e /\ Told(k, e, row).row = row
    BY DEF Told
  <1> QED BY <1>1, <1>2

(* What a change-list verb appends and tells, once its claim is counted.       *)
LEMMA AppendedFit ==
  ASSUME NEW A, NEW B, A \subseteq B, NEW rows, Fit(rows, A), NEW e \in Entry, NEW r \in Row,
         Asserts(rows, e, r) \subseteq B
  PROVE  /\ Fit(Append(rows, e, r), B)
         /\ LET m == Told("entry", e, Appended(rows, e, r))
            IN m \in Delta /\ FitRow(m.entry, m.row, B)
PROOF
  <1>1. Fit(rows, B)
    BY FitGrows
  <1>2. rows[e] = None /\ r.state = "approved" => e \in B
    BY DEF Asserts
  <1>3. Fit(Append(rows, e, r), B)
    BY <1>1, <1>2, AppendFit
  <1>4. FitRow(e, Appended(rows, e, r), B)
    BY <1>1, <1>2 DEF Appended, Fit, FitRow
  <1>5. LET m == Told("entry", e, Appended(rows, e, r))
        IN m \in Delta /\ FitRow(m.entry, m.row, B)
    BY <1>4, ToldFit
  <1> QED BY <1>3, <1>5

LEMMA DecidedFit ==
  ASSUME NEW A, NEW rows, Fit(rows, A), NEW e \in Entry, rows[e] # None,
         NEW d \in {"approve", "reject", "edit"}, d = "edit" => e \in Op,
         NEW at \in Nat \ {0}, ApprovedBy(e, d) \subseteq A
  PROVE  Fit(Decided(rows, e, d, at), A)
PROOF
  <1>1. Human \in Nat
    BY NameAssumption
  <1>2. {"approved", "rejected", "superseded"} \subseteq EntryState
    BY DEF EntryState
  <1>3. CASE d = "reject"
    <2>1. Fit(Move(rows, e, "rejected", FALSE, at, Human), A)
      BY <1>1, <1>2, MoveFit
    <2> QED BY <1>3, <2>1 DEF Decided
  <1>4. CASE d = "approve"
    <2>1. e \in A
      BY <1>4 DEF ApprovedBy
    <2>2. Fit(Move(rows, e, "approved", TRUE, at, Human), A)
      BY <1>1, <1>2, <2>1, MoveFit
    <2> QED BY <1>4, <2>2 DEF Decided
  <1>5. CASE d = "edit"
    <2> DEFINE o == Edit[e]
               added == Append(rows, o, Fresh)
               moved == Move(added, e, "superseded", FALSE, at, Human)
    <2>1. o \in Entry /\ o \in A
      BY <1>5, EntryAssumption DEF ApprovedBy, Entry
    <2>2. Fit(added, A) /\ added[o] # None
      BY <2>1, FreshRow, AppendFit
    <2>3. added[e] # None
      <3>1. rows \in Rows
        BY DEF Fit
      <3>2. CASE e = o
        BY <2>2, <3>2
      <3>3. CASE e # o
        BY <3>1, <3>3 DEF Append, Rows
      <3> QED BY <3>2, <3>3
    <2> HIDE DEF added, o
    <2>4. Fit(moved, A) /\ moved[o] # None
      <3>1. Fit(moved, A)
        BY <1>1, <1>2, <2>2, <2>3, MoveFit
      <3>2. added \in Rows /\ added[e] \in Row
        BY <2>2, <2>3 DEF Fit, FitRow
      <3>3. moved[o] # None
        BY <1>1, <1>2, <2>1, <2>2, <3>2, MoveKeeps
      <3> QED BY <3>1, <3>3
    <2> HIDE DEF moved
    <2>5. Fit(Move(moved, o, "approved", TRUE, at, Human), A)
      BY <1>1, <1>2, <2>1, <2>4, MoveFit
    <2> QED BY <1>5, <2>5 DEF Decided, SupersedeBy, moved, added, o
  <1> QED BY <1>3, <1>4, <1>5

LEMMA StampFit ==
  ASSUME NEW A, NEW rows, Fit(rows, A), NEW at \in Nat \ {0}
  PROVE  Fit(Stamp(rows, at), A)
PROOF
  <1> DEFINE out == Stamp(rows, at)
  <1>1. rows \in Rows
    BY DEF Fit
  <1>2. SUFFICES ASSUME NEW e \in Entry
                 PROVE  /\ out[e] \in Row \cup {None}
                        /\ out[e] # None => FitRow(e, out[e], A)
    BY DEF Fit, Rows, Stamp
  <1>3. CASE e \in active_entries(rows) /\ ~rows[e].stamped
    <2>1. rows[e] # None
      BY <1>3 DEF active_entries, Held
    <2>2. FitRow(e, rows[e], A)
      BY <2>1 DEF Fit
    <2>3. out[e] = [rows[e] EXCEPT !.stamped = TRUE, !.at = at]
      BY <1>3 DEF Stamp
    <2>4. out[e] \in Row /\ out[e].at = at /\ out[e].state = rows[e].state
      BY <2>2, <2>3 DEF FitRow, Row
    <2> QED BY <2>2, <2>4 DEF FitRow
  <1>4. CASE ~(e \in active_entries(rows) /\ ~rows[e].stamped)
    <2>1. out[e] = rows[e]
      BY <1>4 DEF Stamp
    <2> QED BY <1>1, <2>1 DEF Fit, Rows
  <1> QED BY <1>3, <1>4

LEMMA MergeFit ==
  ASSUME NEW A, NEW W, NEW e \in Entry, NEW in, NEW cur,
         FitRow(e, in, A), RecordedRow(e, in, W), FitRow(e, cur, A), RecordedRow(e, cur, W)
  PROVE  FitRow(e, Merge(in, cur), A) /\ RecordedRow(e, Merge(in, cur), W)
PROOF
  <1>1. CASE lww_wins(in, cur)
    <2> DEFINE out == [in EXCEPT !.stamped = in.stamped \/ cur.stamped]
    <2>1. in \in Row /\ cur \in Row
      BY DEF FitRow
    <2>2. out \in Row /\ out.at = in.at /\ out.state = in.state /\ out.active = in.active
      BY <2>1 DEF Row
    <2>3. Merge(in, cur) = out
      BY <1>1 DEF Merge
    <2> HIDE DEF out
    <2>4. FitRow(e, out, A) /\ RecordedRow(e, out, W)
      BY <2>2 DEF FitRow, RecordedRow, Record
    <2> QED BY <2>3, <2>4
  <1>2. CASE ~lww_wins(in, cur)
    BY <1>2 DEF Merge
  <1> QED BY <1>1, <1>2

(* Whatever a replica sends, the row that is kept is as fit as both.           *)
LEMMA ApplyFit ==
  ASSUME NEW A, NEW W, NEW e \in Entry, NEW in, NEW cur,
         in # None => FitRow(e, in, A) /\ RecordedRow(e, in, W),
         cur # None => FitRow(e, cur, A) /\ RecordedRow(e, cur, W),
         NEW out,
         out = apply_entry(in, cur) \/ (in # None /\ out = apply_lifecycle(in, cur))
  PROVE  /\ out \in Row \cup {None}
         /\ out # None => FitRow(e, out, A) /\ RecordedRow(e, out, W)
PROOF
  <1>1. in # None /\ cur # None =>
          FitRow(e, Merge(in, cur), A) /\ RecordedRow(e, Merge(in, cur), W)
    BY MergeFit
  <1>2. out # None => FitRow(e, out, A) /\ RecordedRow(e, out, W)
    BY <1>1 DEF apply_entry, apply_lifecycle
  <1> QED BY <1>2 DEF FitRow

-------------------------------------------------------------------------------
(* The rows, the messages and the renders *)

LEMMA ChangedType ==
  ASSUME NEW p \in Device, NEW A, NEW rows, Fit(rows, A)
  PROVE  Changed(p, rows) \subseteq Write
PROOF
  <1> SUFFICES ASSUME NEW e \in Held(rows) PROVE Record(e, rows[e]) \in Write
    BY DEF Changed
  <1>1. e \in Entry /\ rows[e] \in Row
    BY DEF Held, Fit, FitRow
  <1> QED BY <1>1 DEF Record, Row, Write

(* A local change keeps the rows fit if it records what it writes. *)
LEMMA ChangeKeeps ==
  ASSUME RowsPart, NEW p \in Device, NEW rows, entries' = [entries EXCEPT ![p] = rows],
         wrote \cup Changed(p, rows) \subseteq wrote', wrote' \subseteq Write,
         Given \subseteq Given', approvals' \cup asserted' \subseteq Entry,
         Fit(rows, Given')
  PROVE  RowsPart'
PROOF
  <1>1. entries \in [Device -> Rows] /\ rows \in Rows
    BY DEF Fit, RowsPart
  <1>2. entries' \in [Device -> Rows]
    BY <1>1
  <1>3. Recorded(rows, wrote')
    <2> SUFFICES ASSUME NEW e \in Entry, rows[e] # None
                 PROVE  Record(e, rows[e]) \in wrote'
      BY DEF Recorded, RecordedRow
    <2>1. CASE rows[e] # entries[p][e]
      BY <2>1 DEF Changed, Held
    <2>2. CASE rows[e] = entries[p][e]
      <3>1. Record(e, rows[e]) \in wrote
        BY <2>2 DEF RowsPart, Recorded, RecordedRow
      <3> QED BY <3>1
    <2> QED BY <2>1, <2>2
  <1>4. ASSUME NEW q \in Device PROVE Fit(entries'[q], Given') /\ Recorded(entries'[q], wrote')
    <2>1. CASE q = p
      BY <1>1, <1>3, <2>1
    <2>2. CASE q # p
      <3>1. entries'[q] = entries[q]
        BY <1>1, <2>2
      <3>2. Fit(entries[q], Given')
        BY FitGrows DEF RowsPart
      <3>3. Recorded(entries[q], wrote')
        BY DEF RowsPart, Recorded, RecordedRow
      <3> QED BY <3>1, <3>2, <3>3
    <2> QED BY <2>1, <2>2
  <1> QED BY <1>2, <1>4 DEF RowsPart

LEMMA StoreRowsKeeps ==
  ASSUME RowsPart, NEW p \in Device, NEW rows, StoreRows(p, rows),
         Given \subseteq Given', approvals' \cup asserted' \subseteq Entry, Fit(rows, Given')
  PROVE  RowsPart' /\ wrote \subseteq wrote'
PROOF
  <1>1. wrote' = wrote \cup Changed(p, rows) /\ entries' = [entries EXCEPT ![p] = rows]
    BY DEF StoreRows
  <1>2. wrote' \subseteq Write
    BY <1>1, ChangedType DEF RowsPart
  <1> QED BY <1>1, <1>2, ChangeKeeps

(* Messages and renders stay fit while the histories grow. *)
LEMMA HistoryGrows ==
  ASSUME DeltaPart, RenderPart, wrote \subseteq wrote', Given \subseteq Given'
  PROVE  /\ UNCHANGED deltas => DeltaPart'
         /\ UNCHANGED render => RenderPart'
PROOF
  <1> DEFINE B == Given'
  <1>1. Given \subseteq B
    OBVIOUS
  <1> HIDE DEF B
  <1>2. \A d \in deltas : FitRow(d.entry, d.row, B) /\ RecordedRow(d.entry, d.row, wrote')
    BY <1>1 DEF DeltaPart, FitRow, RecordedRow
  <1>3. \A p \in Device : render[p] # None => render[p].ops \subseteq B
    BY <1>1 DEF RenderPart
  <1>4. UNCHANGED deltas => DeltaPart'
    BY <1>2 DEF DeltaPart, B
  <1>5. UNCHANGED render => RenderPart'
    BY <1>3 DEF RenderPart, B
  <1> QED BY <1>4, <1>5

(* What the group is told is as fit as what is stored, and recorded too.       *)
LEMMA PublishKeeps ==
  ASSUME RowInv, NEW p \in Device, NEW rows, NEW messages, Publish(p, rows, messages),
         Given \subseteq Given', approvals' \cup asserted' \subseteq Entry, Fit(rows, Given'),
         \A m \in messages : m \in Delta /\ FitRow(m.entry, m.row, Given')
  PROVE  RowInv'
PROOF
  <1> DEFINE told == {Record(m.entry, m.row) : m \in messages}
             B == Given'
  <1>1. /\ wrote' = wrote \cup Changed(p, rows) \cup told
        /\ entries' = [entries EXCEPT ![p] = rows]
        /\ deltas' = deltas \cup messages /\ render' = render
    BY DEF Publish
  <1>2. told \subseteq Write
    <2> SUFFICES ASSUME NEW m \in messages PROVE Record(m.entry, m.row) \in Write
      OBVIOUS
    <2> QED BY DEF Delta, Record, Row, Write
  <1>3. \A m \in messages : Record(m.entry, m.row) \in wrote'
    BY <1>1
  <1> HIDE DEF told
  <1>4. wrote' \subseteq Write
    BY <1>1, <1>2, ChangedType DEF RowInv, RowsPart
  <1>5. RowsPart'
    BY <1>1, <1>4, ChangeKeeps DEF RowInv
  <1>6. Given \subseteq B /\ \A m \in messages : m \in Delta /\ FitRow(m.entry, m.row, B)
    OBVIOUS
  <1> HIDE DEF B
  <1>7. \A d \in deltas : FitRow(d.entry, d.row, B) /\ RecordedRow(d.entry, d.row, wrote')
    BY <1>1, <1>6 DEF RowInv, DeltaPart, FitRow, RecordedRow
  <1>8. \A m \in messages : FitRow(m.entry, m.row, B) /\ RecordedRow(m.entry, m.row, wrote')
    BY <1>3, <1>6 DEF RecordedRow
  <1>9. deltas' \subseteq Delta
    BY <1>1, <1>6 DEF RowInv, DeltaPart
  <1>10. DeltaPart'
    BY <1>1, <1>7, <1>8, <1>9 DEF DeltaPart, B
  <1>11. RenderPart'
    BY <1>1, HistoryGrows DEF RowInv
  <1> QED BY <1>5, <1>10, <1>11 DEF RowInv

LEMMA SnapshotKeeps ==
  ASSUME RowsPart, RestInv, NEW p \in Device, snapshot(p), UNCHANGED given
  PROVE  RowsPart' /\ wrote \subseteq wrote' /\ Given' = Given
PROOF
  <1>1. Fit(entries[p], Given) /\ Clock(p) \in Nat \ {0}
    BY ClockType DEF RowsPart
  <1>2. Given' = Given
    BY DEF Given, given
  <1>3. Fit(Stamp(entries[p], Clock(p)), Given)
    BY <1>1, StampFit
  <1>4. approvals' \cup asserted' \subseteq Entry
    BY DEF given, RowsPart
  <1>5. StoreRows(p, Stamp(entries[p], Clock(p)))
    BY DEF snapshot
  <1> QED BY <1>2, <1>3, <1>4, <1>5, StoreRowsKeeps

(* Transitions that publish or conform. *)
LEMMA MachineRows ==
  ASSUME RowInv, RestInv, NEW p \in Device,
         snapshot(p) \/ UNCHANGED <<entries, wrote>>, UNCHANGED deltas, UNCHANGED given
  PROVE  RowsPart' /\ DeltaPart' /\ (UNCHANGED render => RenderPart')
PROOF
  <1>1. RowsPart' /\ wrote \subseteq wrote' /\ Given' = Given
    <2>1. CASE snapshot(p)
      BY <2>1, SnapshotKeeps DEF RowInv
    <2>2. CASE UNCHANGED <<entries, wrote>>
      BY <2>2 DEF RowInv, RowsPart, Given, given
    <2> QED BY <2>1, <2>2
  <1> QED BY <1>1, HistoryGrows DEF RowInv

(* Local changes that are not gossiped. *)
LEMMA QuietRows ==
  ASSUME RowInv, NEW p \in Device, NEW rows, StoreRows(p, rows),
         Given \subseteq Given', approvals' \cup asserted' \subseteq Entry, Fit(rows, Given'),
         UNCHANGED <<deltas, render>>
  PROVE  RowInv'
PROOF
  <1>1. RowsPart' /\ wrote \subseteq wrote'
    BY StoreRowsKeeps DEF RowInv
  <1> QED BY <1>1, HistoryGrows DEF RowInv

-------------------------------------------------------------------------------
(* Every action keeps the rows *)

LEMMA EntryOps == Op \subseteq Entry /\ Note \subseteq Entry /\ AgentOps \subseteq Entry
BY EntryAssumption DEF Entry

(* An entry that does not claim an approval may be appended by anyone.         *)
LEMMA AppendRows ==
  ASSUME RowInv, NEW p \in Device, NEW e \in Entry, NEW r \in Row, r.state = "proposed",
         StoreRows(p, Append(entries[p], e, r)), UNCHANGED <<deltas, render>>, UNCHANGED given
  PROVE  RowInv'
PROOF
  <1>1. Fit(entries[p], Given) /\ approvals \cup asserted \subseteq Entry
    BY DEF RowInv, RowsPart
  <1>2. Given' = Given /\ approvals' \cup asserted' \subseteq Entry
    BY <1>1 DEF Given, given
  <1>3. Fit(Append(entries[p], e, r), Given)
    BY <1>1, AppendFit
  <1> QED BY <1>2, <1>3, QuietRows

LEMMA ApprovedByType ==
  ASSUME NEW e \in Entry, NEW d \in {"approve", "reject", "edit"}, d = "edit" => e \in Op
  PROVE  ApprovedBy(e, d) \subseteq Entry
PROOF
  <1>1. d = "edit" => Edit[e] \in Op
    BY EntryAssumption
  <1> QED BY <1>1, EntryOps DEF ApprovedBy

LEMMA ConfirmRows ==
  ASSUME RowInv, RestInv, NEW p \in Device, NEW e \in Entry,
         NEW d \in {"approve", "reject", "edit"}, NEW actor, Confirm(p, e, d, actor),
         UNCHANGED <<deltas, render>>
  PROVE  RowInv'
PROOF
  <1>1. actor = "human"
    BY DEF Confirm, enforce_gate
  <1>2. approvals' = approvals \cup ApprovedBy(e, d) /\ asserted' = asserted
    BY <1>1 DEF Confirm
  <1>3. entries[p][e] # None /\ (d = "edit" => e \in Op)
    BY DEF Confirm
  <1>4. ApprovedBy(e, d) \subseteq Entry
    BY <1>3, ApprovedByType
  <1>5. Given' = Given \cup ApprovedBy(e, d)
    BY <1>2 DEF Given
  <1>6. Fit(entries[p], Given')
    BY <1>5, FitGrows DEF RowInv, RowsPart
  <1>7. Clock(p) \in Nat \ {0} /\ ApprovedBy(e, d) \subseteq Given'
    BY <1>5, ClockType
  <1>8. Fit(Decided(entries[p], e, d, Clock(p)), Given')
    BY <1>3, <1>6, <1>7, DecidedFit
  <1>9. StoreRows(p, Decided(entries[p], e, d, Clock(p)))
    BY DEF Confirm
  <1>10. approvals' \cup asserted' \subseteq Entry /\ Given \subseteq Given'
    BY <1>2, <1>4, <1>5 DEF RowInv, RowsPart
  <1> QED BY <1>8, <1>9, <1>10, QuietRows

LEMMA BatchRows ==
  ASSUME RowInv, RestInv, NEW p \in Device, NEW actor, approve_all_mechanical(p, actor)
  PROVE  RowInv'
PROOF
  <1> DEFINE open == {o \in Op \cap Held(entries[p]) :
                        entries[p][o].active /\ entries[p][o].state = "proposed"}
             rows == [e \in Entry |->
               IF e \in open THEN Move(entries[p], e, "approved", TRUE, Clock(p), Human)[e]
               ELSE entries[p][e]]
  <1>1. StoreRows(p, rows) /\ approvals' = approvals \cup open /\ asserted' = asserted
    BY DEF approve_all_mechanical, enforce_gate
  <1>a. Given' = Given \cup open
    BY <1>1 DEF Given
  <1>2. open \subseteq Entry
    BY DEF Held
  <1>3. Fit(entries[p], Given')
    BY <1>a, FitGrows DEF RowInv, RowsPart
  <1>4. Fit(rows, Given')
    <2> SUFFICES ASSUME NEW e \in Entry
                 PROVE  /\ rows[e] \in Row \cup {None}
                        /\ rows[e] # None => FitRow(e, rows[e], Given')
      BY DEF Fit, Rows
    <2>1. CASE e \in open
      <3> DEFINE moved == Move(entries[p], e, "approved", TRUE, Clock(p), Human)
      <3>1. entries[p][e] # None /\ e \in Given'
        BY <1>a, <2>1 DEF Held
      <3>2. /\ Clock(p) \in Nat \ {0} /\ Human \in Nat /\ "approved" \in EntryState
        BY ClockType, NameAssumption DEF EntryState
      <3>3. Fit(moved, Given')
        BY <1>3, <3>1, <3>2, MoveFit
      <3>4. rows[e] = moved[e]
        BY <2>1
      <3> HIDE DEF moved, rows, open
      <3> QED BY <3>3, <3>4 DEF Fit, Rows
    <2>2. CASE e \notin open
      <3>1. rows[e] = entries[p][e]
        BY <2>2
      <3> HIDE DEF rows, open
      <3> QED BY <1>3, <3>1 DEF Fit, Rows
    <2> QED BY <2>1, <2>2
  <1>5. approvals' \cup asserted' \subseteq Entry /\ Given \subseteq Given'
    BY <1>1, <1>2, <1>a DEF RowInv, RowsPart
  <1>6. UNCHANGED <<deltas, render>>
    BY DEF approve_all_mechanical, news
  <1> HIDE DEF open, rows
  <1> QED BY <1>1, <1>4, <1>5, <1>6, QuietRows

(* A move by a change-list verb, told to the group. *)
LEMMA MovePublished ==
  ASSUME RowInv, RestInv, NEW p \in Device, NEW e \in Entry, entries[p][e] # None,
         NEW s \in EntryState, NEW a \in BOOLEAN, NEW by \in Editors, NEW rows,
         rows = Move(entries[p], e, s, a, Clock(p), by),
         Publish(p, rows, {Told("lifecycle", e, rows[e])}),
         asserted \subseteq asserted', asserted' \subseteq Entry,
         s = "approved" => e \in Given'
  PROVE  RowInv'
PROOF
  <1> DEFINE B == Given'
  <1>1. approvals' = approvals
    BY DEF Publish
  <1>2. Given \subseteq B /\ approvals' \cup asserted' \subseteq Entry
    BY <1>1 DEF Given, RowInv, RowsPart
  <1>3. s = "approved" => e \in B
    OBVIOUS
  <1> HIDE DEF B
  <1>4. Fit(entries[p], B)
    BY <1>2, FitGrows DEF RowInv, RowsPart
  <1>5. entries[p] \in Rows /\ entries[p][e] \in Row
    BY <1>4 DEF Fit, FitRow
  <1>6. Clock(p) \in Nat \ {0} /\ by \in Nat
    BY ClockType, NameAssumption
  <1>7. Fit(rows, B)
    BY <1>3, <1>4, <1>6, MoveFit
  <1>8. rows[e] # None
    BY <1>5, <1>6, MoveKeeps
  <1>9. FitRow(e, rows[e], B)
    BY <1>7, <1>8 DEF Fit
  <1>10. \A m \in {Told("lifecycle", e, rows[e])} : m \in Delta /\ FitRow(m.entry, m.row, B)
    BY <1>9, ToldFit
  <1> QED BY <1>2, <1>7, <1>10, PublishKeeps DEF B

LEMMA ListRows ==
  ASSUME RowInv, RestInv, NEW p \in Device, List(p)
  PROVE  RowInv'
PROOF
  <1>1. Fit(entries[p], Given) /\ approvals \cup asserted \subseteq Entry
    BY DEF RowInv, RowsPart
  <1>2. Sent \subseteq Row /\ Verdicts \subseteq EntryState
    BY SentAssumption
  <1>3. ASSUME NEW e \in Entry, NEW row \in Sent, append(p, e, row) PROVE RowInv'
    <2> DEFINE rows == Append(entries[p], e, row)
               m == Told("entry", e, Appended(entries[p], e, row))
    <2>1. Publish(p, rows, {m}) /\ asserted' = asserted \cup Asserts(entries[p], e, row)
      BY <1>3 DEF append
    <2>2. approvals' = approvals
      BY <2>1 DEF Publish
    <2> HIDE DEF rows, m
    <2>3. /\ Given \subseteq Given' /\ approvals' \cup asserted' \subseteq Entry
          /\ Asserts(entries[p], e, row) \subseteq Given'
      BY <1>1, <2>1, <2>2 DEF Given, Asserts
    <2>4. Fit(rows, Given') /\ m \in Delta /\ FitRow(m.entry, m.row, Given')
      BY <1>1, <1>2, <2>3, AppendedFit DEF rows, m
    <2> QED BY <2>1, <2>3, <2>4, PublishKeeps
  <1>4. ASSUME NEW e \in Entry, NEW by \in Editors, NEW s \in Verdicts, set_state(p, e, s, by)
        PROVE  RowInv'
    <2> DEFINE a == entries[p][e].active
               rows == Move(entries[p], e, s, a, Clock(p), by)
    <2>1. /\ entries[p][e] # None /\ Publish(p, rows, {Told("lifecycle", e, rows[e])})
          /\ asserted' = asserted \cup (IF s = "approved" THEN {e} ELSE {})
      BY <1>4 DEF set_state
    <2>2. entries[p][e] \in Row
      BY <1>1, <2>1 DEF Fit, FitRow
    <2>3. a \in BOOLEAN /\ s \in EntryState
      BY <1>2, <2>2 DEF Row
    <2>4. /\ asserted \subseteq asserted' /\ asserted' \subseteq Entry
          /\ s = "approved" => e \in Given'
      BY <1>1, <2>1 DEF Given
    <2> HIDE DEF a
    <2> DEFINE out == rows
    <2>5. out = Move(entries[p], e, s, a, Clock(p), by)
      OBVIOUS
    <2>6. Publish(p, out, {Told("lifecycle", e, out[e])})
      BY <2>1
    <2> HIDE DEF rows, out
    <2> QED BY <2>1, <2>3, <2>4, <2>5, <2>6, MovePublished
  <1>5. ASSUME NEW e \in Entry, NEW by \in Editors, NEW act \in BOOLEAN,
               set_active(p, e, act, by)
        PROVE  RowInv'
    <2> DEFINE s == entries[p][e].state
               rows == Move(entries[p], e, s, act, Clock(p), by)
    <2>1. /\ entries[p][e] # None /\ Publish(p, rows, {Told("lifecycle", e, rows[e])})
          /\ asserted' = asserted
      BY <1>5 DEF set_active
    <2>2. FitRow(e, entries[p][e], Given) /\ approvals' = approvals
      BY <1>1, <2>1 DEF Fit, Publish
    <2>3. s \in EntryState /\ (s = "approved" => e \in Given')
      BY <2>1, <2>2 DEF FitRow, Row, Given
    <2>4. asserted \subseteq asserted' /\ asserted' \subseteq Entry
      BY <1>1, <2>1
    <2> HIDE DEF s
    <2>5. \E out : /\ out = Move(entries[p], e, s, act, Clock(p), by)
                   /\ Publish(p, out, {Told("lifecycle", e, out[e])})
      BY <2>1
    <2> HIDE DEF rows
    <2> QED BY <2>1, <2>3, <2>4, <2>5, MovePublished
  <1>6. ASSUME NEW e \in Entry, NEW o \in Op, NEW row \in Sent, NEW by \in Editors,
               supersede(p, e, o, row, by)
        PROVE  RowInv'
    <2> DEFINE new == [row EXCEPT !.active = TRUE]
               added == Append(entries[p], o, new)
               rows == Move(added, e, "superseded", FALSE, Clock(p), by)
               m1 == Told("entry", o, Appended(entries[p], o, new))
               m2 == Told("lifecycle", e, rows[e])
    <2>1. /\ entries[p][e] # None /\ Publish(p, rows, {m1, m2})
          /\ asserted' = asserted \cup Asserts(entries[p], o, new)
      BY <1>6 DEF supersede
    <2>2. o \in Entry /\ by \in Nat /\ "superseded" \in EntryState /\ new \in Row
      BY <1>2, NameAssumption DEF Entry, EntryState, Row
    <2>3. approvals' = approvals
      BY <2>1 DEF Publish
    <2> HIDE DEF new
    <2>4. /\ Given \subseteq Given' /\ approvals' \cup asserted' \subseteq Entry
          /\ Asserts(entries[p], o, new) \subseteq Given'
      BY <1>1, <2>1, <2>2, <2>3 DEF Given, Asserts
    <2>5. Fit(added, Given') /\ m1 \in Delta /\ FitRow(m1.entry, m1.row, Given')
      BY <1>1, <2>2, <2>4, AppendedFit
    <2>6. added[e] # None
      BY <1>1, <2>1, <2>2, AppendHolds
    <2> HIDE DEF added, m1
    <2>7. Clock(p) \in Nat \ {0}
      BY ClockType
    <2>8. Fit(rows, Given')
      BY <2>2, <2>5, <2>6, <2>7, MoveFit
    <2>9. rows[e] # None
      <3>1. added \in Rows /\ added[e] \in Row
        BY <2>5, <2>6 DEF Fit, FitRow
      <3> QED BY <2>2, <2>6, <2>7, <3>1, MoveKeeps
    <2> HIDE DEF rows
    <2>10. FitRow(e, rows[e], Given')
      BY <2>8, <2>9 DEF Fit
    <2>11. m2 \in Delta /\ FitRow(m2.entry, m2.row, Given')
      BY <2>10, ToldFit
    <2> HIDE DEF m2
    <2>12. \A m \in {m1, m2} : m \in Delta /\ FitRow(m.entry, m.row, Given')
      BY <2>5, <2>11
    <2> QED BY <2>1, <2>4, <2>8, <2>12, PublishKeeps
  <1>7. CASE take_version(p)
    <2>1. snapshot(p) /\ UNCHANGED <<render, deltas>> /\ UNCHANGED given
      BY <1>7 DEF take_version
    <2>2. RowsPart' /\ wrote \subseteq wrote' /\ Given' = Given
      BY <2>1, SnapshotKeeps DEF RowInv
    <2> QED BY <2>1, <2>2, HistoryGrows DEF RowInv
  <1> QED BY <1>3, <1>4, <1>5, <1>6, <1>7 DEF List

LEMMA LedgerRows ==
  ASSUME RowInv, RestInv, NEW p \in Device, Ledger(p)
  PROVE  RowInv'
PROOF
  <1>1. ASSUME NEW n \in Note, ingest_sense_result(p, n) PROVE RowInv'
    BY <1>1, FreshRow, AppendRows, EntryOps DEF ingest_sense_result, news
  <1>2. ASSUME NEW o \in AgentOps, NEW row \in Sent, propose_op(p, o, row) PROVE RowInv'
    <2>1. Proposed(row) \in Row /\ Proposed(row).state = "proposed"
      BY SentAssumption DEF Proposed, Row, EntryState
    <2> QED BY <1>2, <2>1, AppendRows, EntryOps DEF propose_op, news
  <1>3. ASSUME NEW n \in Note, NEW o \in Op \ AgentOps, NEW a \in Actor,
               escalate_note(p, n, o, a)
        PROVE  RowInv'
    BY <1>3, FreshRow, AppendRows, EntryOps DEF escalate_note, news
  <1>4. ASSUME NEW e \in Entry, NEW d \in {"approve", "reject", "edit"}, NEW a \in Actor,
               confirm_op(p, e, d, a)
        PROVE  RowInv'
    BY <1>4, ConfirmRows DEF confirm_op, news
  <1>5. ASSUME NEW e \in Entry, NEW d \in {"approve", "reject", "edit"}, confirm(p, e, d)
        PROVE  RowInv'
    BY <1>5, ConfirmRows DEF confirm, news
  <1>6. ASSUME NEW a \in Actor, approve_all_mechanical(p, a) PROVE RowInv'
    BY <1>6, BatchRows
  <1> QED BY <1>1, <1>2, <1>3, <1>4, <1>5, <1>6 DEF Ledger

LEMMA AdvanceFrame ==
  ASSUME NEW p \in Device, NEW actor \in Actor,
         \/ notes_arrived(p, actor) \/ version_approved(p, actor) \/ confirm_notes(p, actor)
         \/ conform_failed(p, actor) \/ finish(p, actor) \/ delivered(p, actor)
  PROVE  UNCHANGED <<ledgerVars, render, deltas, given>>
BY DEF notes_arrived, version_approved, confirm_notes, conform_failed, finish, delivered, Advance,
       news

LEMMA MachineKeepsRows ==
  ASSUME RowInv, RestInv, NEW p \in Device, Machine(p)
  PROVE  RowInv'
PROOF
  <1>1. CASE start_draft(p)
    BY <1>1, MachineRows DEF start_draft, ledgerVars, news, RowInv
  <1>2. ASSUME NEW a \in Actor,
               \/ notes_arrived(p, a) \/ version_approved(p, a) \/ confirm_notes(p, a)
               \/ conform_failed(p, a) \/ finish(p, a) \/ delivered(p, a)
        PROVE  RowInv'
    BY <1>2, AdvanceFrame, MachineRows DEF ledgerVars, RowInv
  <1>3. ASSUME NEW a \in Actor,
               register_review_media(p, a) \/ publish_draft(p, a) \/ publish_proxy(p, a)
        PROVE  RowInv'
    BY <1>3, MachineRows DEF register_review_media, publish_draft, publish_proxy, news, RowInv
  <1>4. ASSUME NEW a \in Actor, conform_run(p, a), UNCHANGED render PROVE RowInv'
    BY <1>4, MachineRows DEF conform_run, news, RowInv
  <1> QED BY <1>1, <1>2, <1>3, <1>4 DEF Machine

LEMMA ConformRows ==
  ASSUME RowInv, RestInv, NEW p \in Device, Conform(p)
  PROVE  RowInv'
PROOF
  <1>1. CASE conform_proxy_plan(p)
    <2> DEFINE new == [ops |-> approved_ops(entries[p])]
    <2>1. RowsPart' /\ DeltaPart'
      BY <1>1 DEF conform_proxy_plan, store, news, RowInv, RowsPart, DeltaPart, Given, given
    <2>2. approved_ops(entries[p]) \subseteq Given
      BY DEF RowInv, RowsPart, Fit, FitRow, approved_ops, Held
    <2>3. new \in Render /\ new.ops \subseteq Given
      BY <2>2 DEF Render, approved_ops
    <2>4. render' = [render EXCEPT ![p] = new] /\ Given' = Given
      BY <1>1 DEF conform_proxy_plan, Given, given
    <2> HIDE DEF new
    <2>5. RenderPart'
      BY <2>3, <2>4 DEF RowInv, RenderPart
    <2> QED BY <2>1, <2>5 DEF RowInv
  <1>2. CASE conform_proxy_commit(p)
    <2>1. RowsPart' /\ DeltaPart'
      BY <1>2, MachineRows DEF conform_proxy_commit, conform_run, news
    <2>a. Given' = Given
      BY <1>2 DEF conform_proxy_commit, conform_run, Given, given
    <2>2. render' = [render EXCEPT ![p] = None]
      BY <1>2 DEF conform_proxy_commit
    <2>3. RenderPart'
      BY <2>a, <2>2 DEF RowInv, RenderPart
    <2> QED BY <2>1, <2>3 DEF RowInv
  <1>3. CASE RenderLost(p)
    <2>1. RowsPart' /\ DeltaPart'
      BY <1>3 DEF RenderLost, store, news, RowInv, RowsPart, DeltaPart, Given, given
    <2>2. render' = [render EXCEPT ![p] = None] /\ Given' = Given
      BY <1>3 DEF RenderLost, Given, given
    <2>3. RenderPart'
      BY <2>2 DEF RowInv, RenderPart
    <2> QED BY <2>1, <2>3 DEF RowInv
  <1> QED BY <1>1, <1>2, <1>3 DEF Conform

LEMMA ReplicaRows ==
  ASSUME RowInv, NEW p \in Device, NEW rows,
         entries' = [entries EXCEPT ![p] = rows], rows \in Rows,
         \A e \in Entry : rows[e] # None =>
            FitRow(e, rows[e], Given) /\ RecordedRow(e, rows[e], wrote),
         UNCHANGED <<render, deltas, wrote, given>>
  PROVE  RowInv'
PROOF
  <1>1. Fit(rows, Given) /\ Recorded(rows, wrote)
    BY DEF Fit, Recorded
  <1>2. \A q \in Device : entries'[q] = IF q = p THEN rows ELSE entries[q]
    BY DEF RowInv, RowsPart
  <1>3. entries' \in [Device -> Rows]
    BY DEF RowInv, RowsPart
  <1>4. \A q \in Device : Fit(entries'[q], Given) /\ Recorded(entries'[q], wrote)
    BY <1>1, <1>2 DEF RowInv, RowsPart
  <1>a. Given' = Given
    BY DEF Given, given
  <1>5. RowsPart'
    BY <1>3, <1>4, <1>a DEF RowInv, RowsPart, given
  <1>6. DeltaPart' /\ RenderPart'
    BY <1>a DEF RowInv, DeltaPart, RenderPart
  <1> QED BY <1>5, <1>6 DEF RowInv

LEMMA DeliverRows ==
  ASSUME RowInv, NEW p \in Device, NEW d \in deltas, Deliver(p, d)
  PROVE  RowInv'
PROOF
  <1> DEFINE in == d.row
             cur == entries[p][d.entry]
             out == IF d.kind = "entry" THEN apply_entry(in, cur) ELSE apply_lifecycle(in, cur)
             rows == [entries[p] EXCEPT ![d.entry] = out]
  <1>1. d.entry \in Entry /\ in # None
    BY NoneAssumption DEF RowInv, DeltaPart, Delta
  <1>2. FitRow(d.entry, in, Given) /\ RecordedRow(d.entry, in, wrote)
    BY DEF RowInv, DeltaPart
  <1>3. Fit(entries[p], Given) /\ Recorded(entries[p], wrote)
    BY DEF RowInv, RowsPart
  <1>4. cur # None => FitRow(d.entry, cur, Given) /\ RecordedRow(d.entry, cur, wrote)
    BY <1>1, <1>3 DEF Fit, Recorded
  <1>5. out = apply_entry(in, cur) \/ (in # None /\ out = apply_lifecycle(in, cur))
    BY <1>1
  <1>6. entries' = [entries EXCEPT ![p] = rows]
    BY DEF Deliver
  <1> HIDE DEF in, cur, out
  <1>7. /\ out \in Row \cup {None}
        /\ out # None => FitRow(d.entry, out, Given) /\ RecordedRow(d.entry, out, wrote)
    BY <1>1, <1>2, <1>4, <1>5, ApplyFit
  <1>8. entries[p] \in Rows
    BY <1>3 DEF Fit
  <1>9. rows \in Rows
    BY <1>7, <1>8 DEF Rows
  <1>10. \A e \in Entry : rows[e] # None =>
            FitRow(e, rows[e], Given) /\ RecordedRow(e, rows[e], wrote)
    BY <1>3, <1>7, <1>8 DEF Rows, Fit, Recorded
  <1>11. UNCHANGED <<render, deltas, wrote, given>>
    BY DEF Deliver, news
  <1> HIDE DEF rows
  <1> QED BY <1>6, <1>9, <1>10, <1>11, ReplicaRows

LEMMA RepairRows ==
  ASSUME RowInv, NEW p \in Device, NEW q \in Device, Repair(p, q)
  PROVE  RowInv'
PROOF
  <1> DEFINE rows == [e \in Entry |-> apply_entry(entries[q][e], entries[p][e])]
  <1>1. \A x \in Device : Fit(entries[x], Given) /\ Recorded(entries[x], wrote)
    BY DEF RowInv, RowsPart
  <1>2. ASSUME NEW e \in Entry
        PROVE  /\ rows[e] \in Row \cup {None}
               /\ rows[e] # None => /\ FitRow(e, rows[e], Given)
                                   /\ RecordedRow(e, rows[e], wrote)
    <2>1. \A x \in Device : entries[x][e] # None =>
            /\ FitRow(e, entries[x][e], Given)
            /\ RecordedRow(e, entries[x][e], wrote)
      BY <1>1 DEF Fit, Recorded
    <2>2. rows[e] = apply_entry(entries[q][e], entries[p][e])
      OBVIOUS
    <2> HIDE DEF rows
    <2> QED BY <2>1, <2>2, ApplyFit
  <1>3. entries' = [entries EXCEPT ![p] = rows] /\ UNCHANGED <<render, deltas, wrote, given>>
    BY DEF Repair, news
  <1>4. rows \in Rows
    BY <1>2 DEF Rows
  <1> HIDE DEF rows
  <1> QED BY <1>2, <1>3, <1>4, ReplicaRows

LEMMA RowStep == RowInv /\ RestInv /\ [Next]_vars => RowInv'
PROOF
  <1> SUFFICES ASSUME RowInv, RestInv, [Next]_vars PROVE RowInv'
    OBVIOUS
  <1>1. ASSUME NEW p \in Loopers, Machine(p) PROVE RowInv'
    BY <1>1, MachineKeepsRows, RoleAssumption
  <1>2. ASSUME NEW p \in Loopers, Conform(p) PROVE RowInv'
    BY <1>2, ConformRows, RoleAssumption
  <1>3. ASSUME NEW p \in Device, Ledger(p) PROVE RowInv'
    BY <1>3, LedgerRows
  <1>4. ASSUME NEW p \in Listers, List(p) PROVE RowInv'
    BY <1>4, ListRows, RoleAssumption
  <1>5. ASSUME NEW p \in Device, NEW d \in deltas, Deliver(p, d) PROVE RowInv'
    BY <1>5, DeliverRows
  <1>6. ASSUME NEW p \in Device, NEW q \in Device, Repair(p, q) PROVE RowInv'
    BY <1>6, RepairRows
  <1>9. ASSUME NEW p \in Device, NEW c \in cuts, DeliverVersion(p, c) \/ DeliverHead(p, c)
        PROVE  RowInv'
    BY <1>9
    DEF DeliverVersion, DeliverHead, news, RowInv, RowsPart, DeltaPart, RenderPart, Given, given
  <1>7. CASE Tick
    BY <1>7 DEF Tick, store, news, RowInv, RowsPart, DeltaPart, RenderPart, Given, given
  <1>8. CASE UNCHANGED vars
    BY <1>8 DEF vars, RowInv, RowsPart, DeltaPart, RenderPart, Given, given
  <1> QED BY <1>1, <1>2, <1>3, <1>4, <1>5, <1>6, <1>7, <1>8, <1>9 DEF Next

-------------------------------------------------------------------------------
(* The machine and its gates *)

LEMMA PutGate ==
  ASSUME LoopInv, RestInv, NEW p \in Device, NEW s \in LoopState, NEW r \in 0 .. MaxRounds,
         put_state(p, s, r), gates \subseteq gates', gates' \subseteq Gates,
         s # "DRAFT" => <<"publish", r>> \in gates',
         s = "CONFORMING" => <<"confirm", r>> \in gates',
         s \in {"FINISHING", "DELIVERED"} => <<"finish", r>> \in gates'
  PROVE  LoopInv'
PROOF
  <1> DEFINE new == [state |-> s, round |-> r, at |-> Clock(p)]
  <1>1. review' = [review EXCEPT ![p] = new] /\ review \in [Device -> Loops \cup {None}]
    BY DEF put_state, LoopInv
  <1>2. new \in Loops
    BY ClockType DEF Loops
  <1>3. new.state = s /\ new.round = r
    OBVIOUS
  <1> HIDE DEF new
  <1>4. review' \in [Device -> Loops \cup {None}]
    BY <1>1, <1>2
  <1>5. GateRow(new, gates')
    BY <1>3 DEF GateRow
  <1>6. ASSUME NEW q \in Device PROVE GateRow(review'[q], gates')
    <2>1. CASE q = p
      BY <1>1, <1>5, <2>1
    <2>2. CASE q # p
      <3>1. review'[q] = review[q]
        BY <1>1, <2>2
      <3>2. GateRow(review[q], gates)
        BY DEF LoopInv
      <3> QED BY <3>1, <3>2 DEF GateRow
    <2> QED BY <2>1, <2>2
  <1> QED BY <1>4, <1>6 DEF LoopInv

LEMMA PassGate ==
  ASSUME LoopInv, NEW p \in Device, NEW gate \in {"auto", "publish", "confirm", "finish"},
         NEW actor, NEW r \in 0 .. MaxRounds, Pass(p, gate, actor, r)
  PROVE  /\ gates \subseteq gates' /\ gates' \subseteq Gates
         /\ gate # "auto" => <<gate, r>> \in gates'
PROOF
  <1>1. CASE gate = "auto"
    BY <1>1 DEF Pass, enforce_gate, LoopInv
  <1>2. CASE gate # "auto"
    <2>1. gates' = gates \cup {<<gate, r>>}
      BY <1>2 DEF Pass, enforce_gate
    <2> QED BY <1>2, <2>1 DEF LoopInv, Gates
  <1> QED BY <1>1, <1>2

(* What the row a transition starts from has behind it. *)
LEMMA FromGate ==
  ASSUME LoopInv, NEW p \in Device, NEW from \in LoopState, In(p, from)
  PROVE  /\ review[p].round \in 0 .. MaxRounds
         /\ from # "DRAFT" => <<"publish", review[p].round>> \in gates
         /\ from = "CONFORMING" => <<"confirm", review[p].round>> \in gates
         /\ from \in {"FINISHING", "DELIVERED"} => <<"finish", review[p].round>> \in gates
PROOF
  <1>1. review[p] # None /\ review[p].state = from
    BY DEF In
  <1>2. review[p] \in Loops /\ GateRow(review[p], gates)
    BY <1>1 DEF LoopInv
  <1>3. review[p].round \in 0 .. MaxRounds
    BY <1>2 DEF Loops
  <1> QED BY <1>1, <1>2, <1>3 DEF GateRow

LEMMA AdvanceLoop ==
  ASSUME LoopInv, RestInv, NEW p \in Device, NEW actor \in Actor,
         \/ notes_arrived(p, actor) \/ version_approved(p, actor) \/ confirm_notes(p, actor)
         \/ conform_failed(p, actor) \/ finish(p, actor) \/ delivered(p, actor)
  PROVE  LoopInv'
PROOF
  <1>1. PICK gate \in {"auto", "confirm", "finish"}, from \in LoopState \ {"DRAFT"},
             to \in LoopState \ {"DRAFT"} :
          /\ Advance(p, actor, gate, from, to)
          /\ to = "CONFORMING" => gate = "confirm"
          /\ to = "FINISHING" => gate = "finish"
          /\ to = "DELIVERED" => from = "FINISHING"
    BY DEF notes_arrived, version_approved, confirm_notes, conform_failed, finish, delivered,
           LoopState
  <1>2. /\ In(p, from) /\ Pass(p, gate, actor, review[p].round)
        /\ put_state(p, to, review[p].round)
    BY <1>1 DEF Advance
  <1>3. /\ review[p].round \in 0 .. MaxRounds
        /\ <<"publish", review[p].round>> \in gates
        /\ from = "FINISHING" => <<"finish", review[p].round>> \in gates
    BY <1>2, FromGate
  <1>4. /\ gates \subseteq gates' /\ gates' \subseteq Gates
        /\ gate # "auto" => <<gate, review[p].round>> \in gates'
    BY <1>2, <1>3, PassGate
  <1> QED BY <1>1, <1>2, <1>3, <1>4, PutGate

LEMMA MachineLoop ==
  ASSUME LoopInv, RestInv, NEW p \in Device, Machine(p)
  PROVE  LoopInv'
PROOF
  <1>0. 0 \in 0 .. MaxRounds
    BY BoundAssumption
  <1>a. {"DRAFT", "IN_REVIEW", "CONFORMING"} \subseteq LoopState
    BY DEF LoopState
  <1>1. CASE start_draft(p)
    <2>1. put_state(p, "DRAFT", 0) /\ gates' = gates
      BY <1>1 DEF start_draft
    <2> QED BY <1>0, <1>a, <2>1, PutGate DEF LoopInv
  <1>2. ASSUME NEW a \in Actor, register_review_media(p, a) PROVE LoopInv'
    <2>1. Pass(p, "publish", a, 0) /\ put_state(p, "IN_REVIEW", 0)
      BY <1>2 DEF register_review_media
    <2> QED BY <1>0, <1>a, <2>1, PassGate, PutGate
  <1>3. ASSUME NEW a \in Actor, publish_draft(p, a) PROVE LoopInv'
    <2>1. /\ In(p, "DRAFT") /\ Pass(p, "publish", a, review[p].round)
          /\ put_state(p, "IN_REVIEW", review[p].round)
      BY <1>3 DEF publish_draft
    <2>2. review[p].round \in 0 .. MaxRounds
      BY <1>a, <2>1, FromGate
    <2> QED BY <1>a, <2>1, <2>2, PassGate, PutGate
  <1>4. ASSUME NEW a \in Actor, publish_proxy(p, a) PROVE LoopInv'
    <2>1. /\ In(p, "CONFORMING") /\ Pass(p, "publish", a, review[p].round + 1)
          /\ put_state(p, "IN_REVIEW", review[p].round + 1)
          /\ review[p].round + 1 <= MaxRounds
      BY <1>4 DEF publish_proxy
    <2>2. review[p].round \in 0 .. MaxRounds
      BY <1>a, <2>1, FromGate
    <2>3. review[p].round + 1 \in 0 .. MaxRounds
      BY <2>1, <2>2, BoundAssumption
    <2> QED BY <1>a, <2>1, <2>3, PassGate, PutGate
  <1>5. ASSUME NEW a \in Actor, conform_run(p, a) PROVE LoopInv'
    <2>1. /\ In(p, "CONFORMING") /\ Pass(p, "auto", a, review[p].round)
          /\ put_state(p, "CONFORMING", review[p].round)
      BY <1>5 DEF conform_run
    <2>2. /\ review[p].round \in 0 .. MaxRounds
          /\ <<"publish", review[p].round>> \in gates
          /\ <<"confirm", review[p].round>> \in gates
      BY <1>a, <2>1, FromGate
    <2>3. gates \subseteq gates' /\ gates' \subseteq Gates
      BY <2>1, <2>2, PassGate
    <2> QED BY <1>a, <2>1, <2>2, <2>3, PutGate
  <1> QED BY <1>1, <1>2, <1>3, <1>4, <1>5, AdvanceLoop DEF Machine

(* Notes and decisions move a published review, or confirm its notes. *)
LEMMA LedgerLoop ==
  ASSUME LoopInv, RestInv, NEW p \in Device, Ledger(p)
  PROVE  LoopInv'
PROOF
  <1>1. ASSUME UNCHANGED <<review, gates>> PROVE LoopInv'
    BY <1>1 DEF LoopInv
  <1>a. {"IN_REVIEW", "NOTES_IN", "CONFORMING"} \subseteq LoopState
    BY DEF LoopState
  <1>2. ASSUME NEW n \in Note, ingest_sense_result(p, n) PROVE LoopInv'
    <2>1. CASE In(p, "IN_REVIEW")
      <3>1. put_state(p, "NOTES_IN", review[p].round) /\ gates' = gates
        BY <1>2, <2>1 DEF ingest_sense_result
      <3>2. /\ review[p].round \in 0 .. MaxRounds
            /\ <<"publish", review[p].round>> \in gates
        BY <1>a, <2>1, FromGate
      <3> QED BY <1>a, <3>1, <3>2, PutGate DEF LoopInv
    <2>2. CASE ~In(p, "IN_REVIEW")
      BY <1>1, <1>2, <2>2 DEF ingest_sense_result
    <2> QED BY <2>1, <2>2
  <1>3. ASSUME NEW e \in Entry, NEW d \in {"approve", "reject", "edit"}, confirm(p, e, d)
        PROVE  LoopInv'
    <2>1. CASE UNCHANGED <<review, gates>>
      BY <1>1, <2>1
    <2>2. CASE ~UNCHANGED <<review, gates>>
      <3>1. /\ In(p, "NOTES_IN") /\ Pass(p, "confirm", "human", review[p].round)
            /\ put_state(p, "CONFORMING", review[p].round)
        BY <1>3, <2>2 DEF confirm
      <3>2. /\ review[p].round \in 0 .. MaxRounds
            /\ <<"publish", review[p].round>> \in gates
        BY <1>a, <3>1, FromGate
      <3>3. /\ gates \subseteq gates' /\ gates' \subseteq Gates
            /\ <<"confirm", review[p].round>> \in gates'
        BY <3>1, <3>2, PassGate
      <3> QED BY <1>a, <3>1, <3>2, <3>3, PutGate
    <2> QED BY <2>1, <2>2
  <1> QED
    BY <1>1, <1>2, <1>3
    DEF Ledger, propose_op, escalate_note, confirm_op, approve_all_mechanical

LEMMA RepairLoop ==
  ASSUME LoopInv, NEW p \in Device, NEW q \in Device, Repair(p, q)
  PROVE  LoopInv'
PROOF
  <1>1. /\ review' = [review EXCEPT ![p] = Newer(review[q], review[p])]
        /\ gates' = gates /\ review \in [Device -> Loops \cup {None}]
    BY DEF Repair, LoopInv
  <1>2. Newer(review[q], review[p]) \in {review[q], review[p]}
    BY DEF Newer
  <1>3. \A x \in Device : review'[x] \in {review[x], review[q]}
    BY <1>1, <1>2
  <1>4. review' \in [Device -> Loops \cup {None}]
    BY <1>1, <1>2
  <1>5. \A x \in Device : GateRow(review'[x], gates')
    BY <1>1, <1>3 DEF LoopInv
  <1> QED BY <1>1, <1>4, <1>5 DEF LoopInv

(* A change-list verb leaves the machine and, unless it takes a version, the   *)
(* versions alone.                                                             *)
LEMMA ListFrame ==
  ASSUME NEW p \in Device, List(p)
  PROVE  /\ UNCHANGED <<review, gates>>
         /\ take_version(p) \/ (Command /\ UNCHANGED <<versions, head, cuts>>)
PROOF
  <1>1. ASSUME NEW rows, NEW messages, Publish(p, rows, messages)
        PROVE  UNCHANGED <<review, gates, versions, head, cuts>>
    BY <1>1 DEF Publish
  <1>2. ASSUME NEW e \in Entry, NEW row \in Sent, append(p, e, row)
        PROVE  Command /\ UNCHANGED <<review, gates, versions, head, cuts>>
    BY <1>1, <1>2 DEF append
  <1>3. ASSUME NEW e \in Entry, NEW by \in Editors, NEW s \in Verdicts, set_state(p, e, s, by)
        PROVE  Command /\ UNCHANGED <<review, gates, versions, head, cuts>>
    BY <1>1, <1>3 DEF set_state
  <1>4. ASSUME NEW e \in Entry, NEW by \in Editors, NEW act \in BOOLEAN,
               set_active(p, e, act, by)
        PROVE  Command /\ UNCHANGED <<review, gates, versions, head, cuts>>
    BY <1>1, <1>4 DEF set_active
  <1>5. ASSUME NEW e \in Entry, NEW by \in Editors, NEW o \in Op, NEW row \in Sent,
               supersede(p, e, o, row, by)
        PROVE  Command /\ UNCHANGED <<review, gates, versions, head, cuts>>
    BY <1>1, <1>5 DEF supersede
  <1>6. take_version(p) => UNCHANGED <<review, gates>>
    BY DEF take_version
  <1> QED BY <1>2, <1>3, <1>4, <1>5, <1>6 DEF List

LEMMA LoopStep == LoopInv /\ RestInv /\ [Next]_vars => LoopInv'
PROOF
  <1> SUFFICES ASSUME LoopInv, RestInv, [Next]_vars PROVE LoopInv'
    OBVIOUS
  <1>1. ASSUME UNCHANGED <<review, gates>> PROVE LoopInv'
    BY <1>1 DEF LoopInv
  <1>2. ASSUME NEW p \in Loopers, Machine(p) PROVE LoopInv'
    BY <1>2, MachineLoop, RoleAssumption
  <1>3. ASSUME NEW p \in Loopers, Conform(p) PROVE LoopInv'
    <2>1. CASE conform_proxy_commit(p)
      <3>1. p \in Device /\ {"CONFORMING"} \subseteq LoopState
        BY RoleAssumption DEF LoopState
      <3>2. /\ In(p, "CONFORMING") /\ Pass(p, "auto", "auto", review[p].round)
            /\ put_state(p, "CONFORMING", review[p].round)
        BY <2>1 DEF conform_proxy_commit, conform_run
      <3>3. /\ review[p].round \in 0 .. MaxRounds
            /\ <<"publish", review[p].round>> \in gates
            /\ <<"confirm", review[p].round>> \in gates
        BY <3>1, <3>2, FromGate
      <3>4. gates \subseteq gates' /\ gates' \subseteq Gates
        BY <3>1, <3>2, <3>3, PassGate
      <3> QED BY <3>1, <3>2, <3>3, <3>4, PutGate
    <2>2. CASE conform_proxy_plan(p) \/ RenderLost(p)
      BY <1>1, <2>2 DEF conform_proxy_plan, RenderLost, store
    <2> QED BY <1>3, <2>1, <2>2 DEF Conform
  <1>4. ASSUME NEW p \in Device, Ledger(p) PROVE LoopInv'
    BY <1>4, LedgerLoop
  <1>5. ASSUME NEW p \in Listers, List(p) PROVE LoopInv'
    BY <1>1, <1>5, ListFrame, RoleAssumption
  <1>6. ASSUME NEW p \in Device, NEW d \in deltas, Deliver(p, d) PROVE LoopInv'
    BY <1>1, <1>6 DEF Deliver
  <1>7. ASSUME NEW p \in Device, NEW q \in Device, Repair(p, q) PROVE LoopInv'
    BY <1>7, RepairLoop
  <1>8. CASE Tick
    BY <1>1, <1>8 DEF Tick, store
  <1>9. ASSUME NEW p \in Device, NEW c \in cuts, DeliverVersion(p, c) \/ DeliverHead(p, c)
        PROVE  LoopInv'
    BY <1>1, <1>9 DEF DeliverVersion, DeliverHead
  <1>10. CASE UNCHANGED vars
    BY <1>1, <1>10 DEF vars
  <1> QED BY <1>2, <1>3, <1>4, <1>5, <1>6, <1>7, <1>8, <1>9, <1>10 DEF Next

-------------------------------------------------------------------------------
(* Versions, heads and the clock *)

LEMMA SnapshotRest ==
  ASSUME RestInv, NEW p \in Device, Command, snapshot(p)
  PROVE  /\ versions' \in [Device -> SUBSET Nat] /\ head' \in [Device -> Head \cup {None}]
         /\ now' \in Nat \ {0} /\ commands' \in Nat /\ head'[p] \in Head
PROOF
  <1> DEFINE new == [version |-> commands + 1, at |-> Clock(p)]
  <1>1. now' \in Nat \ {0} /\ commands' \in Nat /\ commands + 1 \in Nat
    BY DEF Command, RestInv
  <1>2. new \in Head
    BY <1>1, ClockType DEF Head
  <1>3. /\ versions' = [versions EXCEPT ![p] = @ \cup {commands + 1}]
        /\ head' = [head EXCEPT ![p] = new]
    BY DEF snapshot
  <1> HIDE DEF new
  <1> QED BY <1>1, <1>2, <1>3 DEF RestInv

LEMMA CommandRest ==
  ASSUME RestInv, NEW p \in Device, Command, UNCHANGED cuts,
         snapshot(p) \/ UNCHANGED <<versions, head>>
  PROVE  RestInv'
PROOF
  <1>1. CASE UNCHANGED <<versions, head>>
    BY <1>1 DEF Command, RestInv
  <1>2. CASE snapshot(p)
    BY <1>2, SnapshotRest DEF RestInv
  <1> QED BY <1>1, <1>2

LEMMA RestStep == RestInv /\ [Next]_vars => RestInv'
PROOF
  <1> SUFFICES ASSUME RestInv, [Next]_vars PROVE RestInv'
    OBVIOUS
  <1>1. ASSUME UNCHANGED <<versions, head, cuts, now, commands>> PROVE RestInv'
    BY <1>1 DEF RestInv
  <1>2. ASSUME NEW p \in Device, Machine(p) PROVE RestInv'
    BY <1>2, CommandRest, AdvanceFrame
    DEF Machine, start_draft, register_review_media, publish_draft, publish_proxy, conform_run,
        notes_arrived, version_approved, confirm_notes, conform_failed, finish, delivered,
        Advance, ledgerVars, news
  <1>3. ASSUME NEW p \in Device, Conform(p) PROVE RestInv'
    BY <1>1, <1>3, CommandRest
    DEF Conform, conform_proxy_plan, conform_proxy_commit, conform_run, RenderLost, store, news
  <1>4. ASSUME NEW p \in Device, Ledger(p) PROVE RestInv'
    BY <1>4, CommandRest
    DEF Ledger, ingest_sense_result, propose_op, escalate_note, confirm_op, confirm,
        approve_all_mechanical, news
  <1>5. ASSUME NEW p \in Device, List(p) PROVE RestInv'
    <2>1. CASE take_version(p)
      <3>1. Command /\ snapshot(p) /\ cuts' = cuts \cup {head'[p]}
        BY <2>1 DEF take_version
      <3> QED BY <3>1, SnapshotRest DEF RestInv
    <2>2. CASE ~take_version(p)
      BY <1>5, <2>2, CommandRest, ListFrame
    <2> QED BY <2>1, <2>2
  <1>6. ASSUME NEW p \in Device, NEW d \in deltas, Deliver(p, d) PROVE RestInv'
    BY <1>1, <1>6 DEF Deliver, news
  <1>7. ASSUME NEW p \in Device, NEW q \in Device, Repair(p, q) PROVE RestInv'
    <2>1. /\ versions' = [versions EXCEPT ![p] = @ \cup versions[q]]
          /\ head' = [head EXCEPT ![p] = Newer(head[q], @)]
          /\ UNCHANGED <<cuts, now, commands>>
      BY <1>7 DEF Repair, news
    <2>2. Newer(head[q], head[p]) \in Head \cup {None}
      BY DEF Newer, RestInv
    <2> QED BY <2>1, <2>2 DEF RestInv
  <1>8. ASSUME NEW p \in Device, NEW c \in cuts, DeliverVersion(p, c) PROVE RestInv'
    <2>1. c.version \in Nat
      BY DEF RestInv, Head
    <2> QED BY <1>8, <2>1 DEF DeliverVersion, news, RestInv
  <1>9. ASSUME NEW p \in Device, NEW c \in cuts, DeliverHead(p, c) PROVE RestInv'
    <2>1. Newer(c, head[p]) \in Head \cup {None}
      BY DEF Newer, RestInv
    <2> QED BY <1>9, <2>1 DEF DeliverHead, news, RestInv
  <1>10. CASE Tick
    BY <1>10 DEF Tick, store, news, RestInv
  <1>11. CASE UNCHANGED vars
    BY <1>1, <1>11 DEF vars
  <1> QED
    BY <1>2, <1>3, <1>4, <1>5, <1>6, <1>7, <1>8, <1>9, <1>10, <1>11, RoleAssumption DEF Next

-------------------------------------------------------------------------------
(* The invariant and what it says *)

LEMMA InitInv == Init => Inv
PROOF
  <1> SUFFICES ASSUME Init PROVE Inv
    OBVIOUS
  <1>1. RowInv
    BY DEF Init, RowInv, RowsPart, DeltaPart, RenderPart, Rows, Fit, Recorded, Given
  <1>2. LoopInv
    BY DEF Init, LoopInv, GateRow
  <1>3. RestInv
    BY DEF Init, RestInv
  <1> QED BY <1>1, <1>2, <1>3 DEF Inv

LEMMA InvStep == Inv /\ [Next]_vars => Inv'
BY RowStep, LoopStep, RestStep DEF Inv

LEMMA InvAlways == Spec => []Inv
PROOF
  <1> QED BY InitInv, InvStep, PTL DEF Spec

(* Every row, message and render has the shape the code gives it, and however  *)
(* rows travel between devices no review goes past the loop's cap.             *)
THEOREM LedgerTypes == Spec => []TypeOK
PROOF
  <1>1. Inv => TypeOK
    BY DEF Inv, RowInv, RowsPart, DeltaPart, RenderPart, LoopInv, RestInv, Loops, Gates, TypeOK
  <1> QED BY <1>1, InvAlways, PTL

(* No entry is approved on any device, and no op is in a render, unless some   *)
(* device passed the confirm gate for that content or was told by the app's    *)
(* own verb that it is approved: proposals, edits, batches, versions, renders  *)
(* and rows that travel make no approval of their own.                         *)
THEOREM EveryApprovalIsGiven == Spec => []ApprovalsAreGiven
PROOF
  <1>1. Inv => ApprovalsAreGiven
    BY DEF Inv, RowInv, RowsPart, RenderPart, Fit, FitRow, Held, Given, ApprovalsAreGiven
  <1> QED BY <1>1, InvAlways, PTL

(* Where the digest sees two equal clocks the decisions are equal, unless two  *)
(* different ones were written with that clock, zero included.                 *)
THEOREM ClocksNameDecisions == Spec => []DecisionsAgree
PROOF
  <1>1. ASSUME Inv PROVE DecisionsAgree
    <2> SUFFICES ASSUME NEW p \in Device, NEW q \in Device,
                        NEW e \in Held(entries[p]) \cap Held(entries[q]),
                        entries[p][e].at = entries[q][e].at,
                        ~Contested(e, entries[p][e].at)
                 PROVE  /\ entries[p][e].state = entries[q][e].state
                        /\ entries[p][e].active = entries[q][e].active
      BY DEF DecisionsAgree
    <2> DEFINE w1 == Record(e, entries[p][e])
               w2 == Record(e, entries[q][e])
    <2>1. w1 \in wrote /\ w2 \in wrote
      BY <1>1 DEF Inv, RowInv, RowsPart, Recorded, RecordedRow, Held
    <2>2. /\ w1.entry = e /\ w1.at = entries[p][e].at
          /\ w2.entry = e /\ w2.at = entries[p][e].at
          /\ w1.state = entries[p][e].state /\ w1.active = entries[p][e].active
          /\ w2.state = entries[q][e].state /\ w2.active = entries[q][e].active
      BY DEF Record
    <2> HIDE DEF w1, w2
    <2>3. w1 = w2
      BY <2>1, <2>2 DEF Contested
    <2> QED BY <2>2, <2>3
  <1> QED BY <1>1, InvAlways, PTL

(* No device shows a review as published, conforming or finished unless a      *)
(* human let that round through that gate on some device, whatever the order   *)
(* in which the last writer's rows arrive.                                     *)
THEOREM GatesAreHumans == Spec => []GatesAreHuman
PROOF
  <1>1. Inv => GatesAreHuman
    BY DEF Inv, LoopInv, GateRow, GatesAreHuman
  <1> QED BY <1>1, InvAlways, PTL

-------------------------------------------------------------------------------
(* The lanes of the digest *)

LEMMA MergeAt ==
  ASSUME NEW in \in Row, NEW cur \in Row
  PROVE  Merge(in, cur).at = IF in.at > cur.at THEN in.at ELSE cur.at
PROOF
  <1>1. in.at \in Nat /\ cur.at \in Nat
    BY DEF Row
  <1>2. CASE lww_wins(in, cur)
    <2>1. Merge(in, cur).at = in.at
      BY <1>2 DEF Merge, Row
    <2>2. in.at > cur.at \/ in.at = cur.at
      BY <1>2 DEF lww_wins
    <2> QED BY <1>1, <2>1, <2>2
  <1>3. CASE ~lww_wins(in, cur)
    <2>1. Merge(in, cur) = cur /\ ~(in.at > cur.at)
      BY <1>3 DEF Merge, lww_wins
    <2> QED BY <2>1
  <1> QED BY <1>2, <1>3

LEMMA EntryJoins ==
  ASSUME NEW in \in Row \cup {None}, NEW cur \in Row \cup {None}
  PROVE  At(apply_entry(in, cur)) = Later(At(cur), At(in))
PROOF
  <1>1. \A r \in Row : r # None /\ r.at \in Nat /\ r.at # None
    BY NoneAssumption DEF Row
  <1>2. CASE in = None \/ cur = None
    BY <1>1, <1>2 DEF apply_entry, At, Later
  <1>3. CASE in \in Row /\ cur \in Row
    <2>1. apply_entry(in, cur) = Merge(in, cur)
      BY <1>1, <1>3 DEF apply_entry
    <2>2. Merge(in, cur) # None
      <3>1. CASE lww_wins(in, cur)
        <4>1. [in EXCEPT !.stamped = in.stamped \/ cur.stamped] \in Row
          BY <1>3 DEF Row
        <4> QED BY <1>1, <3>1, <4>1 DEF Merge
      <3>2. CASE ~lww_wins(in, cur)
        BY <1>1, <1>3, <3>2 DEF Merge
      <3> QED BY <3>1, <3>2
    <2>3. At(apply_entry(in, cur)) = IF in.at > cur.at THEN in.at ELSE cur.at
      BY <1>3, <2>1, <2>2, MergeAt DEF At
    <2>4. At(in) = in.at /\ At(cur) = cur.at
      BY <1>1, <1>3 DEF At
    <2> QED BY <1>1, <1>3, <2>3, <2>4 DEF Later
  <1> QED BY <1>2, <1>3

LEMMA NewerJoins ==
  ASSUME NEW in, NEW cur, in # None => in.at \in Nat, cur # None => cur.at \in Nat
  PROVE  At(Newer(in, cur)) = Later(At(cur), At(in))
PROOF
  <1>1. None \notin Nat
    BY NoneAssumption
  <1>2. CASE in = None \/ cur = None
    BY <1>1, <1>2 DEF Newer, At, Later
  <1>3. CASE in # None /\ cur # None
    <2>1. At(in) = in.at /\ At(cur) = cur.at /\ At(in) # None /\ At(cur) # None
      BY <1>1, <1>3 DEF At
    <2>2. Newer(in, cur) = IF in.at > cur.at THEN in ELSE cur
      BY <1>3 DEF Newer
    <2> QED BY <1>3, <2>1, <2>2 DEF At, Later
  <1> QED BY <1>2, <1>3

(* The lanes of a device that repairs come to the later of its own and the     *)
(* other's, entry by entry and for the head and the review: applying a peer's  *)
(* rows neither loses a clock nor leaves the digests apart in any lane.        *)
THEOREM RepairsJoin == Spec => RepairJoins
PROOF
  <1>1. ASSUME Inv, NEW p \in Device, NEW q \in Device, Repair(p, q)
        PROVE  Lanes(p)' = Join(p, q)
    <2>1. /\ entries[p] \in Rows /\ entries[q] \in Rows
          /\ head[p] \in Head \cup {None} /\ head[q] \in Head \cup {None}
          /\ review[p] \in Loops \cup {None} /\ review[q] \in Loops \cup {None}
      BY <1>1 DEF Inv, RowInv, RowsPart, LoopInv, RestInv
    <2>2. /\ entries'[p] = [e \in Entry |-> apply_entry(entries[q][e], entries[p][e])]
          /\ versions'[p] = versions[p] \cup versions[q]
          /\ head'[p] = Newer(head[q], head[p])
          /\ review'[p] = Newer(review[q], review[p])
      BY <1>1 DEF Repair, Inv, RowInv, RowsPart, LoopInv, RestInv
    <2>3. \A e \in Entry : At(entries'[p][e]) = Later(At(entries[p][e]), At(entries[q][e]))
      BY <2>1, <2>2, EntryJoins DEF Rows
    <2>4. At(head'[p]) = Later(At(head[p]), At(head[q]))
      BY <2>1, <2>2, NewerJoins DEF Head
    <2>5. At(review'[p]) = Later(At(review[p]), At(review[q]))
      BY <2>1, <2>2, NewerJoins DEF Loops
    <2>6. Lanes(p)' = <<[e \in Entry |-> At(entries'[p][e])], versions'[p],
                        At(head'[p]), At(review'[p])>>
      BY DEF Lanes, At
    <2> QED BY <2>2, <2>3, <2>4, <2>5, <2>6 DEF Join
  <1>2. Inv => (\A p \in Device : \A q \in Device \ {p} : Repair(p, q) => Lanes(p)' = Join(p, q))
    BY <1>1
  <1> QED BY <1>2, InvAlways, PTL DEF RepairJoins

(* What repairs do to a lane does not depend on their order, their number or   *)
(* who repaired from whom: they form a semilattice.                            *)
LEMMA LanesAreASemilattice ==
  ASSUME NEW a \in Nat \cup {None}, NEW b \in Nat \cup {None}, NEW c \in Nat \cup {None}
  PROVE  /\ Later(a, a) = a
         /\ Later(a, b) = Later(b, a)
         /\ Later(Later(a, b), c) = Later(a, Later(b, c))
BY NoneAssumption DEF Later

===============================================================================
