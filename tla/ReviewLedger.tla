----------------------------- MODULE ReviewLedger -----------------------------
(* The review of one asset on several devices: the ledger of proposed edits,   *)
(* the review loop's state machine with its authority gates, the render that   *)
(* runs while the store is unlocked, and the replication of both.              *)
(* Code: changelist.rs, review_state.rs, review_loop.rs, batch_confirm.rs.     *)
(*                                                                             *)
(* One tenant, one master, branch "main".  An entry stands for its content     *)
(* hash, so a second append of the same content is the same entry; audits,     *)
(* outcome labels and the asset registry are left out.  Clocks are seconds: a  *)
(* device may do several things within one, and devices may disagree by Skew.  *)
EXTENDS Integers, FiniteSets

CONSTANTS
  Device,
  Loopers,      \* devices whose user drives the state machine
  Listers,      \* devices whose app uses the change-list verbs
  Note,         \* reviewer notes the sensor can bring
  Op,           \* mechanical edits
  AgentOps,     \* those an agent proposes
  Edit,         \* the content an op has after the human changed its parameters
  Sent,         \* entries as callers fill them in: decision, clock and stamp included
  Verdicts,     \* states the app sets an entry to
  Editors,      \* names the change-list verbs are called with
  Human,        \* the name confirm_op writes
  Skew,         \* by how much a device's clock is ahead
  None,
  MaxRounds,    \* the loop's own cap
  MaxTime,      \* bound on the clock
  MaxCommands,  \* bound on commands
  MaxDeltas     \* bound on gossip messages

Entry == Note \cup Op

ASSUME RoleAssumption == Loopers \cup Listers \subseteq Device
ASSUME EntryAssumption == AgentOps \subseteq Op /\ Edit \in [Op -> Op]
ASSUME NameAssumption == Editors \subseteq Nat \ {0} /\ Human \in Nat \ {0}
ASSUME BoundAssumption == {MaxRounds, MaxTime, MaxCommands, MaxDeltas} \subseteq Nat
ASSUME SkewAssumption == Skew \in [Device -> Nat]

VARIABLES
  entries,      \* change_entry
  review,       \* the review_state row
  versions,     \* change_version: ids
  head,         \* change_branch: the head version and its clock
  render,       \* the ops sent to a conform run in progress
  deltas,       \* gossip about entries sent by the change-list verbs
  cuts,         \* gossip about versions: a version and the head it became
  now,
  commands,
  wrote,        \* history: every decision written, with its clock
  approvals,    \* history: entries a human approved through the confirm gate
  asserted,     \* history: entries a change-list verb wrote as approved
  gates         \* history: <<gate, round>> a human let through

store == <<entries, review, versions, head>>
news == <<deltas, cuts>>
given == <<approvals, asserted>>
vars == <<entries, review, versions, head, render, deltas, cuts, now, commands, wrote,
          given, gates>>

EntryState == {"proposed", "approved", "rejected", "applied", "superseded"}

Row == [state : EntryState, active : BOOLEAN, at : Nat, by : Nat, stamped : BOOLEAN]

ASSUME SentAssumption == Sent \subseteq Row /\ Verdicts \subseteq EntryState

LoopState == {"DRAFT", "IN_REVIEW", "NOTES_IN", "CONFORMING", "APPROVED", "FINISHING",
              "DELIVERED"}

ReviewState == [state : LoopState, round : Nat, at : Nat]

Head == [version : Nat, at : Nat]

Render == [ops : SUBSET Op]

ASSUME NoneAssumption ==
  /\ None \notin Row /\ None \notin ReviewState /\ None \notin Head /\ None \notin Render
  /\ None \notin Nat

Rows == [Entry -> Row \cup {None}]

Delta == [kind : {"entry", "lifecycle"}, entry : Entry, row : Row]

Write == [entry : Entry, at : Nat, state : EntryState, active : BOOLEAN]

Actor == {"human", "agent", "auto"}

Init ==
  /\ entries = [p \in Device |-> [e \in Entry |-> None]]
  /\ review = [p \in Device |-> None]
  /\ versions = [p \in Device |-> {}]
  /\ head = [p \in Device |-> None]
  /\ render = [p \in Device |-> None]
  /\ deltas = {}
  /\ cuts = {}
  /\ now = 1
  /\ commands = 0
  /\ wrote = {}
  /\ approvals = {}
  /\ asserted = {}
  /\ gates = {}

Clock(p) == now + Skew[p]

Command ==
  /\ commands < MaxCommands
  /\ commands' = commands + 1
  /\ UNCHANGED now

-------------------------------------------------------------------------------
(* The ledger: operators on one device's rows. *)

(* What the code's own callers append, and the change-list verbs when the app  *)
(* fills in nothing else.                                                      *)
Fresh == [state |-> "proposed", active |-> TRUE, at |-> 0, by |-> 0, stamped |-> FALSE]

(* Appending content that is already there returns the row that holds it.  A   *)
(* new row keeps the decision and the stamp its caller filled in; the INSERT   *)
(* leaves the clock and its name out.                                          *)
Append(rows, e, row) ==
  [rows EXCEPT ![e] = IF @ # None THEN @ ELSE [row EXCEPT !.at = 0, !.by = 0]]

(* A transition always takes this device's clock, whatever the row's was. *)
Move(rows, e, state, active, at, by) ==
  [rows EXCEPT ![e] = [state |-> state, active |-> active, at |-> at, by |-> by,
                       stamped |-> rows[e].stamped]]

(* Approving with changed parameters supersedes the entry by its edited copy,  *)
(* and approves that copy, which may be a row the ledger already had.          *)
SupersedeBy(rows, e, o, at) ==
  Move(Move(Append(rows, o, Fresh), e, "superseded", FALSE, at, Human),
       o, "approved", TRUE, at, Human)

Decided(rows, e, decision, at) ==
  CASE decision = "reject"  -> Move(rows, e, "rejected", FALSE, at, Human)
    [] decision = "approve" -> Move(rows, e, "approved", TRUE, at, Human)
    [] decision = "edit"    -> SupersedeBy(rows, e, Edit[e], at)

ApprovedBy(e, decision) ==
  CASE decision = "reject" -> {} [] decision = "approve" -> {e} [] decision = "edit" -> {Edit[e]}

Held(rows) == {e \in Entry : rows[e] # None}

active_entries(rows) ==
  {e \in Held(rows) : rows[e].active /\ rows[e].state \notin {"rejected", "superseded"}}

approved_ops(rows) ==
  {o \in Op \cap Held(rows) : rows[o].active /\ rows[o].state = "approved"}

OpenProposals(rows) ==
  {o \in AgentOps \cap Held(rows) : rows[o].active /\ rows[o].state = "proposed"}

(* A version stamps the entries that first appear in it and moves their clock, *)
(* but not the name the clock is compared with.                                *)
Stamp(rows, at) ==
  [e \in Entry |-> IF e \in active_entries(rows) /\ ~rows[e].stamped
                   THEN [rows[e] EXCEPT !.stamped = TRUE, !.at = at]
                   ELSE rows[e]]

lww_wins(in, cur) ==
  \/ in.at > cur.at
  \/ in.at = cur.at /\ in.at > 0 /\ in.by > cur.by

(* Mutant: the merge forgets a column. *)
MergeStateOnly(in, cur) ==
  IF lww_wins(in, cur)
  THEN [in EXCEPT !.stamped = in.stamped \/ cur.stamped, !.active = cur.active] ELSE cur

(* What a replica's row does to ours: the version stamp alone is never lost. *)
Merge(in, cur) ==
  IF lww_wins(in, cur) THEN [in EXCEPT !.stamped = in.stamped \/ cur.stamped] ELSE cur

(* Mutant: the content union without the decision. *)
UnionOnly(in, cur) == IF in # None /\ cur = None THEN in ELSE cur

(* apply_entry: content is a union, decisions are the last writer's. *)
apply_entry(in, cur) == IF in = None THEN cur ELSE IF cur = None THEN in ELSE Merge(in, cur)

(* apply_lifecycle: an entry that is not here yet is left to a later repair. *)
apply_lifecycle(in, cur) == IF cur = None THEN cur ELSE Merge(in, cur)

(* Review and branch rows: strictly newer, no tie-break. *)
Newer(in, cur) ==
  IF in # None /\ (cur = None \/ in.at > cur.at) THEN in ELSE cur

Record(e, row) == [entry |-> e, at |-> row.at, state |-> row.state, active |-> row.active]

Changed(p, rows) ==
  {Record(e, rows[e]) : e \in {d \in Held(rows) : rows[d] # entries[p][d]}}

(* The one store of every local change to the rows that is not gossiped. *)
StoreRows(p, rows) ==
  /\ entries' = [entries EXCEPT ![p] = rows]
  /\ wrote' = wrote \cup Changed(p, rows)

-------------------------------------------------------------------------------
(* The state machine. *)

(* Mutant: an agent may confirm what it proposed. *)
AgentConfirms(gate, actor) ==
  IF gate = "auto" THEN actor = "auto"
  ELSE actor = "human" \/ (gate = "confirm" /\ actor = "agent")

(* AUTO transitions are the machinery's; every other one needs a human. *)
enforce_gate(gate, actor) == IF gate = "auto" THEN actor = "auto" ELSE actor = "human"

Pass(p, gate, actor, round) ==
  /\ enforce_gate(gate, actor)
  /\ gates' = IF actor = "human" THEN gates \cup {<<gate, round>>} ELSE gates

In(p, state) == review[p] # None /\ review[p].state = state

put_state(p, state, round) ==
  review' = [review EXCEPT ![p] = [state |-> state, round |-> round, at |-> Clock(p)]]

(* changelist::snapshot, which every publish and every conform run takes. *)
snapshot(p) ==
  /\ StoreRows(p, Stamp(entries[p], Clock(p)))
  /\ versions' = [versions EXCEPT ![p] = @ \cup {commands + 1}]
  /\ head' = [head EXCEPT ![p] = [version |-> commands + 1, at |-> Clock(p)]]

ledgerVars == <<entries, versions, head, wrote>>

start_draft(p) ==
  /\ Command
  /\ review[p] = None
  /\ put_state(p, "DRAFT", 0)
  /\ UNCHANGED <<ledgerVars, render, news, given, gates>>

publish_draft(p, actor) ==
  /\ Command
  /\ In(p, "DRAFT")
  /\ Pass(p, "publish", actor, review[p].round)
  /\ snapshot(p)
  /\ put_state(p, "IN_REVIEW", review[p].round)
  /\ UNCHANGED <<render, news, given>>

(* Registering media drafts and publishes at once; a review that is already    *)
(* under way is taken as it is.                                                *)
register_review_media(p, actor) ==
  /\ Command
  /\ review[p] = None
  /\ Pass(p, "publish", actor, 0)
  /\ snapshot(p)
  /\ put_state(p, "IN_REVIEW", 0)
  /\ UNCHANGED <<render, news, given>>

(* Mutant: every transition counts as a round. *)
AdvanceCounting(p, actor, gate, from, to) ==
  /\ Command
  /\ In(p, from)
  /\ Pass(p, gate, actor, review[p].round)
  /\ put_state(p, to, review[p].round + 1)
  /\ UNCHANGED <<ledgerVars, render, news, given>>

(* The transitions that only move the row. *)
Advance(p, actor, gate, from, to) ==
  /\ Command
  /\ In(p, from)
  /\ Pass(p, gate, actor, review[p].round)
  /\ put_state(p, to, review[p].round)
  /\ UNCHANGED <<ledgerVars, render, news, given>>

notes_arrived(p, actor) == Advance(p, actor, "auto", "IN_REVIEW", "NOTES_IN")
version_approved(p, actor) == Advance(p, actor, "auto", "IN_REVIEW", "APPROVED")
confirm_notes(p, actor) == Advance(p, actor, "confirm", "NOTES_IN", "CONFORMING")
conform_failed(p, actor) == Advance(p, actor, "auto", "CONFORMING", "NOTES_IN")
finish(p, actor) == Advance(p, actor, "finish", "APPROVED", "FINISHING")
delivered(p, actor) == Advance(p, actor, "auto", "FINISHING", "DELIVERED")

conform_run(p, actor) ==
  /\ Command
  /\ In(p, "CONFORMING")
  /\ Pass(p, "auto", actor, review[p].round)
  /\ snapshot(p)
  /\ put_state(p, "CONFORMING", review[p].round)
  /\ UNCHANGED <<news, given>>

publish_proxy(p, actor) ==
  /\ Command
  /\ In(p, "CONFORMING")
  /\ review[p].round + 1 <= MaxRounds
  /\ Pass(p, "publish", actor, review[p].round + 1)
  /\ snapshot(p)
  /\ put_state(p, "IN_REVIEW", review[p].round + 1)
  /\ UNCHANGED <<render, news, given>>

-------------------------------------------------------------------------------
(* Notes, proposals and decisions. *)

(* A sensed comment that is new here moves a published review on. *)
ingest_sense_result(p, n) ==
  /\ Command
  /\ head[p] # None
  /\ entries[p][n] = None
  /\ StoreRows(p, Append(entries[p], n, Fresh))
  /\ IF In(p, "IN_REVIEW") THEN put_state(p, "NOTES_IN", review[p].round)
     ELSE UNCHANGED review
  /\ UNCHANGED <<versions, head, render, news, given, gates>>

(* Mutant: the entry is stored as the agent wrote it. *)
AsAsked(row) == row

(* Whatever state an agent's entry asks for, it is a proposal (active or not,  *)
(* as the agent has it); proposing what is there already changes nothing.      *)
Proposed(row) == [row EXCEPT !.state = "proposed"]

propose_op(p, o, row) ==
  /\ Command
  /\ entries[p][o] = None
  /\ StoreRows(p, Append(entries[p], o, Proposed(row)))
  /\ UNCHANGED <<review, versions, head, render, news, given, gates>>

(* A human may make an edit of a note; the note stays. *)
escalate_note(p, n, o, actor) ==
  /\ Command
  /\ entries[p][n] # None
  /\ entries[p][o] = None
  /\ enforce_gate("promote", actor)
  /\ StoreRows(p, Append(entries[p], o, Fresh))
  /\ UNCHANGED <<review, versions, head, render, news, given, gates>>

(* confirm_op: no look at the state the entry is in.  One decision is one hold *)
(* of the store's lock, so its two or three writes are one.                    *)
Confirm(p, e, decision, actor) ==
  /\ enforce_gate("confirm", actor)
  /\ entries[p][e] # None
  /\ decision = "edit" => e \in Op
  /\ StoreRows(p, Decided(entries[p], e, decision, Clock(p)))
  /\ approvals' = approvals \cup (IF actor = "human" THEN ApprovedBy(e, decision) ELSE {})
  /\ UNCHANGED asserted

confirm_op(p, e, decision, actor) ==
  /\ Command
  /\ Confirm(p, e, decision, actor)
  /\ UNCHANGED <<review, versions, head, render, news, gates>>

(* The player's confirm: the decision that settles the last open proposal also *)
(* confirms the notes.                                                         *)
confirm(p, e, decision) ==
  /\ Command
  /\ Confirm(p, e, decision, "human")
  /\ IF In(p, "NOTES_IN") /\ OpenProposals(Decided(entries[p], e, decision, Clock(p))) = {}
     THEN /\ Pass(p, "confirm", "human", review[p].round)
          /\ put_state(p, "CONFORMING", review[p].round)
     ELSE UNCHANGED <<review, gates>>
  /\ UNCHANGED <<versions, head, render, news>>

(* "Approve all mechanical": every open proposal, by one tap. *)
approve_all_mechanical(p, actor) ==
  LET open == {o \in Op \cap Held(entries[p]) :
                 entries[p][o].active /\ entries[p][o].state = "proposed"}
  IN /\ Command
     /\ enforce_gate("confirm", actor)
     /\ open # {}
     /\ StoreRows(p, [e \in Entry |->
          IF e \in open THEN Move(entries[p], e, "approved", TRUE, Clock(p), Human)[e]
          ELSE entries[p][e]])
     /\ approvals' = approvals \cup (IF actor = "human" THEN open ELSE {})
     /\ UNCHANGED <<review, versions, head, render, news, asserted, gates>>

-------------------------------------------------------------------------------
(* The change-list verbs, which alone tell the group at once; the review verbs *)
(* leave it to the sweep.                                                      *)

Told(kind, e, row) == [kind |-> kind, entry |-> e, row |-> row]

(* A change of the rows and what the group is told of it. *)
Publish(p, rows, messages) ==
  /\ Cardinality(deltas) + Cardinality(cuts) < MaxDeltas
  /\ deltas' = deltas \cup messages
  /\ entries' = [entries EXCEPT ![p] = rows]
  /\ wrote' = wrote \cup Changed(p, rows) \cup {Record(m.entry, m.row) : m \in messages}
  /\ UNCHANGED <<review, versions, head, render, cuts, approvals, gates>>

(* What append returns: the row that was there, or the caller's, whose clock   *)
(* and name the group is told although this device stored neither.             *)
Appended(rows, e, row) == IF rows[e] # None THEN rows[e] ELSE row

Asserts(rows, e, row) == IF rows[e] = None /\ row.state = "approved" THEN {e} ELSE {}

(* No gate and no actor: the entry goes in as the app filled it in. *)
append(p, e, row) ==
  /\ Command
  /\ Publish(p, Append(entries[p], e, row), {Told("entry", e, Appended(entries[p], e, row))})
  /\ asserted' = asserted \cup Asserts(entries[p], e, row)

(* The app's own verdict, under the name it gives. *)
set_state(p, e, state, by) ==
  LET rows == Move(entries[p], e, state, entries[p][e].active, Clock(p), by)
  IN /\ Command
     /\ entries[p][e] # None
     /\ Publish(p, rows, {Told("lifecycle", e, rows[e])})
     /\ asserted' = asserted \cup (IF state = "approved" THEN {e} ELSE {})

set_active(p, e, active, by) ==
  LET rows == Move(entries[p], e, entries[p][e].state, active, Clock(p), by)
  IN /\ Command
     /\ entries[p][e] # None
     /\ Publish(p, rows, {Told("lifecycle", e, rows[e])})
     /\ UNCHANGED asserted

(* The app redoes an entry: other content in its place, active and in the      *)
(* state the app gave it, and two messages.  The first carries the new row as  *)
(* it was before the old one was retired.                                      *)
supersede(p, e, o, row, by) ==
  LET new == [row EXCEPT !.active = TRUE]
      rows == Move(Append(entries[p], o, new), e, "superseded", FALSE, Clock(p), by)
  IN /\ Command
     /\ entries[p][e] # None
     /\ Publish(p, rows, {Told("entry", o, Appended(entries[p], o, new)),
                          Told("lifecycle", e, rows[e])})
     /\ asserted' = asserted \cup Asserts(entries[p], o, new)

(* A version outside the review; it and the head are told in two messages, the *)
(* stamps on the entries in none.                                              *)
take_version(p) ==
  /\ Command
  /\ snapshot(p)
  /\ Cardinality(deltas) + Cardinality(cuts) < MaxDeltas
  /\ cuts' = cuts \cup {head'[p]}
  /\ UNCHANGED <<review, render, deltas, given, gates>>

-------------------------------------------------------------------------------
(* The conform: plan under the lock, render without it, commit under it again. *)

conform_proxy_plan(p) ==
  /\ render[p] = None
  /\ In(p, "CONFORMING")
  /\ render' = [render EXCEPT ![p] = [ops |-> approved_ops(entries[p])]]
  /\ UNCHANGED <<store, news, now, commands, wrote, given, gates>>

(* The commit looks at the machine's state again, but at nothing else. *)
conform_proxy_commit(p) ==
  /\ render[p] # None
  /\ conform_run(p, "auto")
  /\ render' = [render EXCEPT ![p] = None]

(* The render failed, or the review moved on under it. *)
RenderLost(p) ==
  /\ render[p] # None
  /\ render' = [render EXCEPT ![p] = None]
  /\ UNCHANGED <<store, news, now, commands, wrote, given, gates>>

-------------------------------------------------------------------------------
(* Replication. *)

(* Gossip may be late, repeated or never come. *)
Deliver(p, d) ==
  /\ entries' = [entries EXCEPT ![p][d.entry] =
       IF d.kind = "entry" THEN apply_entry(d.row, @) ELSE apply_lifecycle(d.row, @)]
  /\ UNCHANGED <<review, versions, head, render, news, now, commands, wrote, given,
                 gates>>

At(row) == IF row = None THEN None ELSE row.at

(* The ledger's lanes of the group digest: what is held, and its clocks. *)
Lanes(p) == <<[e \in Entry |-> At(entries[p][e])], versions[p], At(head[p]), At(review[p])>>

DeliverVersion(p, c) ==
  /\ versions' = [versions EXCEPT ![p] = @ \cup {c.version}]
  /\ UNCHANGED <<entries, review, head, render, news, now, commands, wrote, given, gates>>

DeliverHead(p, c) ==
  /\ head' = [head EXCEPT ![p] = Newer(c, @)]
  /\ UNCHANGED <<entries, review, versions, render, news, now, commands, wrote, given,
                 gates>>

(* The sweep saw another digest: p pulls q's rows and applies them all. *)
Repair(p, q) ==
  /\ UNCHANGED <<render, news, now, commands, wrote, given, gates>>
  /\ Lanes(p) # Lanes(q)
  /\ entries' = [entries EXCEPT ![p] =
       [e \in Entry |-> apply_entry(entries[q][e], entries[p][e])]]
  /\ versions' = [versions EXCEPT ![p] = @ \cup versions[q]]
  /\ head' = [head EXCEPT ![p] = Newer(head[q], @)]
  /\ review' = [review EXCEPT ![p] = Newer(review[q], @)]

Tick ==
  /\ now < MaxTime
  /\ now' = now + 1
  /\ UNCHANGED <<store, render, news, commands, wrote, given, gates>>

-------------------------------------------------------------------------------

Machine(p) ==
  \/ start_draft(p)
  \/ \E a \in Actor :
       \/ register_review_media(p, a)
       \/ publish_draft(p, a) \/ notes_arrived(p, a) \/ version_approved(p, a)
       \/ confirm_notes(p, a) \/ conform_failed(p, a) \/ finish(p, a)
       \/ delivered(p, a) \/ publish_proxy(p, a)
       \/ conform_run(p, a) /\ UNCHANGED render

Ledger(p) ==
  \/ \E n \in Note : ingest_sense_result(p, n)
  \/ \E o \in AgentOps, row \in Sent : propose_op(p, o, row)
  \/ \E n \in Note, o \in Op \ AgentOps, a \in Actor : escalate_note(p, n, o, a)
  \/ \E e \in Entry, d \in {"approve", "reject", "edit"} :
       \/ \E a \in Actor : confirm_op(p, e, d, a)
       \/ confirm(p, e, d)
  \/ \E a \in Actor : approve_all_mechanical(p, a)

List(p) ==
  \/ \E e \in Entry, row \in Sent : append(p, e, row)
  \/ \E e \in Entry, by \in Editors :
       \/ \E s \in Verdicts : set_state(p, e, s, by)
       \/ \E act \in BOOLEAN : set_active(p, e, act, by)
       \/ \E o \in Op, row \in Sent : supersede(p, e, o, row, by)
  \/ take_version(p)

Conform(p) == conform_proxy_plan(p) \/ conform_proxy_commit(p) \/ RenderLost(p)

Next ==
  \/ \E p \in Loopers : Machine(p) \/ Conform(p)
  \/ \E p \in Device : Ledger(p)
  \/ \E p \in Listers : List(p)
  \/ \E p \in Device, d \in deltas : Deliver(p, d)
  \/ \E p \in Device, c \in cuts : DeliverVersion(p, c) \/ DeliverHead(p, c)
  \/ \E p \in Device : \E q \in Device \ {p} : Repair(p, q)
  \/ Tick

Spec == Init /\ [][Next]_vars

(* The sweep never stops. *)
FairSpec == Spec /\ \A p \in Device : \A q \in Device \ {p} : WF_vars(Repair(p, q))

-------------------------------------------------------------------------------
(* Properties *)

(* The stored rows, the machine and the messages have the shapes the code      *)
(* gives them, and no review goes past the loop's cap.                         *)
TypeOK ==
  /\ entries \in [Device -> Rows]
  /\ review \in [Device -> [state : LoopState, round : 0 .. MaxRounds, at : Nat] \cup {None}]
  /\ versions \in [Device -> SUBSET Nat]
  /\ head \in [Device -> Head \cup {None}]
  /\ render \in [Device -> Render \cup {None}]
  /\ deltas \subseteq Delta /\ cuts \subseteq Head
  /\ now \in Nat /\ commands \in Nat
  /\ wrote \subseteq Write
  /\ approvals \subseteq Entry /\ asserted \subseteq Entry
  /\ gates \subseteq {"publish", "confirm", "finish"} \X (0 .. MaxRounds)

(* "An AGENT may only PROPOSE": an entry is approved on a device, and an op is *)
(* in a render, only if some device passed the confirm gate for that content,  *)
(* with a human, or was told by the app's own change-list verb that it is      *)
(* approved.  Whatever an agent asks for, however contents collapse into one   *)
(* row, and however edits, versions, renders and rows that travel overlap,     *)
(* nothing else makes an approval.                                             *)
ApprovalsAreGiven ==
  \A p \in Device :
    /\ \A e \in Held(entries[p]) :
         entries[p][e].state = "approved" => e \in approvals \cup asserted
    /\ render[p] # None => render[p].ops \subseteq approvals \cup asserted

(* Two different decisions on an entry carry the same clock: an edit, a stamp  *)
(* or a second thought within the second, here or elsewhere; or one content    *)
(* appended twice in different states, while its clock is still zero.          *)
Contested(e, at) ==
  \E w1, w2 \in wrote : w1.entry = e /\ w2.entry = e /\ w1.at = at /\ w2.at = at /\ w1 # w2

(* The digest compares an entry's clock only.  Where it sees no difference     *)
(* there is none in the decision, unless the clock was contested: through lost *)
(* and repeated news, repairs, skewed clocks and clocks the app sent along, a  *)
(* clock names one decision.                                                   *)
DecisionsAgree ==
  \A p, q \in Device : \A e \in Held(entries[p]) \cap Held(entries[q]) :
    LET mine == entries[p][e]
        theirs == entries[q][e]
    IN mine.at = theirs.at /\ ~Contested(e, mine.at)
         => mine.state = theirs.state /\ mine.active = theirs.active

(* The gates hold although replication goes around them: no device shows a     *)
(* review as published, conforming or finished unless a human let that very    *)
(* round through on some device.                                               *)
GatesAreHuman ==
  \A p \in Device : review[p] # None =>
    LET r == review[p]
    IN /\ r.state # "DRAFT" => <<"publish", r.round>> \in gates
       /\ r.state = "CONFORMING" => <<"confirm", r.round>> \in gates
       /\ r.state \in {"FINISHING", "DELIVERED"} => <<"finish", r.round>> \in gates

Later(a, b) == IF a = None \/ (b # None /\ b > a) THEN b ELSE a

(* What two devices' lanes come to. *)
Join(p, q) ==
  <<[e \in Entry |-> Later(At(entries[p][e]), At(entries[q][e]))], versions[p] \cup versions[q],
    Later(At(head[p]), At(head[q])), Later(At(review[p]), At(review[q]))>>

(* A repair takes over whatever of the other's lanes is later, and forgets     *)
(* nothing: the digest has no lane that a repair does not level, so two        *)
(* devices that each repaired from the other compare as equal.                 *)
RepairJoins ==
  [][\A p \in Device : \A q \in Device \ {p} : Repair(p, q) => Lanes(p)' = Join(p, q)]_vars

(* Once the commands stop, the sweep brings every device to the same lanes.    *)
LanesSettle == <>[](\A p, q \in Device : Lanes(p) = Lanes(q))

===============================================================================
