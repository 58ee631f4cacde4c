# cyan-backend in TLA+

cyan-backend is the Rust core of a peer-to-peer collaboration app. Every peer
keeps a group's rows (workspaces, boards, chats, files, whiteboard elements,
notebook cells, notes, pins, metadata, a review ledger) in its own SQLite
database and exchanges them with the group's other peers: best-effort gossip for
live deltas, a periodic digest sweep with repair pulls for what gossip lost, and
snapshot streams for peers that join or come back. There is no server and no
agreement between peers. What users see therefore rests on how rows merge, on how a
device gets into a group and gets its rows and files, on how decisions travel, and
on what a board's pipeline does while users decide. Each of these has a module here.

Paths below are relative to `src/src/` of the repository.

## Inventory

| Component | State | Operations | Talks to | Hard part |
|---|---|---|---|---|
| Row store (`storage.rs`, schema in `lib.rs`) | SQLite tables, enforced foreign keys | insert-or-ignore, update, upsert with a clock, insert-or-replace, delete with cascade, tombstone | everything | four merge rules, one per path and table |
| Command actor (`lib.rs`) | none beyond the store | one handler per user command: write, then broadcast | store, topic actor | the broadcast does not depend on what the write did |
| Topic actor, gossip lane (`actors/topic_actor.rs`) | persist queue, known peers | receive, queue, persist, notify | store, gossip | deltas lost, late, repeated, out of order |
| Anti-entropy (`anti_entropy.rs`, `actors/topic_actor.rs`) | debounce flag | sweep, compare, pull | store, snapshot | termination, the slot, what the digest does not see |
| Snapshot and catch-up (`snapshot.rs`, `actors/*`) | pulls in flight | build, filter by `since`, stream, apply | store | concurrent writes, broken streams, refused rows |
| Join coordination (`actors/topic_actor.rs`, `actors/network_actor.rs`) | need_snapshot, offers, groups_needing_snapshot | announce, offer, pick, pull, retry | snapshot, identity | a failed pull, two joiners, a peer that left |
| Network actor (`actors/network_actor.rs`) | topic handles, DM streams, transfers | join, leave, dissolve, DMs, serve files and snapshots | topic actors | order of commands of different channels |
| Unread accounting (`actors/topic_actor.rs`, `storage.rs`) | seen chat ids, counters | count once, mark read | gossip lane | redelivery, restart, repair pulls |
| File transfer (`actors/topic_actor.rs`, `swarm.rs`, `xfer_policy.rs`) | parts on disk, transfer rows | parallel ranges, resume, verify | network actor | resume after a crash, a holder that lies or stops |
| Grants (`identity/mesh.rs`, `identity/mod.rs`) | used nonces, revocations, enforced groups | present, verify, authorize, revoke | join, snapshot, writes | single use against retries, fail-open groups |
| Notes RBAC (`notes_rbac.rs`) | none | verdict on a note | gossip, snapshot | the same verdict on both lanes |
| Group lifecycle (`lib.rs`, `group_bundle.rs`, `group_rekey.rs`) | groups, owners, keys | create, dissolve, leave, import, rekey | store, network actor | a peer that is away meanwhile |
| Review ledger (`changelist.rs`, `review_state.rs`, `review_loop.rs`) | entries, versions, branch heads, review state | append, move, approve, lock | store, snapshot | union and last-writer-wins in one ledger |
| Pipeline (`pipeline.rs`, `pipeline_executor.rs`, `exec_plan.rs`) | step states of a run | plan waves, run, gate, retry, cancel | lens, workflow | concurrent waves, partial failure |
| Workflow (`workflow.rs`, `workflow_bind.rs`, `templates.rs`) | lifecycle of a board's workflow | deploy, lock, bind | store, pipeline | deployed steps edited meanwhile |
| Discovery, rendezvous (`actors/discovery_actor.rs`, `rendezvous.rs`) | peers per group | introduce, publish | network actor | mostly I/O |
| Lens, AI, MCP (`cyan_lens_client.rs`, `ai_bridge.rs`, `llm_proposer.rs`, ...) | little | HTTP and LLM calls | commands | I/O |
| Media, ingest (`ingest.rs`, `media_staging.rs`, `timecode_notes.rs`, ...) | files | conversions | store | pure code and I/O |
| FFI, node binary (`ffi/core.rs`, `bin/cyan_node.rs`) | process globals | marshal calls | all | none of its own, uploads apart |

What makes each of the modelled ones correct.

Store, gossip lane, anti-entropy, snapshot (`GroupStore`, `AntiEntropy`):

* rows of a board never outlive or precede it; a row that stays never goes back;
* a row on a peer is a row some user wrote, whole;
* lost deltas are made up for: once users stop, peers end up with the same rows;
* equal digests mean equal rows; different digests lead to a pull on one side;
* one repair pull at a time, and never none for ever.

Join coordination and grants (`GroupJoin`): a grant lets one device read from an
enforcing holder, and that device again when its pull failed; a revoked admission
is gone; a device that may read gets the whole group, whatever failed before.

File transfer (`FileTransfer`): what lands is the file its hash names; leftovers of
an attempt never make every later attempt fail or mix into one.

Review ledger (`ReviewLedger`): agents propose and humans decide, on every device;
the machine's gates hold although replication bypasses them; decisions converge.

Pipeline (`Pipeline`): external effects only after approval, a hold is its
reviewer's, non-idempotent tools once, dependencies first, runs end and report
truly.

`lib_backup.rs` is dead code, `skills/` a copy, `harness/` and `tests/` drive
the program; they are not components.

## Modules

| Module | What it is |
|---|---|
| `GroupStore` | The rows of one peer: every statement of `storage.rs`, the digest's lines, what a snapshot serves and how a frame is applied, as operators on a function from row ids to rows. |
| `AntiEntropy` | The peers: one action per command handler, delta delivery and persist, sweep, digest handling, pulls frame by frame, broken streams, restarts; the properties. |
| `ConvergentStore` | The abstract promise: a peer's rows are the merge of user writes it has learnt, in any order, less what users delete. |
| `AntiEntropyProof` | Theorems about `AntiEntropy` for every set of peers, rows, clocks and bounds. |
| `AntiEntropyRefines` | The proof that `AntiEntropy` implements `ConvergentStore`. |
| `GroupJoin` | One group, several devices: join with a grant, search for a holder, pulls, the holder's gate, leave, revoke, restart. |
| `GroupJoinProof` | Theorems about `GroupJoin`. |
| `FileTransfer` | One download on one device, down to chunks on disk. |
| `FileTransferProof` | Theorems about `FileTransfer`. |
| `ReviewLedger` | The review of one asset on several devices: ledger, state machine, conform, replication. |
| `ReviewLedgerProof` | Theorems about `ReviewLedger`. |
| `Pipeline` | The pipeline of one board: runs, tool calls, users' decisions, the command queue. |
| `PipelineProof` | Theorems about `Pipeline`: types, approvals, holds, effects. |
| `PipelineWalkProof` | Theorems about how a run walks its plan and what it leaves behind. |
| `MCAntiEntropy`, `MCGroupJoin`, `MCReviewLedger`, `MCPipeline` and `MC*.cfg` | Instances for TLC. `FileTransfer` needs none: its constants are numbers. |

The modules share no variables. Where one component leans on another, the other's
part is an open choice: `GroupJoin` lets a pull bring a group in two parts and
`AntiEntropy` says what the frames of a pull do row by row; `ReviewLedger` takes
the sweep of `AntiEntropy` as one step; `FileTransfer` takes any holder and any
failure; `Pipeline` takes CONFIRM of the review as a user's call.

### How state and actions correspond to the code

`GroupStore` and `AntiEntropy`:

| Model | Code |
|---|---|
| `store[n][i]` | the row with id `i` in `n`'s database; its clock (`created_at`, `updated_at` or `timestamp`), its content as the number of the user write it comes from, its tombstone |
| `owned` | `objects.owner_node_id` |
| `wire` | `NetworkEvent`s broadcast so far; each may reach a peer late, more than once or never (`Lagged`, no neighbours, offline) |
| `inbox[n]` | the unbounded channel to the persist worker |
| `heard[n][m]` | an `AntiEntropyMsg::Digest` on its way; a newer one overtakes it |
| `repairing[n]` | the `repairing` atomic |
| `pull[n][k]` | a task inside `download_snapshot_since`: its holder, its `since`, the next frame, the rows still to come |
| `written`, `edits`, `faults` | history and bounds |

User actions carry the handler's name (`CreateBoard`, `SendChat`, `PutNote`,
`SetBoardPinned`, `LeaveBoard`, ...). Each writes through the local statement and
then broadcasts: the order in which the two happen inside the handler cannot be
observed by a peer. `UpdateBoardMetadata` and `LeaveBoard` broadcast nothing, as
in the code. Row ids come in eight kinds, one per table or merge rule. The
model's four merge rules are those of the SQL: first row stays (boards, chats,
files), strictly newer `updated_at` wins (notes, pins, metadata), unconditional
update (edits of elements and cells) and `INSERT OR REPLACE` (elements and cells
from a snapshot). A frame with a row that a foreign key refuses is applied up to
that row, because `apply_snapshot_frame_enforced` returns at the first error and
its caller only logs it; rows of one table come in no particular order, so the
model lets any part of that table through.

`GroupJoin`:

| Model | Code |
|---|---|
| `group[n]`, `rows[n]` | the local group row, by whose clock stamped it, and the rows in the two parts a broken stream separates: the Structure frame and the rest |
| `topic[n]` | the topic actor: `need_snapshot`, `snapshot_offers`, the grant it was spawned with, `repairing` |
| `cmds[n]` | the network actor's queue: `JoinGroup`, `SeedGroupPeer`, `LeaveGroup`, handled in order |
| `pulls` | `download_snapshot_since` tasks: `asked` before the holder's answer, then the frames |
| `enforced`, `spent`, `authorized`, `revoked` | `MeshAuthorizer` and its `GrantVerifier`; in memory, lost at a restart |
| `served` | history: whom a holder honoured which grant for since its start |

`FileTransfer`:

| Model | Code |
|---|---|
| `tmp`, `final`, `local` | `<file_id>.tmp`, the renamed file, `local_path` |
| `row` | the `file_transfers` row: `bytes_received`, `status` |
| `task` | the download task: which path it is on, the offset asked for and used, bytes done, whether the hasher has seen only right bytes |
| `Stripe`, `MayReadZeros` | `serve_striped`; a chunk is counted before its buffered write happened |

`ReviewLedger`:

| Model | Code |
|---|---|
| `entries[p][e]` | a `change_entry` row: state, active, `updated_at`, actor, version stamp |
| `review`, `versions`, `head` | the `review_state` row, `change_version` ids, `change_branch` |
| `render[p]` | a conform between its plan and its commit, the store unlocked |
| `deltas`, `cuts` | gossip of the change-list verbs |
| `Sent` | the entries callers hand to `append`, `supersede` and `propose_op`, with the state, the clock and the stamp they filled in |
| `wrote`, `approvals`, `asserted`, `gates` | history: decisions with their clocks, human approvals through the confirm gate, approvals a change-list verb wrote, gates passed per round |

`Pipeline`:

| Model | Code |
|---|---|
| `cell[s]` | `metadata.pipeline.state` of the step's notebook cell: its status and the flags `approved` and `local_gate` |
| `outbox`, `queue` | a command whose write is done and which is not sent yet; the command actor's channel |
| `run[r]` | what a run keeps in memory: plan, snapshot of states, place, `RunAccum` |
| `task[r][s]` | `exec_one_step`: the call, its retries, its effects |
| `call` | `approve_step` or a retry between its read and its write |
| `hand[s]` | the app's own coordinator between asking for a step's tool and writing what came of it |
| `Fault` | a write of a state that fails, or a step's task that panics |
| `approved`, `cleared`, `released`, `sent` | history: decisions to approve, holds approved by their reviewer, steps approved at the park before their upload, effects that happened |
| `orphaned` | history: steps whose task died or whose last write failed, until they are started again |

### Abstractions

The store:

* Peers have joined: the group row and its workspaces are present. The group
  row's `created_at` is the peer's own (`JoinedAt`), as `group_insert_simple`
  makes it.
* A clock value is any member of `Stamp` at every write: peers' clocks are not
  synchronised. `DistinctStamps` restricts a run to writes of one row in
  different seconds; the code has no tie-break within a second, and
  `DigestSound` and `Converges` need the restriction.
* The two clocks of `board_metadata` (description and pin) are one. They only
  differ when both are written concurrently. `UpdateBoardMetadata` sets both.
* Chats and files hang on a board. The content dedup of files
  (`file_insert_conn`, `cyan_upload_file`) is left out: contents are distinct.
* Building a digest and building the frames are single steps. The code reads
  table by table; what is merged from the frames is per row.
* A pull that breaks between frames and one whose stream ends early leave the
  same store, so both are `BreakPull`. What is reported to the network actor
  belongs to join coordination.
* Only one join pull or catch-up per peer at a time, a bound.
* Groups are not enforced and all notes are in a synchronised scope.

Joining:

* One group. Which subscribers are neighbours, and which of them a LAN preference
  picks, is left open. A request and its offer are one step, since nothing but the
  offer is kept. A digest is compared when it arrives.
* `groups_needing_snapshot` is written and never read, and is left out.
* Signature, issuer and expiry of a grant are the constant `Trusted`; roles and
  `authorize_write` are left out. Repairs do not ask for either.
* Enforcement, spent nonces and tombstones are in memory only, so a restart forgets
  them; groups in the database are subscribed again without a grant.

Files:

* One download of the file at a time. A file is a number of chunks, each right or
  wrong or a hole. The swarm's store verifies what it fetches and what it exports.
* The build is a release build: the serving side's `total_size - offset` wraps when
  the offset is past the end, and the receiver's disk check refuses the size. A
  debug build stops there.

The review:

* One tenant, one master, branch `main`. Left out: `branch` and `reopen_branch`,
  `diff`, outcome labels, audits, the asset registry, producing the master, what
  an LLM proposes for a note.
* An entry is its content hash. The change-list verbs store it as the caller filled
  it in: no gate, no actor, and any state (`append` and `supersede` put "proposed" only
  for an empty one). The model's states are `STATE_VOCAB`; the code takes any string.
  The stored clock is then zero, while the caller's is what the group is told.
* The two or three writes of a decision are one step (one hold of the lock), and
  so is a repair. Review verbs send no gossip; change-list verbs do, and each says
  which messages.
* The verb `set_state` has no actor gate: the app that calls it is the user.
* A device's clock is the model's plus `Skew`.

The pipeline:

* One device and one board, whose step configuration is fixed. A recompile
  (`apply_compiled_configs`) replaces configuration and state of every step and is
  left out.
* Of a step's state the status and the two flags are kept. No code of this repository
  sets the flags: the app's `LensRunCoordinator` does, and replaces the state as a
  whole through `UpdateNotebookCell`, while this code's writers patch the status and
  keep the rest. It is modelled from how `step_is_approved`, `approve_step`,
  `pipeline_status` and the local call speak of it, as external: an in-flight write that
  may carry an approval on, the call, and a write of what came of it. Only
  approvals that are there are carried on, and only a gated call is parked with
  `local_gate`.
* Any step may hold, advance by itself, be manual and send, in any combination: the
  code forbids none, so the properties name what is waived.
* `approve_step` reads the row, its flag and the row again before it writes, and so does
  `reject_step`; the model reads once.
* A run's own task does not panic outside of its steps. Outputs, costs and
  notifications are left out.
* A run with no physical plan is a plan too: one step per batch, in topological
  order.

## Runs

| Run | Instance | Shows |
|---|---|---|
| `store_safety` | two peers, a board, chat, file and note; `n2` repairs from `n1`; two user actions of either peer, all deletes; one queued delta, one digest, one fault | `TypeOK`, `Referential` (no row without its board), `RepairSlot` (flag up exactly while a repair runs), `DigestSound` (equal digests, equal rows), `NoRollback` (no path makes a row older), `StructureFirst` (a full pull brings every board before the rows that need it) |
| `catch_up` | two peers, a board with an element, cell, note, pin and metadata; `n2` joins or catches up from `n1`; two user actions, deletes of the board, the element, the cell and the note among them | `RowsAuthored` (nothing invented or mixed), `ImplementsConvergentStore` (refinement) |
| `convergence` | a board, chat and note; every delta lost; repairs both ways; two user actions | `Converges` |
| `group_join` | a founder that enforces, two devices with one grant, one of which scans it and may leave; two joins, one fault, one pull at a time | `TypeOK`, `OneReader` (a holder honours a grant for one device), `AuthorizationsStand` (who is admitted was admitted by a spent grant not revoked), `SlotHeld` (the repair slot is taken exactly while its own actor repairs), `EntitledCatchesUp` (who may read gets everything) |
| `file_transfer` | four chunks, two stripes, the offset recorded every second chunk, four faults | `TypeOK`, `LandedVerified` (the hash gate), `ResumesNoHoles`, `RetriesLand` (asking from zero lands) |
| `review_ledger` | two devices a second apart, a note, an agent's edit and what a human makes of it, appended as proposed or as approved; four commands, one delta | `TypeOK`, `ApprovalsAreGiven` (an approval is a human's or the app's own verb's), `DecisionsAgree` (equal clocks, equal decisions, unless contested), `GatesAreHuman`, `RepairJoins` (a repair takes the later of both devices in every lane of the digest), `LanesSettle` |
| `pipeline_races` | a review gate and an upload held for a reviewer, parked before its send or retried with its approval carried on; two runs, one call of a user or of the app, one fault, one restart, a backlog of two commands | `TypeOK`, `SendsApproved`, `HoldByReviewer`, `SentOnce`, `RunningIsRun` |
| `pipeline_waves` | four steps (two advancing, a gate, an upload), every status each step may be left in, no plan or one of four wave plans; one retry, one fault, one restart | `DependenciesDone`, `DoneCoversBoard`, `RunsEnd` |
| `rollback` | expected violation | `SnapshotMonotone`: see findings |
| `endless_repair` | expected violation | `RepairsCease` |
| `lost_delete` | expected violation | `DeletionsConverge` |
| `catch_up_gap` | expected violation | `CatchUpEqualsFullPull` |

Bounds. In the store's runs, two user actions are what the hazards need: two concurrent writes of a
row, a write against a delete, a create and an edit. Two clock values give
older, equal and newer. A queue of one delta still lets any delta arrive
before, between and after any frames, repeatedly; two deltas in the queue only
fix an order that the wire leaves open anyway. One fault reaches every stage of
a pull. Two peers are enough for each property: all are about a peer and the
row it holds, or about a pair. All of them except
`Converges` are also proved, without any of these bounds.

In `group_join` two devices with one grant are what single use is about; one fault
reaches every stage of a join and a pull, and a pull still in flight when its device
leaves is one pull. In `file_transfer` four chunks on two stripes give each stripe a
chunk with a later one behind it, the offset recorded lags the file by a chunk, and
four faults are enough for three attempts that each fail in another way. In
`review_ledger` four commands are a proposal, a decision and a conflicting decision
of the other device, plus a stamp; two clock values and a skew of one give earlier,
equal and later. The clock a caller fills in is zero in this
run and any in the proofs. In `pipeline_races` two runs are enough for any double
execution, one call for any overtaking of a decision, and one fault for one cell
that stays running. The waves run starts from all statuses
of the board, so what several runs and calls would lead to needs no second run.
A step left scheduled or
running is walked like a pending one, so neither is among them. No call and no walk of
the app is in it and flags are unset: it asks how a run walks. A retry budget of
one makes the decisions of the code's two.

Deadlock is not checked: when the bounds are used up and nobody syncs, the
instance stops; and users may stop writing, joining, asking or deciding.

Fairness of `group_join`: an open stream goes on to its end (as above), and of the
founder's sweeps, a timer that never stops, one gets through to a device they reach
again and again. Nothing is assumed of requests, offers and other devices' sweeps.
Of `file_transfer`: a download goes on, and somebody asks again with offset 0 (a
message with the attachment, the node binary); nothing is assumed of the app's
button, whose pinned offset can fail for ever. Of `review_ledger`: the sweep. Of
`pipeline_*`: runs are tasks on a runtime whose workers do not block, a tool call
returns or times out, the command actor loops on its channel.

Fairness of the store's runs (`convergence`, `endless_repair`, `lost_delete`). The persist worker
loops on its channel; the sweep is a timer that never stops and, of infinitely
many sweeps, some reach each connected peer; a digest that arrived is handled by
the actor's loop; a pull goes on. The last one is an assumption about the
network: reads of a pull have no timeout of their own. Nothing is assumed of
users, faults, deliveries or catch-ups. With two digests in flight for two
ordered pairs of peers a sweep is always possible.

## Findings

All four are the code doing other than a comment or document says.

* `rollback`: `anti_entropy.rs` says snapshot merges are monotonic. Elements and
  cells are merged with `INSERT OR REPLACE`; frames built before a local edit
  and applied after it undo the edit.
* `endless_repair`: `STATUS_R12_ANTI_ENTROPY_C3.md` says converged peers hash
  identically. The digest's first line holds the group row's `created_at`, which
  a joiner sets from its own clock, so peers that joined in different seconds
  pull full snapshots from each other at every sweep.
* `lost_delete`: `topic_actor.rs` says a file's tombstone converges. It is
  carried by one broadcast only; neither digest nor snapshot mentions it.
* `catch_up_gap`: `topic_actor.rs` says a delta merge and a full snapshot
  converge to the identical state. A catch-up leaves out what is not newer than
  the newest row the peer already has.

## What the models show about the code, without a run of its own

These are behaviours the modules contain and the properties name as exceptions, or
that were met while reading; each is worth a look by the code's owners.

Joining. A refused join is followed by the seed of the invite, which starts the
topic actor anyway (`network_actor.rs` 1151-1173, against the comment at 640-650).
A second join with a fresh grant keeps the old one: `spawn_topic_actor` returns early.
A pull in flight when its user leaves puts the rows back. Peers that hear a dissolve
delete the rows and stay subscribed, so a sweep of a peer that has not heard it
brings the group back (`models/events.rs` 25 says that all peers must remove it).

Files. `ffi/core.rs` 2076 names the recorded offset although the tmp file may be
longer; the prefix is hashed up to the offset, the stream appended at the end of
the file, and the hash gate passes over a file that is not the one hashed:
`misplaced`, the exception in `LandedVerified`. A failed parallel download removes the
tmp file and leaves the row, so the app's next requests pin an offset with nothing
behind it and fail until somebody asks from zero. Files of one name overwrite each
other (`topic_actor.rs` 1951-1960).

Review. Two decisions on an entry within one second stay different for good: the
digest sees equal clocks and `confirm_op` always writes the same name (`Contested`).
So do two appends of one content in different states, for an appended row's clock is
zero and `lww_wins` never fires there; and a peer that hears of an append stores the
clock the caller filled in, which the appending device itself does not. "An AGENT may
only PROPOSE" (`review_state.rs` 360) is enforced by the review's verbs; the
change-list verbs have no gate, `append` and `supersede` keep a state "approved" that
their caller sends (`changelist.rs` 689-692 says that `append` inserts proposed and
active), and such an op is rendered. `propose_op` does overrule the state, and keeps
`active` (662-663 speaks of both).
A version stamp moves an entry's clock, so a stale replica's stamp beats a newer
decision. The review and branch rows have no tie-break although `changelist.rs`
1404-1412 names one. The conform looks only at the state before it commits, so a
review that went round meanwhile gets a version rendered for an earlier round
(`review_loop.rs` 738-741 says never). `confirm_op` does not look at the state an
entry is in: a superseded edit can be approved.

Pipeline. In waves a step that is complete or failed runs again (`pipeline.rs` 795
and 805 say that it must not, for runs without a plan). A dependent of a step that
advanced by itself in the same run is parked, for the run reads its snapshot. A gate
step of a plan runs and then pauses, says `exec_plan.rs` 62; `execute_waves` surfaces it
without running it. Two
runs of one board are kept apart by nobody. A rejection is only queued: a CONFIRM in
between approves the gate. A command queued earlier overwrites an approval already
written.

A step whose approval the app once carried on stays open: retry and reset set the
status and leave the flag `approved`, though `reset_step` promises a clean slate with
"any human decision cleared" (`pipeline.rs` 1986-1989). `local_gate` exempts a decision
from the reviewer's lock, since before the upload it is the operator's; a run of this
code that then uploads keeps the flag, so anybody may decide the window after the
upload too, and a decision read at the park may land after it. CONFIRM and
`auto_advance` approve a hold without its reviewer, and a step that advances by itself
and sends is approved by a run that finds its upload already made.

Failures of writes and tasks are only logged. A step's task that panics in a wave
(`pipeline.rs` 942-953), or a last write that finds no lock or no row (1100-1102,
1127-1129), leaves the cell running with nobody at it. The panic sets neither failed
nor awaiting, so later waves run behind it and the run may report "done"; "FAILURE HALTS
THE RUN" (838, 875) holds for failures that are reported. A write the database refuses
is gossiped all the same (2433), and applied by the command actor. A panic under the
database's lock poisons it, and every later write fails.

## Proofs

Every theorem is for all values of the constants that meet the named assumptions of
its module, and for all bounds. Each invariant, each action property and the
refinement that a passing run checks has one; what the prover cannot reach is
listed at the end.

| Theorem | Module | Says |
|---|---|---|
| `TypeCorrect` | `AntiEntropyProof` | `Spec => []TypeOK` |
| `RepairSlotSafe` | | `Spec => []RepairSlot` |
| `RowsAuthoredSafe` | | `Spec => []RowsAuthored` |
| `ReferentialSafe` | | `Spec => []Referential` |
| `NeverRollsBack` | | `Spec => NoRollback` |
| `DigestIsSound` | | `Spec => []DigestSound`, given `DistinctStamps` |
| `FullPullsAreComplete` | | `Spec => StructureFirst` |
| `ImplementsAbstract` | `AntiEntropyRefines` | `Spec => ImplementsConvergentStore` |
| `JoinTypes` | `GroupJoinProof` | `Spec => []TypeOK` |
| `GrantsAreSingleUse` | | `Spec => []OneReader` |
| `AuthorizationsAreStanding` | | `Spec => []AuthorizationsStand` |
| `SlotIsItsActors` | | `Spec => []SlotHeld` |
| `TransferTypes` | `FileTransferProof` | `Spec => []TypeOK` |
| `HashGateHolds` | | `Spec => []LandedVerified` |
| `StreamsFindNoHoles` | | `Spec => []ResumesNoHoles` |
| `LedgerTypes` | `ReviewLedgerProof` | `Spec => []TypeOK` |
| `EveryApprovalIsGiven` | | `Spec => []ApprovalsAreGiven` |
| `ClocksNameDecisions` | | `Spec => []DecisionsAgree` |
| `GatesAreHumans` | | `Spec => []GatesAreHuman` |
| `RepairsJoin` | | `Spec => RepairJoins` |
| `PipelineTypes` | `PipelineProof` | `Spec => []TypeOK` |
| `SideEffectsAreApproved` | | `Spec => []SendsApproved` |
| `HoldsAreTheReviewers` | | `Spec => []HoldByReviewer` |
| `EffectsAreBounded` | | `Spec => []SentOnce` |
| `RunningStepsRun` | `PipelineWalkProof` | `Spec => []RunningIsRun` |
| `NothingRunsAhead` | | `Spec => []DependenciesDone`, given that wave plans are `Levelled` |
| `DoneLeavesNothing` | | `Spec => DoneCoversBoard`, given that wave plans are `CoversBoard` |

### What the theorems assume

Of the store: a row's home is a board, a board is its own home, seeded rows come
with their board, clocks are numbers, `None` is no row, pull or digest. Of the
other modules: the types of their constants, that a board does not start with a step
running, and that a plan's waves are walked one after the other. Three theorems have a
hypothesis of their own.

* `DigestIsSound`: no two writes of one row share a second. The digest compares a
  row's clock and the store has no tie-break, so without it the property is false.
* `NothingRunsAhead`: a wave plan puts each step behind its dependencies and behind
  its barrier, and a barrier is a gate, one the plan does not take from the cache.
  `exec_plan.rs` (39, 60-67) documents this of the optimizer in Lens: waves are
  mutually independent level-sets, a barrier is the nearest unapproved gate upstream.
  `execute_waves` walks the plan it is given and does not look at dependencies.
  Without a plan nothing is assumed but that the order is a topological one
  (`OrderAssumption`), which `toposort` gives (`pipeline.rs` 666).
* `DoneLeavesNothing`: a wave plan holds the whole board. That too is the
  optimizer's: `execute_waves` skips ids it does not know (`pipeline.rs` 888-891) and
  never looks for steps the plan left out, so a plan older than its board lets a
  run report "done" without the new step.

`MCPipeline` states the last two as `PlansAreSound`, which TLC evaluates for the
plans of the runs.

### The store

`WritesAreStatements` and `DeletesAreDrops` reduce the eighteen
user actions to one statement and at most one delta. `StoreChanges` then says
what any step does to any peer's store: nothing, one statement with an
authentic row, one delete, or one frame of authentic rows. `RowsAuthored` is not
inductive over stores alone: a row may be in a frame or a queued delta when the
store it came from has lost it, so the invariant covers stores, frames, the wire
and queues together, and that a write is never forgotten (`WrittenGrows`). With
`StoreChanges`, `Referential` and `NoRollback` become facts about single
statements and frames (`StatementsKeepSound`, `FrameKeepsSound`,
`ChangeIsNotOlder`) and no longer about interleavings.

Equal digest lines of two rows are equal clocks or equal bodies. `DigestSound`
therefore needs both to name one write, `WritesDistinct`: no two writes have the
same number (none has one above `edits`, which counts them), and none of one row
the same clock. Since both rows were written (`RowsAuthored`), they come from the
same write (`LinesTellRows`).

`StructureFirst` needs two facts beside `Referential`. Only files have tombstones, so
a board that is present is served (`BoardsLive`); and what a full pull holds before its
first frame is applied brings its own boards (`FullPullsWithBoards`), because
the holder's store was referentially sound when it was read. The foreign keys
refuse nothing of the first frame, so all its boards are there for the later ones.

The refinement uses `StoreChanges` too. A step in which no user writes is one
`StoreChange` of one peer. `ChangeIsLearned` shows such a change of rows
that may travel to be a `Learn` of the abstract store: a refused or stale
statement learns nothing, a statement one write, a frame the writes of the rows
it landed. A delete, local or by delta, is a `Remove` of a row in `Deletes`;
`RowsAuthored` therefore also says that a queued delete is for such a row. A user's
write is an abstract `WriteRow`, which must add a write that was not there: hence
`WritesDistinct` again. The theorem has no hypothesis: an abstract store without
`Remove` would explain the behaviours without deletes only.

### Joining

`OneReader` speaks of history alone; the induction ties it to the
authorizer: whatever was served is spent, and what was served to a peer that is not
the holder itself is served to whom the nonce admitted. A restart clears both sides
at once, which is why `served` reaches back to the last start only. `AuthorizationsStand`
adds that admissions are spent, served and not revoked.

`SlotHeld` is the safety half of `EntitledCatchesUp`: a slot that stayed taken would
end every sweep. A pull outlives the actor that started it, so what counts as an actor's
repair is `current`, which leaving clears, and no such pull is without its actor
(`LivePulls`). Then a pull that ends frees its own actor's slot only, and a slot is
claimed only when no repair of the actor is left. The run has one pull in flight at a
time; the theorem has any number, so also a pull of an actor that left beside
a repair of the next one.

### Files

`LandedVerified` needs to know what the hasher has seen: while the hash is
clean and nothing is misplaced, the tmp file is a good prefix as long as what was
hashed (a stream), or good wherever the follower has passed (stripes, even with
zeros read by mistake, which make the hash unclean and never clean). The rename
carries this to `final`. `ResumesNoHoles` rests on the size instead: only stripes
leave holes, they leave them in a file of full size, and a tmp of full size counts
as stale when a stream measures it.

### Review

The invariant has three parts. For rows: every row stored or on its way has
its decision recorded in `wrote` under its clock (`Recorded`), and an approved one
is in `approvals` or `asserted`. A row told to the group is recorded too, since its clock
need not be the stored one. Merging keeps a row or takes the other one, so both survive any
order of news; two rows with one clock then come from two recorded decisions, equal
unless contested. For the machine: the gates behind a state and round are in `gates`,
on every row, so last-writer-wins carries them too. For the rest: types.

`RepairJoins` follows from the types and `MergeAt`: whichever row a merge keeps, its
clock is the later one, ties of the name and stamps included. Taking the later one is
idempotent, commutative and associative (lemma `LanesAreASemilattice`), so what repairs
make of the lanes depends neither on their order nor on their number: the safety half of
`LanesSettle`. That repairs happen is the liveness half and stays with TLC. Both speak of
clocks and not of rows.

### Pipeline

The obstacle is that a step's state lives in several places: the cell, the
outbox, the queue, the app's call. `SendsApproved` needs that what opens the gate,
the status "human_approved" or the flag `approved`, is nowhere unless the step is in
`approved` or advances by itself; `HoldByReviewer` that the status is nowhere unless
somebody entitled decided it. For that a decision must be entitled when it is read,
which is where `cleared` and `released` grow: what another writer does before the
decision is written takes nothing back. The exceptions in the two
properties are steps whose approval this code writes without asking: advancing steps,
and review gates at CONFIRM. `SentOnce` needs the count of effects bounded by the count
of tries at each stage of a call.

`RunningIsRun` is not inductive: a queued "running" may overwrite what ended it.
`RunningInv` adds that behind each queued "running" there is a task, the app's call or
another write of that step (`Ongoing`), and that the task of an unsent one is still
calling, for every step that is not orphaned. A step is orphaned when its task dies or
its last write fails, by whichever run, and no longer once somebody starts it.

The walk of a plan takes an invariant about where a run is and one for each question:

* `WalkInv`: a run executes steps of its current batch only, and none before it has
  looked at the whole batch.
* `SequentialInv` (`DependenciesDone` without a plan): the loop goes on only past
  steps that do not wait for an approval, so what `deps_met` finds complete in the
  run's snapshot was completed by this run. A step that panics takes the run with it.
* `WaveInv` (along a plan): what lies in an earlier wave was approved or done by this
  run, or its task died, since no wave is entered once the run failed or waits; what is not good in the
  current one is still to come or made the run fail or wait. It is inductive for
  levelled plans only: a step stalled behind its barrier stops nothing, so the gate
  must have made the run wait in an earlier wave.
* `CoverInv` (`DoneCoversBoard`): every step of the batches passed was resolved or
  got a state, is still to come, or the run will not say "done".

One lemma per kind of step (`PassChange`, `StartChange`, `FinishChange`, ...) says
what it does to the run, and `RunMoves` that every step of the system is one of
these for the run or leaves it alone.

### Only model-checked

Everything under fairness (`Converges`, `EntitledCatchesUp`, `RetriesLand`,
`LanesSettle`, `RunsEnd`), because liveness and ENABLED are beyond the prover,
and the four violations, which are counterexamples.

## Not modelled

* Of the store: `RenameBoard`, `ReorderNotebookCells`, `ClearWhiteboard`,
  integrations, the workflow state's lane (merged like a pin).
* Of joining: dissolve, roles and `authorize_write`, expiry of grants, which peer is
  picked among the offers.
* Of files: two downloads of one file at once (they share the tmp file), the choice
  and eviction of swarm holders, the upload side.
* Of the review: see the abstractions; the version a conform commits and the round
  it belongs to are not related by a property, because the code does not relate them.
* Of the pipeline: how a plan is optimised, how a run's states reach other peers (as
  cells, by the rules of `GroupStore`), statistics.
* Unread accounting: the repository promises nothing about repeated or repaired
  chats that could be checked.
* Notes RBAC: a table of scopes and tiers, without state. The two inbound lanes call
  the same verdict function.
* Group lifecycle: bundles are sealed, opened and inserted in bulk; the keying epochs
  of `group_rekey.rs` are not called from anywhere.
* Workflow: parsing of step texts, file lookup, and a lock bit with its grant check.
* Discovery, rendezvous, Lens, AI, MCP transport, media, ingest, node binary,
  licensing: I/O, codecs, HTTP and LLM clients, marshalling.

What remains worth doing: the composition of `GroupJoin` with `AntiEntropy`, so that
a pull's frames are rows on both sides; branches and outcome labels of the ledger;
two downloads of one file.
