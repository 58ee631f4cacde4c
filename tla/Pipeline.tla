------------------------------- MODULE Pipeline -------------------------------
(***************************************************************************)
(* The pipeline of one board: the runs that execute its steps, one after   *)
(* the other or along a physical plan, the tool calls they make, and what  *)
(* users do meanwhile (approve, reject, retry, reset, confirm).            *)
(*                                                                         *)
(* A step's state lives in the metadata of its notebook cell.  It is       *)
(* written twice: at once, under the database lock, and once more when the *)
(* command that gossips the same metadata reaches the command actor.  Runs *)
(* work on a snapshot of the states taken when they were started; nothing  *)
(* keeps two runs of a board apart.  A write may fail and a step's task    *)
(* may die; both are logged and nothing else.                              *)
(*                                                                         *)
(* The app walks a board itself too (its LensRunCoordinator, no code of    *)
(* this repository): it writes whole states around the tool calls it asks  *)
(* for, with the flags "approved" and "local_gate" that only it sets.      *)
(*                                                                         *)
(* Left out: the step's output and cost, attempt counters, the run id that *)
(* labels a run's events, notifications and the content of cells.          *)
(***************************************************************************)
EXTENDS Naturals, Sequences, FiniteSets, SequencesExt

CONSTANTS
  None,
  Step,             \* the board's steps
  User,             \* who can be named as reviewer
  Order,            \* the steps in cell order, which is a topological order
  Deps,             \* depends_on
  Boards,           \* the states of the steps a board may start with
  AutoAdvance,             \* auto_advance
  Manual,           \* executor "manual"
  ReviewGate,       \* manual steps marked review_gate
  Hold, WaitingOn,  \* review_hold, and the reviewer compiled into it
  Sends,            \* bound to a tool with external side effects
  NonIdempotent,    \* bound to a tool in NON_IDEMPOTENT_TOOLS
  WavePlans,        \* the physical plans the board may carry
  AutoRetryBudget,  \* DEFAULT_AUTO_RETRY_BUDGET
  MaxBacklog,       \* commands sent or to be sent and not yet handled
  MaxRuns,          \* runs started
  MaxVerbs, MaxRestarts,
  MaxFaults         \* writes that fail and tasks that die

Run == 1 .. MaxRuns
Resolved == {"human_approved", "skipped"}
Status ==   \* what is written: no code writes "skipped"
  {"pending", "scheduled", "running", "ai_complete", "human_approved", "failed"}
(* The flags: an approval the app carried over, and the park before an upload. *)
State == [status : Status, approved : BOOLEAN, local_gate : BOOLEAN]
Plain(status) == [status |-> status, approved |-> FALSE, local_gate |-> FALSE]
Command == [step : Step, state : State]

(* A plan as the executor walks it: batches in order, the wave each is in, *)
(* and the optimizer's marks.  Running without a plan is a plan too: each  *)
(* step a batch of its own, in topological order.                          *)
Plan == [mode : {"sequential", "wave"}, batches : Seq(SUBSET Step), wave : Seq(Nat),
         hits : SUBSET Step, gates : SUBSET Step, barrier : [Step -> Step \union {None}]]

(* Waves are walked one after the other. *)
Layered(p) ==
  /\ Len(p.wave) = Len(p.batches)
  /\ \A j, k \in DOMAIN p.wave : j <= k => p.wave[j] <= p.wave[k]

SequentialPlan ==
  [mode |-> "sequential", batches |-> [k \in DOMAIN Order |-> {Order[k]}],
   wave |-> [k \in DOMAIN Order |-> k], hits |-> {}, gates |-> {},
   barrier |-> [s \in Step |-> None]]

Idle == [phase |-> "idle", plan |-> SequentialPlan, snap |-> [s \in Step |-> "pending"],
         at |-> 1, batch |-> {}, failed |-> FALSE, awaiting |-> FALSE,
         stop |-> FALSE, touched |-> {}, done |-> {}, died |-> {}]
Ended(phase) == [Idle EXCEPT !.phase = phase]
NoTask == [stage |-> "none", tries |-> 0, sent |-> 0, refreshed |-> FALSE]
NoCall == [step |-> None, state |-> Plain("pending")]
App == 0

ASSUME PipelineAssumption ==
  /\ IsFiniteSet(Step) /\ MaxRuns \in Nat /\ None \notin Step \union User
  /\ Order \in Seq(Step) /\ Range(Order) = Step
  /\ Deps \in [Step -> SUBSET Step]
  /\ Boards \subseteq [Step -> {c \in State : c.status # "running"}]
  /\ AutoAdvance \subseteq Step /\ Manual \subseteq Step /\ ReviewGate \subseteq Manual
  /\ Hold \subseteq Step /\ WaitingOn \in [Step -> User \union {None}]
  /\ Sends \subseteq Step /\ NonIdempotent \subseteq Step
  /\ \A p \in WavePlans : p \in Plan /\ p.mode = "wave" /\ Layered(p)
  /\ AutoRetryBudget \in Nat /\ MaxBacklog \in Nat
  /\ MaxVerbs \in Nat /\ MaxRestarts \in Nat /\ MaxFaults \in Nat

(* The order is a topological one. *)
ASSUME OrderAssumption ==
  \A k \in DOMAIN Order : \A d \in Deps[Order[k]] : \E j \in 1 .. k - 1 : Order[j] = d

VARIABLES
  cell,       \* cell[s]: the step's state in the database
  queue,      \* UpdateNotebookCell commands waiting for the command actor
  outbox,     \* commands a writer has still to send, its write being done
  assignee,   \* the board's row of review_assignees
  run,        \* run[r]: what a run keeps in memory
  task,       \* task[r][s]: the execution of a step by a run
  call,       \* the app's call between its read and its write
  hand,       \* hand[s]: how far the app's coordinator is with the step
  approved,   \* steps somebody decided to approve so far (history)
  cleared,    \* holds their compiled reviewer decided to approve (history)
  released,   \* steps approved while parked before their upload (history)
  sent,       \* steps whose tool's side effect has happened (history)
  orphaned,   \* steps whose last execution ended without a word (history)
  verbs, restarts, faults

vars == <<cell, queue, outbox, assignee, run, task, call, hand, approved, cleared, released,
          sent, orphaned, verbs, restarts, faults>>

-----------------------------------------------------------------------------
(* Writes *)

UpdateCell(s, state) == [step |-> s, state |-> state]

(* The code's own writers change the status and leave the flags as they are. *)
Patched(s, status) == [cell[s] EXCEPT !.status = status]

(* A bound: the command actor is never further behind. *)
InStep == Len(queue) + Cardinality(outbox) < MaxBacklog

Fault == faults < MaxFaults /\ faults' = faults + 1

(* The synchronous write; an error of the database goes unnoticed. *)
Store(s, state) ==
  \/ cell' = [cell EXCEPT ![s] = state] /\ UNCHANGED faults
  \/ Fault /\ UNCHANGED cell

(* update_step_state_full_on: the status under the lock; the command is    *)
(* sent when the lock is released.                                         *)
SetState(r, s, status) ==
  /\ InStep
  /\ Store(s, Patched(s, status))
  /\ outbox' = outbox \union {[by |-> r, cmd |-> UpdateCell(s, Patched(s, status))]}

(* No lock or no row: the caller logs it and goes on. *)
WriteFails == InStep /\ Fault /\ UNCHANGED <<cell, outbox>>

update_step_state(r, s, status) == SetState(r, s, status) \/ WriteFails

Unsent(x) == \E m \in outbox : m.by = x

SendCommand(m) ==
  /\ m \in outbox
  /\ outbox' = outbox \ {m}
  /\ queue' = Append(queue, m.cmd)
  /\ UNCHANGED <<cell, assignee, run, task, call, hand, approved, cleared, released,
                 sent, orphaned, verbs, restarts, faults>>

(* The command actor writes the metadata a command carries, whole. *)
UpdateNotebookCell ==
  /\ queue # <<>>
  /\ cell' = [cell EXCEPT ![Head(queue).step] = Head(queue).state]
  /\ queue' = Tail(queue)
  /\ UNCHANGED <<outbox, assignee, run, task, call, hand, approved, cleared,
                 released, sent, orphaned, verbs, restarts, faults>>

-----------------------------------------------------------------------------
(* A run: load, walk the batches, report *)

load_pipeline_cells == [s \in Step |-> cell[s].status]

(* The plan an optimizer attached to the board, or none. *)
load_physical_plan == WavePlans \union {SequentialPlan}

StartRun(r) ==
  /\ run[r].phase = "idle"
  /\ \A q \in 1 .. r - 1 : run[q].phase # "idle"
  /\ \E p \in load_physical_plan :
       run' = [run EXCEPT ![r] =
         [Idle EXCEPT !.phase = "running", !.plan = p, !.snap = load_pipeline_cells]]
  /\ UNCHANGED <<cell, queue, outbox, assignee, task, call, hand, approved, cleared,
                 released, sent, orphaned, verbs, restarts, faults>>

(* Nothing of the current batch is unfinished. *)
BatchOver(r) ==
  /\ run[r].phase = "running" /\ run[r].batch = {}
  /\ \A s \in Step : task[r][s].stage = "none"
  /\ ~Unsent(r)

(* Without a plan the loop is left at once; with one, between waves only. *)
Halted(r) ==
  LET p == run[r].plan  k == run[r].at IN
  IF p.mode = "sequential" THEN run[r].stop
  ELSE /\ run[r].failed \/ run[r].awaiting
       /\ k \in 2 .. Len(p.wave) /\ p.wave[k] # p.wave[k - 1]

NextBatch(r) ==
  /\ BatchOver(r)
  /\ run[r].at <= Len(run[r].plan.batches) /\ ~Halted(r)
  /\ run' = [run EXCEPT ![r].batch = run[r].plan.batches[run[r].at], ![r].at = @ + 1]
  /\ UNCHANGED <<cell, queue, outbox, assignee, task, call, hand, approved, cleared,
                 released, sent, orphaned, verbs, restarts, faults>>

FinishRun(r) ==
  /\ BatchOver(r)
  /\ run[r].at > Len(run[r].plan.batches) \/ Halted(r)
  /\ run' = [run EXCEPT ![r] = Ended(IF @.failed THEN "failed"
                                     ELSE IF @.awaiting THEN "awaiting_approval" ELSE "done")]
  /\ UNCHANGED <<cell, queue, outbox, assignee, task, call, hand, approved, cleared,
                 released, sent, orphaned, verbs, restarts, faults>>

Sequential(r) == run[r].plan.mode = "sequential"

AnyDependencyMet(r, s) ==   \* mutant: one dependency is enough
  Deps[s] = {} \/ \E d \in Deps[s] : run[r].snap[d] = "human_approved"

(* The verdict on a step of the batch, from the snapshot alone. *)
deps_met(r, s) ==
  \A d \in Deps[s] : \/ run[r].snap[d] = "human_approved"
                     \/ d \in AutoAdvance /\ run[r].snap[d] = "ai_complete"

gate_satisfied(r, s) ==
  LET g == run[r].plan.barrier[s] IN g = None \/ run[r].snap[g] = "human_approved"

ResolvedOrComplete(status) ==   \* mutant: a step that waits for approval is passed over
  status \in Resolved \union {"ai_complete"}

IsResolved(status) == status \in Resolved

(* The first of these conditions that holds decides. *)
execute_sequential(r, s) ==
  LET was == run[r].snap[s] IN
  IF IsResolved(was) THEN "skip"
  ELSE IF was = "ai_complete" THEN "resurface"
  ELSE IF was = "failed" THEN "stay_failed"
  ELSE IF s \in Manual THEN "gate"
  ELSE IF ~deps_met(r, s) THEN "stall"
  ELSE "execute"

(* A wave executes again what is complete or failed. *)
execute_waves(r, s) ==
  IF IsResolved(run[r].snap[s]) THEN "skip"
  ELSE IF s \in run[r].plan.hits THEN "cache_hit"
  ELSE IF s \in Manual \union run[r].plan.gates THEN "gate"
  ELSE IF ~gate_satisfied(r, s) THEN "stall"
  ELSE "execute"

Verdict(r, s) == IF Sequential(r) THEN execute_sequential(r, s) ELSE execute_waves(r, s)

GatesWait(r, s) ==   \* mutant: a run waits at a gate until it is approved
  Verdict(r, s) \notin {"execute", "gate"}

NeedsNoTool(r, s) == Verdict(r, s) # "execute"

Passed(me, s, v) ==
  [me EXCEPT !.batch = @ \ {s},
             !.awaiting = @ \/ v \in {"resurface", "gate"},
             !.stop = @ \/ v = "resurface",
             !.failed = @ \/ v = "stay_failed",
             !.done = IF v = "cache_hit" THEN @ \union {s} ELSE @,
             !.touched = IF v \in {"gate", "stall", "cache_hit"} THEN @ \union {s} ELSE @]

(* A step that needs no tool: passed over, or parked, or taken from the cache. *)
PassStep(r, s) ==
  LET v == Verdict(r, s) IN
  /\ s \in run[r].batch /\ ~Unsent(r)
  /\ NeedsNoTool(r, s)
  /\ run' = [run EXCEPT ![r] = Passed(@, s, v)]
  /\ IF v \in {"gate", "stall", "cache_hit"}
     THEN update_step_state(r, s, IF v = "cache_hit" THEN "ai_complete" ELSE "scheduled")
     ELSE UNCHANGED <<cell, outbox, faults>>
  /\ UNCHANGED <<queue, assignee, task, call, hand, approved, cleared, released,
                 sent, orphaned, verbs, restarts>>

EnlistStep(r, s) ==
  /\ s \in run[r].batch /\ ~Unsent(r)
  /\ Verdict(r, s) = "execute"
  /\ run' = [run EXCEPT ![r].batch = @ \ {s}]
  /\ task' = [task EXCEPT ![r][s] = [NoTask EXCEPT !.stage = "queued"]]
  /\ UNCHANGED <<cell, queue, outbox, assignee, call, hand, approved, cleared,
                 released, sent, orphaned, verbs, restarts, faults>>

-----------------------------------------------------------------------------
(* exec_one_step, one task per step of the batch *)

StartStep(r, s) ==
  /\ task[r][s].stage = "queued" /\ run[r].batch = {}
  /\ update_step_state(r, s, "running")
  /\ task' = [task EXCEPT ![r][s].stage = "calling"]
  /\ run' = [run EXCEPT ![r].touched = @ \union {s}]
  /\ orphaned' = orphaned \ {s}
  /\ UNCHANGED <<queue, assignee, call, hand, approved, cleared, released, sent,
                 verbs, restarts>>

UnsentStep(r, s) == \E m \in outbox : m.by = r /\ m.cmd.step = s

CompleteIsApproved(s) ==   \* mutant: the gate takes a completed step for an approved one
  cell[s].status \in {"ai_complete", "human_approved"} \/ cell[s].approved

step_is_approved(s) == cell[s].status = "human_approved" \/ cell[s].approved

RetryAnyTool(s, tries) == tries < AutoRetryBudget   \* mutant: non-idempotent tools too

should_auto_retry(s, tries) == tries < AutoRetryBudget /\ s \notin NonIdempotent

(* What a call of the step's tool came to.  A gated call opens no          *)
(* transport, and an upload whose content is registered already is not     *)
(* made.  A call refused for its credentials has no effect; any other      *)
(* failed call may have had its effect or not.                             *)
Outcomes(s) ==
  (IF s \in Sends \intersect NonIdempotent THEN {"reused"} ELSE {}) \union
  (IF s \in Sends /\ ~step_is_approved(s) THEN {"gated"} ELSE {"ok", "transient", "auth", "error"})

(* The effects an outcome leaves open. *)
Effects(o) ==
  CASE o = "ok" -> {TRUE}
    [] o \in {"transient", "error"} -> BOOLEAN
    [] OTHER -> {FALSE}

(* Expired credentials are refreshed and the call repeated, once per try.  *)
ToolStage(t, s, o) ==
  CASE o \in {"ok", "reused"} -> "succeeded"
    [] o = "auth" /\ ~t.refreshed -> "calling"
    [] o = "transient" /\ should_auto_retry(s, t.tries) -> "calling"
    [] OTHER -> "erred"

CallTool(r, s) ==
  LET t == task[r][s] IN
  /\ t.stage = "calling" /\ ~UnsentStep(r, s)
  /\ \E o \in Outcomes(s) : \E effect \in Effects(o) :
       LET again == ToolStage(t, s, o) = "calling" IN
       /\ task' = [task EXCEPT ![r][s] =
            [stage |-> ToolStage(t, s, o), sent |-> IF effect THEN t.sent + 1 ELSE t.sent,
             tries |-> IF again /\ o = "transient" THEN t.tries + 1 ELSE t.tries,
             refreshed |-> again /\ o = "auth"]]
       /\ sent' = IF effect THEN sent \union {s} ELSE sent
  /\ UNCHANGED <<cell, queue, outbox, assignee, run, call, hand, approved, cleared,
                 released, orphaned, verbs, restarts, faults>>

ErrorUnrecorded(r, s) ==   \* mutant: a failure leaves the step's state as it is
  /\ task[r][s].stage \in {"succeeded", "erred"}
  /\ task' = [task EXCEPT ![r][s] = NoTask]
  /\ run' = [run EXCEPT ![r].failed = TRUE, ![r].stop = TRUE]
  /\ UNCHANGED <<cell, queue, outbox, assignee, call, hand, approved, cleared,
                 released, sent, orphaned, verbs, restarts, faults>>

fold(me, s, ok) ==
  [me EXCEPT !.failed = @ \/ ~ok,
             !.awaiting = @ \/ (ok /\ s \notin AutoAdvance),
             !.stop = @ \/ ~ok \/ s \notin AutoAdvance,
             !.done = IF ok THEN @ \union {s} ELSE @]

FinishStep(r, s) ==
  LET ok == task[r][s].stage = "succeeded" IN
  /\ task[r][s].stage \in {"succeeded", "erred"}
  /\ \/ /\ SetState(r, s, IF ~ok THEN "failed"
                          ELSE IF s \in AutoAdvance THEN "human_approved" ELSE "ai_complete")
        /\ UNCHANGED orphaned
     \/ WriteFails /\ orphaned' = orphaned \union {s}
  /\ task' = [task EXCEPT ![r][s] = NoTask]
  /\ run' = [run EXCEPT ![r] = fold(@, s, ok)]
  /\ UNCHANGED <<queue, assignee, call, hand, approved, cleared, released, sent,
                 verbs, restarts>>

(* A wave logs that a task failed to join and goes on, with neither a      *)
(* failure nor a state; without a plan the task is the run's own.          *)
JoinFailed(r, s) ==
  IF Sequential(r) THEN Ended("lost") ELSE [run[r] EXCEPT !.died = @ \union {s}]

(* A task panics. *)
TaskDies(r, s) ==
  /\ task[r][s].stage \in {"calling", "succeeded", "erred"} /\ ~UnsentStep(r, s)
  /\ Fault
  /\ task' = [task EXCEPT ![r][s] = NoTask]
  /\ run' = [run EXCEPT ![r] = JoinFailed(r, s)]
  /\ orphaned' = orphaned \union {s}
  /\ UNCHANGED <<cell, queue, outbox, assignee, call, hand, approved, cleared,
                 released, sent, verbs, restarts>>

-----------------------------------------------------------------------------
(* What users do *)

(* One call of the app at a time, a bound. *)
MayCall == call = NoCall /\ ~Unsent(App) /\ verbs < MaxVerbs

AssigneeOnly(s, who) ==   \* mutant: the reviewer compiled into the step is forgotten
  s \in Hold => assignee \in {None, who}

(* enforce_review_gate_for: a hold with a reviewer is that reviewer's to   *)
(* decide; the compiled one counts before the board's.                     *)
enforce_review_gate(s, who) ==
  LET want == IF WaitingOn[s] # None THEN WaitingOn[s] ELSE assignee
  IN s \in Hold => want \in {None, who}

set_review_assignee(who) ==
  /\ MayCall /\ assignee # who
  /\ assignee' = who
  /\ verbs' = verbs + 1
  /\ UNCHANGED <<cell, queue, outbox, run, task, call, hand, approved, cleared,
                 released, sent, orphaned, restarts, faults>>

(* A step parked before its upload is anybody's to release or to reject.   *)
step_state_is_local_gate(s) == cell[s].local_gate

MayDecide(s, who) == step_state_is_local_gate(s) \/ enforce_review_gate(s, who)

(* Read under the lock, write under it again: what another writer does to  *)
(* the row in between is overwritten.                                      *)
approve_step(s, who) ==
  /\ MayCall
  /\ MayDecide(s, who)
  /\ call' = UpdateCell(s, Patched(s, "human_approved"))
  /\ approved' = approved \union {s}
  /\ cleared' = IF who = WaitingOn[s] /\ s \in Hold THEN cleared \union {s} ELSE cleared
  /\ released' = IF step_state_is_local_gate(s) THEN released \union {s} ELSE released
  /\ verbs' = verbs + 1
  /\ UNCHANGED <<cell, queue, outbox, assignee, run, task, hand, sent, orphaned,
                 restarts, faults>>

(* retry_step and reset_step: they differ in the attempt counter only.     *)
step_state_surgery(s) ==
  /\ MayCall
  /\ call' = UpdateCell(s, Patched(s, "pending"))
  /\ verbs' = verbs + 1
  /\ UNCHANGED <<cell, queue, outbox, assignee, run, task, hand, approved, cleared,
                 released, sent, orphaned, restarts, faults>>

WriteCall ==
  /\ call # NoCall /\ InStep
  /\ Store(call.step, call.state)
  /\ outbox' = outbox \union {[by |-> App, cmd |-> call]}
  /\ call' = NoCall
  /\ UNCHANGED <<queue, assignee, run, task, hand, approved, cleared, released,
                 sent, orphaned, verbs, restarts>>

RejectedStatus(s, who) ==   \* mutant: a status no other code knows
  /\ MayCall /\ InStep
  /\ MayDecide(s, who)
  /\ outbox' = outbox \union {[by |-> App, cmd |-> UpdateCell(s, Patched(s, "rejected"))]}
  /\ verbs' = verbs + 1
  /\ UNCHANGED <<cell, queue, assignee, run, task, call, hand, approved, cleared,
                 released, sent, orphaned, restarts, faults>>

(* A rejection is written by the command actor only. *)
reject_step(s, who) ==
  /\ MayCall /\ InStep
  /\ MayDecide(s, who)
  /\ outbox' = outbox \union {[by |-> App, cmd |-> UpdateCell(s, Patched(s, "failed"))]}
  /\ verbs' = verbs + 1
  /\ UNCHANGED <<cell, queue, assignee, run, task, call, hand, approved, cleared,
                 released, sent, orphaned, restarts, faults>>

(* So is the reset of a whole board.                                    *)
reset_pipeline ==
  /\ MayCall /\ InStep
  /\ queue' = queue \o [k \in DOMAIN Order |-> UpdateCell(Order[k], Patched(Order[k], "pending"))]
  /\ verbs' = verbs + 1
  /\ UNCHANGED <<cell, outbox, assignee, run, task, call, hand, approved, cleared,
                 released, sent, orphaned, restarts, faults>>

(* The review loop's CONFIRM approves the parked review gates, one         *)
(* connection for all of them, in the order a query happens to return; it  *)
(* gives up at a row it cannot read, and does not notice one not written.  *)
approve_review_gate_steps ==
  LET parked == {s \in ReviewGate : cell[s].status \notin Resolved \union {"failed"}} IN
  \E reached \in SUBSET parked : \E stored \in SUBSET reached :
    \E gates \in Injection(1 .. Cardinality(reached), reached) :
     /\ MayCall /\ InStep /\ parked # {}
     /\ IF stored = parked THEN UNCHANGED faults ELSE Fault
     /\ cell' = [s \in Step |-> IF s \in stored THEN Patched(s, "human_approved") ELSE cell[s]]
     /\ queue' = queue \o [k \in DOMAIN gates |->
                            UpdateCell(gates[k], Patched(gates[k], "human_approved"))]
     /\ approved' = approved \union reached
     /\ verbs' = verbs + 1
     /\ UNCHANGED <<outbox, assignee, run, task, call, hand, cleared, released,
                    sent, orphaned, restarts>>

-----------------------------------------------------------------------------
(* The app's coordinator.  Its writes are commands and carry whole states. *)

AppWrites(s, state) == InStep /\ queue' = Append(queue, UpdateCell(s, state))

(* The in-flight write; right after an approval it carries the approval on. *)
dispatch_step(s) ==
  /\ MayCall /\ s \notin Manual /\ hand[s] = "none"
  /\ \E carried \in {FALSE, step_is_approved(s)} :
       AppWrites(s, [Plain("running") EXCEPT !.approved = carried])
  /\ hand' = [hand EXCEPT ![s] = "calling"]
  /\ verbs' = verbs + 1
  /\ UNCHANGED <<cell, outbox, assignee, run, task, call, approved, cleared,
                 released, sent, orphaned, restarts, faults>>

(* One step's tool is called on the device; nothing else is written. *)
cyan_pipeline_run_step_local(s) ==
  /\ hand[s] = "calling"
  /\ \E o \in Outcomes(s) : \E effect \in Effects(o) :
       /\ hand' = [hand EXCEPT ![s] = IF o = "gated" THEN "gated"
                                      ELSE IF o \in {"ok", "reused"} THEN "ok" ELSE "error"]
       /\ sent' = IF effect THEN sent \union {s} ELSE sent
  /\ UNCHANGED <<cell, queue, outbox, assignee, run, task, call, approved, cleared,
                 released, orphaned, verbs, restarts, faults>>

(* What came of it is written: a gated step is parked before its upload. *)
settle_step(s) ==
  /\ hand[s] \in {"gated", "ok", "error"}
  /\ AppWrites(s, IF hand[s] = "error" THEN Plain("failed")
                  ELSE [Plain("ai_complete") EXCEPT !.local_gate = hand[s] = "gated"])
  /\ hand' = [hand EXCEPT ![s] = "none"]
  /\ UNCHANGED <<cell, outbox, assignee, run, task, call, approved, cleared,
                 released, sent, orphaned, verbs, restarts, faults>>

(* The app quits or crashes: runs, calls and queued commands are gone; *)
(* where there are none, nothing happens.                              *)
Restart ==
  /\ restarts < MaxRestarts
  /\ restarts' = restarts + 1
  /\ run' = [r \in Run |-> IF run[r].phase = "running" THEN Ended("lost") ELSE run[r]]
  /\ task' = [r \in Run |-> [s \in Step |-> NoTask]]
  /\ call' = NoCall /\ hand' = [s \in Step |-> "none"]
  /\ queue' = <<>> /\ outbox' = {}
  /\ <<run, call, hand, queue, outbox>>' # <<run, call, hand, queue, outbox>>
  /\ UNCHANGED <<cell, assignee, approved, cleared, released, sent, orphaned, verbs,
                 faults>>

(* The entry points of the app.  A decision may name no reviewer at all.  A *)
(* run may be asked for at any time, by a retry too.                        *)
cyan_run_pipeline(r) == StartRun(r)
cyan_pipeline_approve(s) == \E who \in User \union {None} : approve_step(s, who)
cyan_pipeline_reject(s) == \E who \in User \union {None} : reject_step(s, who)

-----------------------------------------------------------------------------
(* A board as earlier runs and decisions may have left it. *)
Init ==
  /\ cell \in Boards
  /\ queue = <<>> /\ outbox = {} /\ assignee = None
  /\ run = [r \in Run |-> Idle]
  /\ task = [r \in Run |-> [s \in Step |-> NoTask]]
  /\ call = NoCall /\ hand = [s \in Step |-> "none"]
  /\ approved = {s \in Step : cell[s].approved \/ cell[s].status = "human_approved"}
  /\ cleared = {s \in Hold : cell[s].status = "human_approved"} /\ released = {}
  /\ sent = {} /\ orphaned = {}
  /\ verbs = 0 /\ restarts = 0 /\ faults = 0

RunNext(r) ==
  \/ NextBatch(r) \/ FinishRun(r)
  \/ \E s \in Step : \/ PassStep(r, s) \/ EnlistStep(r, s)
                     \/ StartStep(r, s) \/ CallTool(r, s) \/ FinishStep(r, s)

UserNext ==
  \/ WriteCall \/ reset_pipeline \/ approve_review_gate_steps
  \/ \E who \in User : set_review_assignee(who)
  \/ \E s \in Step : step_state_surgery(s) \/ cyan_pipeline_approve(s) \/ cyan_pipeline_reject(s)

LensRunCoordinator ==
  \E s \in Step : dispatch_step(s) \/ cyan_pipeline_run_step_local(s) \/ settle_step(s)

Sending == \E m \in outbox : SendCommand(m)

Next ==
  \/ \E r \in Run : cyan_run_pipeline(r) \/ RunNext(r)
  \/ \E r \in Run, s \in Step : TaskDies(r, s)
  \/ UserNext \/ LensRunCoordinator
  \/ Sending \/ UpdateNotebookCell \/ Restart

(* Runs are tasks of a runtime whose workers do not block, and a tool call *)
(* or its transport gives up at some time; so a run that can go on does.  The *)
(* command actor loops on its channel.                                     *)
Spec == Init /\ [][Next]_vars /\ (\A r \in Run : WF_vars(RunNext(r)))
             /\ WF_vars(Sending) /\ WF_vars(UpdateNotebookCell)

-----------------------------------------------------------------------------
(* Properties *)

RunRecord ==
  [phase : {"idle", "running", "done", "failed", "awaiting_approval", "lost"},
   plan : load_physical_plan, snap : [Step -> Status], at : Nat \ {0}, batch : SUBSET Step,
   failed : BOOLEAN, awaiting : BOOLEAN, stop : BOOLEAN,
   touched : SUBSET Step, done : SUBSET Step, died : SUBSET Step]

TaskRecord ==
  [stage : {"none", "queued", "calling", "succeeded", "erred"},
   tries : Nat, sent : Nat, refreshed : BOOLEAN]

TypeOK ==
  /\ cell \in [Step -> State]
  /\ queue \in Seq(Command)
  /\ outbox \subseteq [by : {App} \union Run, cmd : Command]
  /\ assignee \in User \union {None}
  /\ run \in [Run -> RunRecord]
  /\ task \in [Run -> [Step -> TaskRecord]]
  /\ call \in Command \union {NoCall}
  /\ hand \in [Step -> {"none", "calling", "gated", "ok", "error"}]
  /\ approved \subseteq Step /\ cleared \subseteq Step /\ released \subseteq Step
  /\ sent \subseteq Step /\ orphaned \subseteq Step
  /\ verbs \in Nat /\ restarts \in Nat /\ faults \in Nat

(* A tool with external effects has an effect only after somebody approved *)
(* its step (mcp_host.rs: never auto-executed), whatever runs, retries,    *)
(* late commands, the app's own writes and restarts come in between.  A    *)
(* step that advances by itself has waived that: its run writes the        *)
(* approval, and the next call of its tool finds the gate open.            *)
SendsApproved == sent \intersect Sends \subseteq approved \union AutoAdvance

(* A review hold with a compiled reviewer is approved only once that       *)
(* reviewer decided so, or somebody released the step while it was parked  *)
(* before its upload; no run, late command or other decision does it.  Two *)
(* kinds of hold the code leaves open: one that advances by itself, and a  *)
(* review gate, which CONFIRM approves without asking who.                 *)
HoldByReviewer ==
  \A s \in Hold \ (AutoAdvance \union ReviewGate) :
    cell[s].status = "human_approved" /\ WaitingOn[s] # None => s \in cleared \union released

(* One execution of a step has the effect of a non-idempotent tool at most *)
(* once, and calls no tool more often than the budget allows.              *)
SentOnce ==
  \A r \in Run, s \in Step :
    task[r][s].sent <= IF s \in NonIdempotent THEN 1 ELSE 1 + AutoRetryBudget

(* Whatever a run executes, each of its dependencies is approved or was    *)
(* completed by this run: no orphan step runs behind one that failed, is   *)
(* parked or was never reached.  The one exception: along a plan a         *)
(* dependency whose task died holds nothing up.                            *)
DependenciesDone ==
  \A r \in Run, s \in Step :
    task[r][s].stage # "none" =>
      \A d \in Deps[s] : \/ run[r].snap[d] = "human_approved" \/ d \in run[r].done
                         \/ ~Sequential(r) /\ d \in run[r].died

(* What the optimizer promises of a plan and no code here checks: a step is in *)
(* a later wave than what it depends on, and than the gate it waits behind,    *)
(* and an answer of a human that others wait for is not taken from the cache.  *)
Earlier(p, k, s) == \E j \in DOMAIN p.batches : s \in p.batches[j] /\ p.wave[j] < p.wave[k]

Levelled(p) ==
  \A k \in DOMAIN p.batches : \A s \in p.batches[k] :
    /\ \A d \in Deps[s] : Earlier(p, k, d)
    /\ p.barrier[s] # None => /\ p.barrier[s] \in (Manual \union p.gates) \ p.hits
                              /\ Earlier(p, k, p.barrier[s])

(* And that every step of the board is in it. *)
CoversBoard(p) == UNION Range(p.batches) = Step

(* A run that reports "done" left no step aside: each was resolved when it *)
(* began, or the run parked it, reused its result or started to execute it. *)
DoneCoversBoard ==
  [][\A r \in Run : run[r].phase = "running" /\ run'[r].phase = "done" =>
       \A s \in Step : run[r].snap[s] \in Resolved \/ s \in run[r].touched]_vars

(* A step shown as running is being executed, by a run or by the app, or   *)
(* the write that ends this is on its way.  It stays running with nobody   *)
(* at it only after a restart, or when its task died or its last write     *)
(* failed and nobody has started it since.                                 *)
RunningIsRun ==
  \A s \in Step \ orphaned : cell[s].status = "running" /\ restarts = 0 =>
    \/ \E r \in Run : task[r][s].stage # "none"
    \/ hand[s] # "none"
    \/ \E m \in outbox : m.cmd.step = s
    \/ \E k \in DOMAIN queue : queue[k].step = s

(* Every run comes to an end: retries are bounded, no gate makes it wait.  *)
RunsEnd == \A r \in Run : run[r].phase = "running" ~> run[r].phase # "running"
===============================================================================
