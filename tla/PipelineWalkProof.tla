--------------------------- MODULE PipelineWalkProof ---------------------------
(* Theorems about how a run of Pipeline walks its plan, and about the states it  *)
(* leaves behind, for every board, plan and number of concurrent runs.           *)
EXTENDS PipelineProof

-------------------------------------------------------------------------------
(* Running steps.  A step shown as running, or about to be, has a task, the app's *)
(* call, or a write that will end this, still ahead of it; or its last execution  *)
(* ended without a word.                                                          *)

Busy(s) == hand[s] # "none" \/ \E r \in Run : task[r][s].stage # "none"

(* After the k-th command, step s is being executed or written again. *)
Ongoing(s, k) ==
  \/ Busy(s)
  \/ \E m \in outbox : m.cmd.step = s
  \/ \E j \in DOMAIN queue : j > k /\ queue[j].step = s

(* The running steps that count: no restart, no lost end. *)
QueueRuns ==
  \A k \in DOMAIN queue :
    queue[k].state.status = "running" /\ queue[k].step \notin orphaned => Ongoing(queue[k].step, k)

OutboxRuns ==
  \A m \in outbox : m.cmd.state.status = "running" =>
    m.by \in Run /\ task[m.by][m.cmd.step].stage = "calling"

RunningInv ==
  /\ \A s \in Step \ orphaned : cell[s].status = "running" /\ restarts = 0 => Ongoing(s, 0)
  /\ QueueRuns
  /\ OutboxRuns
  /\ call.state.status # "running"

LEMMA QueueType ==
  ASSUME TypeOK
  PROVE  /\ queue \in Seq(Command) /\ Len(queue) \in Nat /\ DOMAIN queue = 1 .. Len(queue)
         /\ \A k \in DOMAIN queue : queue[k] \in Command /\ queue[k].step \in Step
PROOF
  <1>1. queue \in Seq(Command) /\ Len(queue) \in Nat /\ DOMAIN queue = 1 .. Len(queue)
    BY DEF TypeOK
  <1>2. \A k \in DOMAIN queue : queue[k] \in Command
    BY <1>1
  <1> QED BY <1>1, <1>2 DEF Command

(* A step of the system that writes nothing. *)
LEMMA QuietRunning ==
  ASSUME TypeOK, RunningInv, UNCHANGED <<cell, queue, outbox, restarts>>,
         call'.state.status # "running", OutboxRuns',
         \A s \in Step \ orphaned' : Busy(s)' \/ (~Busy(s) /\ s \notin orphaned)
  PROVE  RunningInv'
PROOF
  <1>1. ASSUME NEW s \in Step \ orphaned', NEW k, s \in orphaned \/ Ongoing(s, k)
        PROVE  Ongoing(s, k)'
    BY <1>1 DEF Ongoing
  <1>2. \A k \in DOMAIN queue : queue[k].step \in Step
    BY QueueType
  <1> QED BY <1>1, <1>2 DEF RunningInv, QueueRuns

(* A write of a run to one of its steps, and the command that repeats it. *)
LEMMA SetStateRunning ==
  ASSUME TypeOK, RunningInv, NEW r \in Run, NEW s \in Step, NEW status \in Status,
         SetState(r, s, status), UNCHANGED <<queue, call, restarts, hand>>,
         \A x \in Step \ {s} : x \in orphaned => x \in orphaned',
         \A q \in Run, x \in Step : x # s \/ q # r => task'[q][x] = task[q][x],
         status = "running" => task'[r][s].stage = "calling",
         \A m \in outbox : m.by = r /\ m.cmd.step = s => m.cmd.state.status # "running"
  PROVE  RunningInv'
PROOF
  <1> DEFINE new == [by |-> r, cmd |-> UpdateCell(s, Patched(s, status))]
  <1>0. /\ outbox' = outbox \union {new} /\ new.cmd.step = s /\ new.cmd.state.status = status
        /\ new.by = r /\ \A x \in Step : x # s => cell'[x] = cell[x]
    <2>1. outbox' = outbox \union {new} /\ new.cmd.step = s /\ new.by = r
      BY DEF SetState, UpdateCell
    <2>2. new.cmd.state.status = status
      BY DEF UpdateCell, Patched, TypeOK, State
    <2> QED BY <2>1, <2>2 DEF SetState, Store, TypeOK
  <1> HIDE DEF new
  <1>1. \A k : Ongoing(s, k)'
    BY <1>0 DEF Ongoing
  <1>2. ASSUME NEW x \in Step, NEW k, Ongoing(x, k) PROVE Ongoing(x, k)'
    <2>1. CASE x = s
      BY <1>1, <2>1
    <2>2. CASE x # s
      BY <1>0, <1>2, <2>2 DEF Ongoing, Busy
    <2> QED BY <2>1, <2>2
  <1>3. ASSUME NEW x \in Step \ orphaned', cell'[x].status = "running", restarts' = 0
        PROVE  Ongoing(x, 0)'
    BY <1>0, <1>1, <1>2, <1>3 DEF RunningInv
  <1>4. QueueRuns'
    BY <1>1, <1>2, QueueType DEF RunningInv, QueueRuns
  <1>5. ASSUME NEW m \in outbox', m.cmd.state.status = "running"
        PROVE  m.by \in Run /\ task'[m.by][m.cmd.step].stage = "calling"
    <2>1. CASE m = new
      BY <1>0, <1>5, <2>1
    <2>2. CASE m \in outbox
      <3>1. /\ m.by \in Run /\ m.cmd.step \in Step
            /\ task[m.by][m.cmd.step].stage = "calling"
        BY <1>5, <2>2 DEF RunningInv, OutboxRuns, TypeOK, Command
      <3> QED BY <1>5, <2>2, <3>1
    <2> QED BY <1>0, <1>5, <2>1, <2>2
  <1>6. call'.state.status # "running"
    BY DEF RunningInv
  <1> QED BY <1>3, <1>4, <1>5, <1>6 DEF RunningInv, OutboxRuns

(* Commands queued: none says a step runs that nobody is at, and a step that      *)
(* nobody is at any more is written again by one of them.                         *)
LEMMA QueuedRunning ==
  ASSUME TypeOK, RunningInv, NEW cmds \in Seq(Command),
         \A k \in 1 .. Len(cmds) : cmds[k].state.status = "running" => Busy(cmds[k].step)',
         queue' = queue \o cmds, UNCHANGED <<outbox, task, call, restarts, orphaned>>,
         \A s \in Step : Busy(s) => \/ Busy(s)'
                                    \/ \E k \in 1 .. Len(cmds) : cmds[k].step = s,
         \A s \in Step : cell'[s].status = "running" => cell[s].status = "running"
  PROVE  RunningInv'
PROOF
  <1>0. queue \in Seq(Command) /\ Len(queue) \in Nat /\ Len(cmds) \in Nat
    BY DEF TypeOK
  <1>1. /\ DOMAIN queue = 1 .. Len(queue) /\ DOMAIN queue' = 1 .. (Len(queue) + Len(cmds))
        /\ \A k \in DOMAIN queue : queue'[k] = queue[k] /\ k \in DOMAIN queue'
    BY <1>0
  <1>2. ASSUME NEW s \in Step, NEW k \in 0 .. Len(queue), Ongoing(s, k) PROVE Ongoing(s, k)'
    <2>1. CASE Busy(s) /\ ~Busy(s)'
      <3>1. PICK j \in 1 .. Len(cmds) : cmds[j].step = s
        BY <2>1
      <3>2. Len(queue) + j \in DOMAIN queue' /\ Len(queue) + j > k /\ queue'[Len(queue) + j] = cmds[j]
        BY <1>0, <1>1
      <3> QED BY <3>1, <3>2 DEF Ongoing
    <2>2. CASE Busy(s)'
      BY <2>2 DEF Ongoing
    <2>3. CASE ~Busy(s)
      BY <1>1, <1>2, <2>3 DEF Ongoing
    <2> QED BY <2>1, <2>2, <2>3
  <1>3. ASSUME NEW k \in DOMAIN queue', queue'[k].state.status = "running", queue'[k].step \notin orphaned'
        PROVE  Ongoing(queue[k].step, k)'
    <2>1. CASE k > Len(queue)
      <3> DEFINE j == k - Len(queue)
      <3>1. j \in 1 .. Len(cmds) /\ queue'[k] = cmds[j]
        BY <1>0, <1>1, <2>1
      <3>2. Busy(queue[k].step)'
        BY <1>3, <3>1
      <3> QED BY <3>2 DEF Ongoing
    <2>2. CASE ~(k > Len(queue))
      <3>1. k \in DOMAIN queue /\ queue'[k] = queue[k] /\ k \in 0 .. Len(queue)
        BY <1>0, <1>1, <2>2
      <3>2. Ongoing(queue[k].step, k) /\ queue[k].step \in Step
        BY <1>3, <3>1, QueueType DEF RunningInv, QueueRuns
      <3> QED BY <1>2, <3>1, <3>2
    <2> QED BY <2>1, <2>2
  <1>4. ASSUME NEW s \in Step \ orphaned', cell'[s].status = "running", restarts' = 0
        PROVE  Ongoing(s, 0)'
    BY <1>0, <1>2, <1>4 DEF RunningInv
  <1> QED BY <1>3, <1>4 DEF RunningInv, QueueRuns, OutboxRuns

(* The end of an execution that nobody hears of. *)
LEMMA LostRunning ==
  ASSUME TypeOK, RunningInv, NEW r \in Run, NEW s \in Step,
         UNCHANGED <<cell, queue, outbox, restarts, call, hand>>,
         orphaned' = orphaned \union {s}, task' = [task EXCEPT ![r][s] = NoTask],
         \A m \in outbox : m.by = r /\ m.cmd.step = s => m.cmd.state.status # "running"
  PROVE  RunningInv'
PROOF
  <1>1. \A q \in Run, x \in Step : x # s \/ q # r => task'[q][x] = task[q][x]
    BY DEF TypeOK
  <1>2. \A m \in outbox : m.cmd.step \in Step
    BY DEF TypeOK, Command
  <1>3. OutboxRuns'
    BY <1>1, <1>2 DEF RunningInv, OutboxRuns
  <1>4. \A x \in Step \ orphaned' : Busy(x)' \/ (~Busy(x) /\ x \notin orphaned)
    BY <1>1 DEF Busy
  <1> QED BY <1>3, <1>4, QuietRunning DEF RunningInv

LEMMA TaskStepRunning ==
  ASSUME TypeOK, RunningInv, NEW r \in Run, NEW s \in Step,
         \/ PassStep(r, s) \/ EnlistStep(r, s) \/ StartStep(r, s)
         \/ CallTool(r, s) \/ FinishStep(r, s) \/ TaskDies(r, s)
  PROVE  RunningInv'
PROOF
  <1>0. /\ task \in [Run -> [Step -> TaskRecord]] /\ task[r][s] \in TaskRecord
        /\ call.state.status # "running"
        /\ \A m \in outbox : m.cmd.state.status = "running" =>
             /\ m.by \in Run /\ m.cmd.step \in Step
             /\ task[m.by][m.cmd.step].stage = "calling"
        /\ {"failed", "human_approved", "ai_complete", "scheduled", "running"} \subseteq Status
    BY DEF RunningInv, OutboxRuns, TypeOK, Command, Status
  <1>1. CASE PassStep(r, s)
    <2>1. UNCHANGED <<queue, restarts, task, call, hand, orphaned>>
      BY <1>1 DEF PassStep
    <2>2. CASE UNCHANGED <<cell, outbox>>
      BY <1>0, <2>1, <2>2, QuietRunning DEF Busy, OutboxRuns
    <2>3. ASSUME NEW status \in {"ai_complete", "scheduled"}, SetState(r, s, status)
          PROVE  RunningInv'
      <3>1. \A m \in outbox : m.by # r
        BY <1>1 DEF PassStep, Unsent
      <3> QED BY <1>0, <2>1, <2>3, <3>1, SetStateRunning
    <2> QED BY <1>1, <2>2, <2>3 DEF PassStep, update_step_state, WriteFails
  <1>2. CASE EnlistStep(r, s)
    <2>1. \A m \in outbox : m.by # r
      BY <1>2 DEF EnlistStep, Unsent
    <2>2. \A q \in Run, x \in Step :
            task'[q][x] = IF q = r /\ x = s THEN [NoTask EXCEPT !.stage = "queued"] ELSE task[q][x]
      BY <1>0, <1>2 DEF EnlistStep
    <2>3. [NoTask EXCEPT !.stage = "queued"].stage = "queued"
      BY DEF NoTask
    <2>4. UNCHANGED <<cell, queue, outbox, restarts, call, hand, orphaned>>
      BY <1>2 DEF EnlistStep
    <2>5. OutboxRuns'
      BY <1>0, <2>1, <2>2, <2>4 DEF OutboxRuns
    <2>6. \A x \in Step : Busy(x) => Busy(x)'
      BY <2>2, <2>3, <2>4 DEF Busy
    <2> QED BY <1>0, <2>4, <2>5, <2>6, QuietRunning
  <1>3. CASE StartStep(r, s)
    <2>1. task[r][s].stage = "queued"
      BY <1>3 DEF StartStep
    <2>2. \A q \in Run, x \in Step : x # s \/ q # r => task'[q][x] = task[q][x]
      BY <1>0, <1>3 DEF StartStep
    <2>3. task'[r][s].stage = "calling"
      BY <1>0, <1>3 DEF StartStep, TaskRecord
    <2>4. UNCHANGED <<queue, call, restarts, hand>> /\ orphaned' = orphaned \ {s}
      BY <1>3 DEF StartStep
    <2>5. \A m \in outbox : m.by = r /\ m.cmd.step = s => m.cmd.state.status # "running"
      BY <1>0, <2>1
    <2>6. CASE SetState(r, s, "running")
      BY <1>0, <2>2, <2>3, <2>4, <2>5, <2>6, SetStateRunning
    <2>7. CASE WriteFails
      <3>1. UNCHANGED <<cell, outbox>>
        BY <2>7 DEF WriteFails
      <3>2. OutboxRuns'
        BY <1>0, <2>2, <2>5, <3>1 DEF OutboxRuns
      <3>3. \A x \in Step \ orphaned' : Busy(x)' \/ (~Busy(x) /\ x \notin orphaned)
        BY <2>2, <2>3, <2>4 DEF Busy
      <3> QED BY <1>0, <2>4, <3>1, <3>2, <3>3, QuietRunning
    <2> QED BY <1>3, <2>6, <2>7 DEF StartStep, update_step_state
  <1>4. CASE CallTool(r, s)
    <2>1. PICK t \in {u \in TaskRecord : u.stage # "none"} : task' = [task EXCEPT ![r][s] = t]
      <3> DEFINE next(o, effect) ==
                   [stage |-> ToolStage(task[r][s], s, o),
                    sent |-> IF effect THEN task[r][s].sent + 1 ELSE task[r][s].sent,
                    tries |-> IF ToolStage(task[r][s], s, o) = "calling" /\ o = "transient"
                              THEN task[r][s].tries + 1 ELSE task[r][s].tries,
                    refreshed |-> ToolStage(task[r][s], s, o) = "calling" /\ o = "auth"]
      <3>1. PICK o \in Outcomes(s) : \E effect \in Effects(o) :
              task' = [task EXCEPT ![r][s] = next(o, effect)]
        BY <1>4 DEF CallTool
      <3>2. ToolStage(task[r][s], s, o) \in {"succeeded", "calling", "erred"}
        BY DEF ToolStage
      <3>3. task[r][s].sent \in Nat /\ task[r][s].tries \in Nat
        BY <1>0 DEF TaskRecord
      <3>4. \A effect : next(o, effect) \in {u \in TaskRecord : u.stage # "none"}
        BY <3>2, <3>3 DEF TaskRecord
      <3> HIDE DEF next
      <3> QED BY <3>1, <3>4, Zenon
    <2>2. \A q \in Run, x \in Step :
            task'[q][x] = IF q = r /\ x = s THEN t ELSE task[q][x]
      BY <1>0, <2>1
    <2>3. \A m \in outbox : ~(m.by = r /\ m.cmd.step = s)
      BY <1>4 DEF CallTool, UnsentStep
    <2>4. UNCHANGED <<cell, queue, outbox, restarts, call, hand, orphaned>>
      BY <1>4 DEF CallTool
    <2>5. OutboxRuns'
      BY <1>0, <2>2, <2>3, <2>4 DEF OutboxRuns
    <2>6. \A x \in Step : Busy(x) => Busy(x)'
      BY <2>1, <2>2, <2>4 DEF Busy
    <2> QED BY <1>0, <2>4, <2>5, <2>6, QuietRunning
  <1>5. CASE FinishStep(r, s)
    <2>1. \A q \in Run, x \in Step : x # s \/ q # r => task'[q][x] = task[q][x]
      BY <1>0, <1>5 DEF FinishStep
    <2>2. \A m \in outbox : m.by = r /\ m.cmd.step = s => m.cmd.state.status # "running"
      BY <1>0, <1>5 DEF FinishStep
    <2>3. UNCHANGED <<queue, call, restarts, hand>>
      BY <1>5 DEF FinishStep
    <2>4. ASSUME NEW status \in {"failed", "human_approved", "ai_complete"},
                 SetState(r, s, status), UNCHANGED orphaned
          PROVE  RunningInv'
      BY <1>0, <2>1, <2>2, <2>3, <2>4, SetStateRunning
    <2>5. CASE WriteFails /\ orphaned' = orphaned \union {s}
      <3>1. UNCHANGED <<cell, outbox>> /\ task' = [task EXCEPT ![r][s] = NoTask]
        BY <1>5, <2>5 DEF FinishStep, WriteFails
      <3> QED BY <2>2, <2>3, <2>5, <3>1, LostRunning
    <2> QED BY <1>5, <2>4, <2>5 DEF FinishStep
  <1>6. CASE TaskDies(r, s)
    <2>1. /\ UNCHANGED <<cell, queue, outbox, restarts, call, hand>>
          /\ orphaned' = orphaned \union {s} /\ task' = [task EXCEPT ![r][s] = NoTask]
      BY <1>6 DEF TaskDies
    <2>2. \A m \in outbox : ~(m.by = r /\ m.cmd.step = s)
      BY <1>6 DEF TaskDies, UnsentStep
    <2> QED BY <2>1, <2>2, LostRunning
  <1> QED BY <1>1, <1>2, <1>3, <1>4, <1>5, <1>6

LEMMA UserStepRunning ==
  ASSUME TypeOK, RunningInv, UserNext
  PROVE  RunningInv'
PROOF
  <1>0. call.state.status # "running" /\ OutboxRuns
    BY DEF RunningInv
  <1>a. ASSUME NEW m, outbox' = outbox \union {m}, m.cmd.state.status # "running",
               UNCHANGED <<queue, task, restarts, hand, orphaned>>, call'.state.status # "running",
               \A s \in Step : cell'[s].status = "running" => cell[s].status = "running"
        PROVE  RunningInv'
    <2>1. ASSUME NEW s, NEW k, Ongoing(s, k) PROVE Ongoing(s, k)'
      BY <1>a, <2>1 DEF Ongoing, Busy
    <2>2. OutboxRuns'
      BY <1>0, <1>a DEF OutboxRuns
    <2> QED BY <1>a, <2>1, <2>2 DEF RunningInv, QueueRuns
  <1>b. \A s \in Step : \A status \in Status : Patched(s, status).status = status
    BY DEF Patched, TypeOK, State
  <1>c. {"pending", "failed", "human_approved"} \subseteq Status
    BY DEF Status
  <1>1. CASE WriteCall
    <2> DEFINE m == [by |-> App, cmd |-> call]
    <2>1. outbox' = outbox \union {m} /\ UNCHANGED <<queue, task, restarts, hand, orphaned>>
      BY <1>1 DEF WriteCall
    <2>2. m.cmd.state.status # "running" /\ call'.state.status # "running"
      BY <1>0, <1>1 DEF WriteCall, NoCall, Plain
    <2>3. \A s \in Step : cell'[s].status = "running" => cell[s].status = "running"
      BY <1>0, <1>1 DEF WriteCall, Store, TypeOK
    <2> HIDE DEF m
    <2> QED BY <1>a, <2>1, <2>2, <2>3
  <1>2. CASE reset_pipeline
    <2> DEFINE cmds == [k \in DOMAIN Order |-> UpdateCell(Order[k], Patched(Order[k], "pending"))]
    <2>1. cmds \in Seq(Command) /\ queue' = queue \o cmds /\ DOMAIN cmds = 1 .. Len(cmds)
      BY <1>2, ResetCommandsType DEF reset_pipeline
    <2>2. \A k \in 1 .. Len(cmds) : cmds[k].state.status # "running"
      <3>1. \A k \in 1 .. Len(cmds) : Order[k] \in Step
        BY <2>1, PipelineAssumption
      <3> QED BY <1>b, <1>c, <2>1, <3>1 DEF UpdateCell
    <2>3. UNCHANGED <<cell, outbox, task, call, restarts, hand, orphaned>>
      BY <1>2 DEF reset_pipeline
    <2> HIDE DEF cmds
    <2> QED BY <2>1, <2>2, <2>3, QueuedRunning DEF Busy
  <1>3. CASE approve_review_gate_steps
    <2>1. PICK reached \in SUBSET ReviewGate : \E stored \in SUBSET reached, cmds \in Seq(Command) :
               /\ cell' = [s \in Step |-> IF s \in stored THEN Patched(s, "human_approved") ELSE cell[s]]
               /\ queue' = queue \o cmds
               /\ \A k \in 1 .. Len(cmds) :
                    cmds[k].step \in reached /\ cmds[k].state = Patched(cmds[k].step, "human_approved")
      BY <1>3, ConfirmSteps, Zenon
    <2>2. PICK stored \in SUBSET reached, cmds \in Seq(Command) :
               /\ cell' = [s \in Step |-> IF s \in stored THEN Patched(s, "human_approved") ELSE cell[s]]
               /\ queue' = queue \o cmds
               /\ \A k \in 1 .. Len(cmds) :
                    cmds[k].step \in reached /\ cmds[k].state = Patched(cmds[k].step, "human_approved")
      BY <2>1
    <2>3. reached \subseteq Step
      BY PipelineAssumption
    <2>4. \A k \in 1 .. Len(cmds) : cmds[k].state.status # "running"
      BY <1>b, <1>c, <2>2, <2>3
    <2>5. \A s \in Step : cell'[s].status = "running" => cell[s].status = "running"
      BY <1>b, <1>c, <2>2, <2>3
    <2>6. UNCHANGED <<outbox, task, call, restarts, hand, orphaned>>
      BY <1>3 DEF approve_review_gate_steps
    <2> QED BY <2>2, <2>4, <2>5, <2>6, QueuedRunning DEF Busy
  <1>4. CASE \/ \E who \in User : set_review_assignee(who)
             \/ \E s \in Step : step_state_surgery(s)
             \/ \E s \in Step : cyan_pipeline_approve(s)
    <2>1. UNCHANGED <<cell, queue, outbox, restarts, task, hand, orphaned>>
      BY <1>4 DEF set_review_assignee, step_state_surgery, cyan_pipeline_approve, approve_step
    <2>2. call'.state.status # "running"
      BY <1>0, <1>4, <1>b, <1>c DEF set_review_assignee, step_state_surgery,
        cyan_pipeline_approve, approve_step, UpdateCell
    <2> QED BY <1>0, <2>1, <2>2, QuietRunning DEF Busy, OutboxRuns
  <1>5. CASE \E s \in Step : cyan_pipeline_reject(s)
    <2>1. PICK s \in Step :
            outbox' = outbox \union {[by |-> App, cmd |-> UpdateCell(s, Patched(s, "failed"))]}
      BY <1>5 DEF cyan_pipeline_reject, reject_step
    <2> DEFINE m == [by |-> App, cmd |-> UpdateCell(s, Patched(s, "failed"))]
    <2>2. m.cmd.state.status # "running"
      BY <1>b, <1>c DEF UpdateCell
    <2>3. UNCHANGED <<queue, task, restarts, cell, call, hand, orphaned>>
      BY <1>5 DEF cyan_pipeline_reject, reject_step
    <2> HIDE DEF m
    <2>4. outbox' = outbox \union {m}
      BY <2>1 DEF m
    <2> QED BY <1>0, <1>a, <2>2, <2>3, <2>4
  <1> QED BY <1>1, <1>2, <1>3, <1>4, <1>5 DEF UserNext

(* The coordinator says a step runs as it takes it in hand, and when it lets go   *)
(* of it the write is queued that says what came of it.                           *)
LEMMA CoordinatorRunning ==
  ASSUME TypeOK, RunningInv, LensRunCoordinator
  PROVE  RunningInv'
PROOF
  <1>1. PICK s \in Step : dispatch_step(s) \/ cyan_pipeline_run_step_local(s) \/ settle_step(s)
    BY DEF LensRunCoordinator
  <1>0. "running" \in Status /\ "failed" \in Status /\ "ai_complete" \in Status
    BY DEF Status
  <1>2. ASSUME NEW state \in State, AppWrites(s, state),
               state.status = "running" => hand'[s] # "none",
               \A x \in Step \ {s} : hand'[x] = hand[x],
               UNCHANGED <<cell, outbox, task, call, restarts, orphaned>>
        PROVE  RunningInv'
    <2> DEFINE cmds == <<UpdateCell(s, state)>>
    <2>1. cmds \in Seq(Command) /\ Len(cmds) = 1 /\ cmds[1] = UpdateCell(s, state)
      BY UpdateCellType
    <2>2. cmds[1].step = s /\ cmds[1].state = state
      BY <2>1 DEF UpdateCell
    <2>3. queue' = queue \o cmds
      <3>1. queue \in Seq(Command) /\ UpdateCell(s, state) \in Command
        BY UpdateCellType DEF TypeOK
      <3> QED BY <1>2, <3>1 DEF AppWrites
    <2> HIDE DEF cmds
    <2>4. \A k \in 1 .. Len(cmds) : cmds[k].state.status = "running" => Busy(cmds[k].step)'
      BY <1>2, <2>1, <2>2 DEF Busy
    <2>5. \A x \in Step : Busy(x) => \/ Busy(x)'
                                     \/ \E k \in 1 .. Len(cmds) : cmds[k].step = x
      BY <1>2, <2>1, <2>2 DEF Busy
    <2> QED BY <1>2, <2>1, <2>3, <2>4, <2>5, QueuedRunning
  <1>3. CASE dispatch_step(s)
    <2>1. PICK carried \in {FALSE, step_is_approved(s)} :
            AppWrites(s, [Plain("running") EXCEPT !.approved = carried])
      BY <1>3 DEF dispatch_step
    <2>2. step_is_approved(s) \in BOOLEAN
      BY DEF step_is_approved, TypeOK, State
    <2>3. [Plain("running") EXCEPT !.approved = carried] \in State
      BY <1>0, <2>2 DEF Plain, State
    <2>4. /\ hand'[s] = "calling" /\ \A x \in Step \ {s} : hand'[x] = hand[x]
          /\ UNCHANGED <<cell, outbox, task, call, restarts, orphaned>>
      BY <1>3 DEF dispatch_step, TypeOK
    <2> QED BY <1>2, <2>1, <2>3, <2>4
  <1>4. CASE cyan_pipeline_run_step_local(s)
    <2>1. UNCHANGED <<cell, queue, outbox, restarts, task, call, orphaned>>
      BY <1>4 DEF cyan_pipeline_run_step_local
    <2>2. \A x \in Step : hand[x] # "none" <=> hand'[x] # "none"
      BY <1>4 DEF cyan_pipeline_run_step_local, TypeOK
    <2> QED BY <2>1, <2>2, QuietRunning DEF Busy, RunningInv, OutboxRuns
  <1>5. CASE settle_step(s)
    <2> DEFINE state == IF hand[s] = "error" THEN Plain("failed")
                        ELSE [Plain("ai_complete") EXCEPT !.local_gate = hand[s] = "gated"]
    <2>1. state \in State /\ state.status # "running"
      BY <1>0 DEF Plain, State
    <2>2. AppWrites(s, state)
      BY <1>5 DEF settle_step
    <2>3. /\ \A x \in Step \ {s} : hand'[x] = hand[x]
          /\ UNCHANGED <<cell, outbox, task, call, restarts, orphaned>>
      BY <1>5 DEF settle_step, TypeOK
    <2> HIDE DEF state
    <2> QED BY <1>2, <2>1, <2>2, <2>3
  <1> QED BY <1>1, <1>3, <1>4, <1>5

LEMMA NextRunning ==
  ASSUME TypeOK, RunningInv, [Next]_vars
  PROVE  RunningInv'
PROOF
  <1>0. /\ call.state.status # "running" /\ OutboxRuns
        /\ queue \in Seq(Command) /\ Len(queue) \in Nat /\ DOMAIN queue = 1 .. Len(queue)
        /\ \A k \in DOMAIN queue : queue[k].step \in Step
    BY QueueType DEF RunningInv
  <1>1. CASE \/ UNCHANGED vars
             \/ \E r \in Run : cyan_run_pipeline(r) \/ NextBatch(r) \/ FinishRun(r)
    <2>1. UNCHANGED <<cell, queue, outbox, restarts, task, call, hand, orphaned>>
      BY <1>1 DEF vars, cyan_run_pipeline, StartRun, NextBatch, FinishRun
    <2> QED BY <1>0, <2>1, QuietRunning DEF Busy, OutboxRuns
  <1>2. CASE \E r \in Run, s \in Step :
               \/ PassStep(r, s) \/ EnlistStep(r, s) \/ StartStep(r, s)
               \/ CallTool(r, s) \/ FinishStep(r, s) \/ TaskDies(r, s)
    BY <1>2, TaskStepRunning
  <1>3. CASE UserNext
    BY <1>3, UserStepRunning
  <1>7. CASE LensRunCoordinator
    BY <1>7, CoordinatorRunning
  <1>4. CASE Sending
    <2>1. PICK m \in outbox : SendCommand(m)
      BY <1>4 DEF Sending
    <2>2. /\ outbox' = outbox \ {m} /\ queue' = Append(queue, m.cmd)
          /\ UNCHANGED <<cell, task, call, restarts, hand, orphaned>> /\ m.cmd \in Command
      BY <2>1 DEF SendCommand, TypeOK
    <2>3. /\ DOMAIN queue' = 1 .. (Len(queue) + 1) /\ queue'[Len(queue) + 1] = m.cmd
          /\ \A k \in DOMAIN queue : queue'[k] = queue[k]
      BY <1>0, <2>2
    <2>4. ASSUME NEW s, NEW k \in 0 .. Len(queue), Ongoing(s, k) PROVE Ongoing(s, k)'
      <3>1. CASE \E x \in outbox : x.cmd.step = s
        <4>1. CASE m.cmd.step = s
          <5>1. Len(queue) + 1 \in DOMAIN queue' /\ Len(queue) + 1 > k
            BY <1>0, <2>3
          <5> QED BY <2>3, <4>1, <5>1 DEF Ongoing
        <4>2. CASE m.cmd.step # s
          BY <2>2, <3>1, <4>2 DEF Ongoing
        <4> QED BY <4>1, <4>2
      <3>2. CASE \E j \in DOMAIN queue : j > k /\ queue[j].step = s
        <4>1. DOMAIN queue \subseteq DOMAIN queue'
          BY <1>0, <2>3
        <4> QED BY <2>3, <3>2, <4>1 DEF Ongoing
      <3>3. CASE Busy(s)
        BY <2>2, <3>3 DEF Ongoing, Busy
      <3> QED BY <2>4, <3>1, <3>2, <3>3 DEF Ongoing
    <2>5. ASSUME NEW s \in Step \ orphaned', cell'[s].status = "running", restarts' = 0
          PROVE  Ongoing(s, 0)'
      BY <1>0, <2>2, <2>4, <2>5 DEF RunningInv
    <2>6. ASSUME NEW k \in DOMAIN queue', queue'[k].state.status = "running",
                 queue'[k].step \notin orphaned'
          PROVE  Ongoing(queue[k].step, k)'
      <3>1. CASE k \in DOMAIN queue
        <4>1. queue'[k] = queue[k] /\ k \in 0 .. Len(queue)
          BY <1>0, <2>3, <3>1
        <4>2. Ongoing(queue[k].step, k)
          BY <2>2, <2>6, <3>1, <4>1 DEF RunningInv, QueueRuns
        <4> QED BY <2>4, <4>1, <4>2
      <3>2. CASE k = Len(queue) + 1
        <4>1. queue'[k] = m.cmd /\ m.by \in Run /\ task'[m.by][m.cmd.step].stage = "calling"
          BY <1>0, <2>1, <2>2, <2>3, <2>6, <3>2 DEF OutboxRuns
        <4> QED BY <4>1 DEF Ongoing, Busy
      <3> QED BY <1>0, <2>3, <3>1, <3>2
    <2>7. call'.state.status # "running" /\ OutboxRuns'
      BY <1>0, <2>2 DEF OutboxRuns
    <2> QED BY <2>5, <2>6, <2>7 DEF RunningInv, QueueRuns
  <1>5. CASE UpdateNotebookCell
    <2>1. /\ queue # <<>> /\ cell' = [cell EXCEPT ![queue[1].step] = queue[1].state]
          /\ queue' = Tail(queue) /\ UNCHANGED <<outbox, task, call, restarts, hand, orphaned>>
      <3>1. queue # <<>> => Head(queue) = queue[1]
        BY <1>0
      <3> QED BY <1>5, <3>1 DEF UpdateNotebookCell
    <2>2. /\ Len(queue) > 0 /\ DOMAIN queue' = 1 .. (Len(queue) - 1)
          /\ \A k \in DOMAIN queue' : queue'[k] = queue[k + 1] /\ k + 1 \in DOMAIN queue
      BY <1>0, <2>1
    <2>3. ASSUME NEW s, NEW k \in Nat, Ongoing(s, k + 1) PROVE Ongoing(s, k)'
      <3>1. CASE \E j \in DOMAIN queue : j > k + 1 /\ queue[j].step = s
        <4>1. PICK j \in DOMAIN queue : j > k + 1 /\ queue[j].step = s
          BY <3>1
        <4>2. j - 1 \in DOMAIN queue' /\ j - 1 > k /\ (j - 1) + 1 = j
          BY <1>0, <2>2, <4>1
        <4>3. queue'[j - 1].step = s
          BY <2>2, <4>1, <4>2
        <4> QED BY <4>2, <4>3 DEF Ongoing
      <3>2. CASE Busy(s) \/ \E m \in outbox : m.cmd.step = s
        BY <2>1, <3>2 DEF Ongoing, Busy
      <3> QED BY <2>3, <3>1, <3>2 DEF Ongoing
    <2>4. ASSUME NEW s \in Step, Ongoing(s, 0), queue[1].step # s PROVE Ongoing(s, 0 + 1)
      <3>1. ASSUME NEW j \in DOMAIN queue, j > 0, queue[j].step = s PROVE j > 0 + 1
        BY <1>0, <2>4, <3>1
      <3> QED BY <2>4, <3>1 DEF Ongoing
    <2>5. ASSUME NEW s \in Step \ orphaned', cell'[s].status = "running", restarts' = 0
          PROVE  Ongoing(s, 0)'
      <3>1. CASE queue[1].step = s
        <4>1. queue[1].state.status = "running" /\ 1 \in DOMAIN queue
          BY <1>0, <2>1, <2>2, <2>5, <3>1 DEF TypeOK
        <4>2. Ongoing(s, 0 + 1)
          BY <2>1, <3>1, <4>1 DEF RunningInv, QueueRuns
        <4> QED BY <2>3, <4>2
      <3>2. CASE queue[1].step # s
        <4>1. Ongoing(s, 0)
          BY <2>1, <2>5, <3>2 DEF RunningInv, TypeOK
        <4> QED BY <2>3, <2>4, <3>2, <4>1
      <3> QED BY <3>1, <3>2
    <2>6. ASSUME NEW k \in DOMAIN queue', queue'[k].state.status = "running",
                 queue'[k].step \notin orphaned'
          PROVE  Ongoing(queue[k].step, k)'
      <3>1. k \in Nat /\ queue'[k] = queue[k + 1] /\ k + 1 \in DOMAIN queue
        BY <1>0, <2>2, <2>6
      <3>2. Ongoing(queue[k + 1].step, k + 1)
        BY <2>1, <2>6, <3>1 DEF RunningInv, QueueRuns
      <3> QED BY <2>3, <3>1, <3>2
    <2>7. call'.state.status # "running" /\ OutboxRuns'
      BY <1>0, <2>1 DEF OutboxRuns
    <2> QED BY <2>5, <2>6, <2>7 DEF RunningInv, QueueRuns
  <1>6. CASE Restart
    <2>1. /\ restarts' # 0 /\ queue' = <<>> /\ outbox' = {} /\ call' = NoCall
      BY <1>6 DEF Restart, TypeOK
    <2> QED BY <2>1 DEF RunningInv, QueueRuns, OutboxRuns, NoCall, Plain
  <1> QED BY <1>1, <1>2, <1>3, <1>4, <1>5, <1>6, <1>7 DEF Next, RunNext

(* RunningIsRun: unless the app restarted, a step shown as running is being      *)
(* executed by a run or by the app, or the write that ends this is on its way,   *)
(* or its last execution ended in a dead task or a failed write: no order of     *)
(* late commands, user calls and concurrent runs leaves it so.                   *)
THEOREM RunningStepsRun == Spec => []RunningIsRun
PROOF
  <1>1. Init => RunningInv
    <2> SUFFICES ASSUME Init PROVE RunningInv
      OBVIOUS
    <2>1. \A s \in Step : cell[s].status # "running"
      BY PipelineAssumption DEF Init
    <2> QED BY <2>1 DEF Init, RunningInv, QueueRuns, OutboxRuns, NoCall, Plain
  <1>2. TypeOK /\ RunningInv /\ [Next]_vars => RunningInv'
    BY NextRunning
  <1>3. RunningInv => RunningIsRun
    BY DEF RunningInv, RunningIsRun, Ongoing, Busy
  <1> QED BY PipelineTypes, <1>1, <1>2, <1>3, PTL DEF Spec

-------------------------------------------------------------------------------
(* Walking a plan: one step of a run at a time. *)

(* The batch a run is at, and what it executes of it. *)
Current(r) == IF run[r].at > 1 THEN run[r].plan.batches[run[r].at - 1] ELSE {}

Executed(r) == {s \in Step : task[r][s].stage # "none"}

(* What a run remembers from one batch to the next. *)
Course(r) == <<run[r].phase, run[r].plan, run[r].snap, run[r].at>>

LEMMA PlanFacts ==
  ASSUME TypeOK, NEW r \in Run
  PROVE  LET p == run[r].plan IN
         /\ p.batches \in Seq(SUBSET Step) /\ Len(p.batches) \in Nat
         /\ DOMAIN p.batches = 1 .. Len(p.batches)
         /\ run[r].at \in Nat \ {0}
         /\ Sequential(r) => /\ Len(p.batches) = Len(Order)
                             /\ \A k \in 1 .. Len(Order) : p.batches[k] = {Order[k]}
         /\ ~Sequential(r) => p \in WavePlans /\ Layered(p)
PROOF
  <1> DEFINE p == run[r].plan
  <1>1. run[r] \in RunRecord /\ p \in load_physical_plan /\ p \in Plan
    BY LoadedIsPlan DEF TypeOK, RunRecord
  <1>2. p.batches \in Seq(SUBSET Step) /\ run[r].at \in Nat \ {0}
    BY <1>1 DEF Plan, RunRecord
  <1>3. CASE p = SequentialPlan
    <2>1. Sequential(r) /\ p.batches = [k \in DOMAIN Order |-> {Order[k]}]
      BY <1>3 DEF Sequential, SequentialPlan
    <2>2. Order \in Seq(Step) /\ DOMAIN Order = 1 .. Len(Order) /\ Len(Order) \in Nat
      BY PipelineAssumption
    <2>3. Len(p.batches) = Len(Order)
      BY <1>2, <2>1, <2>2
    <2> QED BY <1>2, <2>1, <2>2, <2>3
  <1>4. CASE p \in WavePlans
    <2>1. ~Sequential(r) /\ Layered(p)
      BY <1>4, PipelineAssumption DEF Sequential
    <2> QED BY <1>2, <1>4, <2>1
  <1> QED BY <1>1, <1>3, <1>4 DEF load_physical_plan

LEMMA VerdictFacts ==
  ASSUME NEW r \in Run, NEW s \in Step
  PROVE  LET v == Verdict(r, s)  was == run[r].snap[s]  p == run[r].plan IN
         /\ v \in {"skip", "resurface", "stay_failed", "gate", "stall", "cache_hit", "execute"}
         /\ v = "skip" => was \in Resolved
         /\ Sequential(r) => /\ v = "resurface" \/ was # "ai_complete"
                             /\ v = "execute" => deps_met(r, s)
         /\ ~Sequential(r) => /\ v \notin {"resurface", "stay_failed"}
                              /\ v = "cache_hit" => s \in p.hits
                              /\ v = "stall" => ~gate_satisfied(r, s)
                              /\ v = "execute" => s \notin Manual \union p.gates
PROOF
  <1>1. CASE Sequential(r)
    BY <1>1 DEF Verdict, execute_sequential, IsResolved, Resolved
  <1>2. CASE ~Sequential(r)
    BY <1>2 DEF Verdict, execute_waves, IsResolved
  <1> QED BY <1>1, <1>2

LEMMA CourseStays ==
  ASSUME NEW r \in Run, Course(r)' = Course(r)
  PROVE  /\ run'[r].phase = run[r].phase /\ run'[r].plan = run[r].plan
         /\ run'[r].snap = run[r].snap /\ run'[r].at = run[r].at
         /\ Current(r)' = Current(r) /\ Sequential(r)' = Sequential(r)
BY DEF Course, Current, Sequential

(* The actions of run r, as what they do to what it keeps in memory. *)

LEMMA StartRunChange ==
  ASSUME TypeOK, NEW r \in Run, StartRun(r)
  PROVE  /\ run[r].phase = "idle" /\ Executed(r)' = Executed(r)
         /\ run'[r].phase = "running" /\ run'[r].plan \in load_physical_plan
         /\ run'[r].at = 1 /\ run'[r].batch = {} /\ run'[r].done = {}
         /\ ~run'[r].stop /\ run'[r].died = {}
PROOF
  <1>1. PICK p \in load_physical_plan :
          run' = [run EXCEPT ![r] = [Idle EXCEPT !.phase = "running", !.plan = p, !.snap = load_pipeline_cells]]
    BY DEF StartRun
  <1>2. run'[r] = [Idle EXCEPT !.phase = "running", !.plan = p, !.snap = load_pipeline_cells]
    BY <1>1 DEF TypeOK
  <1> QED BY <1>2 DEF Idle, StartRun, Executed

LEMMA NextBatchChange ==
  ASSUME TypeOK, NEW r \in Run, NextBatch(r)
  PROVE  /\ run[r].phase = "running" /\ run[r].batch = {} /\ Executed(r) = {} /\ Executed(r)' = {}
         /\ run[r].at <= Len(run[r].plan.batches) /\ ~Halted(r)
         /\ run'[r].phase = "running" /\ run'[r].plan = run[r].plan
         /\ run'[r].snap = run[r].snap /\ run'[r].at = run[r].at + 1
         /\ run'[r].batch = run[r].plan.batches[run[r].at]
         /\ run'[r].stop = run[r].stop /\ run'[r].done = run[r].done
         /\ run'[r].failed = run[r].failed /\ run'[r].awaiting = run[r].awaiting
         /\ run'[r].touched = run[r].touched /\ run'[r].died = run[r].died
PROOF
  <1>1. run[r] \in RunRecord
    BY DEF TypeOK
  <1>2. run'[r] = [run[r] EXCEPT !.batch = run[r].plan.batches[run[r].at],
                                 !.at = run[r].at + 1]
    BY DEF NextBatch, TypeOK
  <1>3. Executed(r) = {} /\ Executed(r)' = {} /\ run[r].phase = "running" /\ run[r].batch = {}
    BY DEF NextBatch, BatchOver, Executed
  <1>4. run[r].at <= Len(run[r].plan.batches) /\ ~Halted(r)
    BY DEF NextBatch
  <1> DEFINE b == run[r].plan.batches[run[r].at]
             n == run[r].at + 1
  <1>5. run'[r] = [run[r] EXCEPT !.batch = b, !.at = n]
    BY <1>2
  <1> HIDE DEF b, n
  <1>6. /\ run'[r].phase = run[r].phase /\ run'[r].plan = run[r].plan
        /\ run'[r].snap = run[r].snap /\ run'[r].at = n /\ run'[r].batch = b
        /\ run'[r].stop = run[r].stop /\ run'[r].done = run[r].done
        /\ run'[r].failed = run[r].failed /\ run'[r].awaiting = run[r].awaiting
        /\ run'[r].touched = run[r].touched /\ run'[r].died = run[r].died
    BY <1>1, <1>5 DEF RunRecord
  <1> QED BY <1>2, <1>3, <1>4, <1>6 DEF b, n

LEMMA EndedChange ==
  ASSUME TypeOK, NEW r \in Run, NEW phase \in {"done", "failed", "awaiting_approval", "lost"},
         run'[r] = Ended(phase)
  PROVE  /\ run'[r].phase = phase
         /\ run'[r].at = 1 /\ run'[r].batch = {} /\ run'[r].done = {} /\ ~run'[r].stop
         /\ run'[r].snap = [s \in Step |-> "pending"]
BY DEF Ended, Idle

LEMMA FinishRunChange ==
  ASSUME TypeOK, NEW r \in Run, FinishRun(r)
  PROVE  /\ run[r].phase = "running" /\ run[r].batch = {} /\ Executed(r) = {} /\ Executed(r)' = {}
         /\ run[r].at > Len(run[r].plan.batches) \/ Halted(r)
         /\ \E phase \in {"done", "failed", "awaiting_approval"} : run'[r] = Ended(phase)
         /\ run'[r].phase = "done" => ~run[r].failed /\ ~run[r].awaiting
PROOF
  <1>1. Executed(r) = {} /\ Executed(r)' = {} /\ run[r].phase = "running" /\ run[r].batch = {}
    BY DEF FinishRun, BatchOver, Executed
  <1>2. run'[r] = Ended(IF run[r].failed THEN "failed"
                        ELSE IF run[r].awaiting THEN "awaiting_approval" ELSE "done")
    BY DEF FinishRun, TypeOK
  <1>3. \A phase : Ended(phase).phase = phase
    BY DEF Ended, Idle
  <1>4. run'[r].phase = "done" => ~run[r].failed /\ ~run[r].awaiting
    BY <1>2, <1>3
  <1>5. run[r].at > Len(run[r].plan.batches) \/ Halted(r)
    BY DEF FinishRun
  <1> QED BY <1>1, <1>2, <1>4, <1>5

LEMMA PassChange ==
  ASSUME TypeOK, NEW r \in Run, NEW s \in Step, PassStep(r, s)
  PROVE  LET v == Verdict(r, s) IN
         /\ v # "execute" /\ Course(r)' = Course(r) /\ task' = task /\ run'[r].died = run[r].died
         /\ s \in run[r].batch /\ run'[r].batch = run[r].batch \ {s}
         /\ run'[r].awaiting <=> run[r].awaiting \/ v \in {"resurface", "gate"}
         /\ run'[r].stop <=> run[r].stop \/ v = "resurface"
         /\ run'[r].failed <=> run[r].failed \/ v = "stay_failed"
         /\ run'[r].done = IF v = "cache_hit" THEN run[r].done \union {s} ELSE run[r].done
         /\ run'[r].touched = IF v \in {"gate", "stall", "cache_hit"}
                              THEN run[r].touched \union {s} ELSE run[r].touched
PROOF
  <1> DEFINE v == Verdict(r, s)
  <1>1. run[r] \in RunRecord
    BY DEF TypeOK
  <1>2. /\ run'[r] = Passed(run[r], s, v) /\ v # "execute" /\ task' = task /\ s \in run[r].batch
    BY DEF PassStep, NeedsNoTool, TypeOK
  <1> HIDE DEF v
  <1> QED BY <1>1, <1>2 DEF Passed, RunRecord, Course, v

LEMMA EnlistChange ==
  ASSUME TypeOK, NEW r \in Run, NEW s \in Step, EnlistStep(r, s)
  PROVE  /\ Verdict(r, s) = "execute" /\ Course(r)' = Course(r)
         /\ s \in run[r].batch /\ run'[r].batch = run[r].batch \ {s} /\ run'[r].died = run[r].died
         /\ run'[r].awaiting = run[r].awaiting /\ run'[r].stop = run[r].stop
         /\ run'[r].failed = run[r].failed /\ run'[r].done = run[r].done
         /\ run'[r].touched = run[r].touched
         /\ Executed(r)' = Executed(r) \union {s} /\ task'[r][s].stage = "queued"
         /\ \A x \in Step \ {s} : task'[r][x] = task[r][x]
PROOF
  <1>1. run[r] \in RunRecord /\ task[r] \in [Step -> TaskRecord]
    BY DEF TypeOK
  <1>2. /\ run'[r] = [run[r] EXCEPT !.batch = run[r].batch \ {s}]
        /\ Verdict(r, s) = "execute" /\ s \in run[r].batch
    BY DEF EnlistStep, TypeOK
  <1>3. \A x \in Step : task'[r][x] = IF x = s THEN [NoTask EXCEPT !.stage = "queued"] ELSE task[r][x]
    BY DEF EnlistStep, TypeOK
  <1>4. [NoTask EXCEPT !.stage = "queued"].stage = "queued"
    BY DEF NoTask
  <1>5. Executed(r)' = Executed(r) \union {s}
    BY <1>3, <1>4 DEF Executed
  <1> QED BY <1>1, <1>2, <1>3, <1>4, <1>5 DEF RunRecord, Course

LEMMA StartChange ==
  ASSUME TypeOK, NEW r \in Run, NEW s \in Step, StartStep(r, s)
  PROVE  /\ Course(r)' = Course(r) /\ run[r].batch = {} /\ run'[r].batch = {}
         /\ run'[r].died = run[r].died
         /\ run'[r].awaiting = run[r].awaiting /\ run'[r].stop = run[r].stop
         /\ run'[r].failed = run[r].failed /\ run'[r].done = run[r].done
         /\ run'[r].touched = run[r].touched \union {s}
         /\ s \in Executed(r) /\ Executed(r)' = Executed(r)
         /\ \A x \in Step \ {s} : task'[r][x] = task[r][x]
PROOF
  <1>1. run[r] \in RunRecord /\ task[r] \in [Step -> TaskRecord]
    BY DEF TypeOK
  <1>2. /\ run'[r] = [run[r] EXCEPT !.touched = run[r].touched \union {s}]
        /\ run[r].batch = {} /\ task[r][s].stage = "queued"
    BY DEF StartStep, TypeOK
  <1>3. /\ task'[r][s].stage = "calling"
        /\ \A x \in Step \ {s} : task'[r][x] = task[r][x]
    BY DEF StartStep, TypeOK, TaskRecord
  <1>4. Executed(r)' = Executed(r) /\ s \in Executed(r)
    BY <1>2, <1>3 DEF Executed
  <1> QED BY <1>1, <1>2, <1>3, <1>4 DEF RunRecord, Course

LEMMA CallChange ==
  ASSUME TypeOK, NEW r \in Run, NEW s \in Step, CallTool(r, s)
  PROVE  /\ run' = run /\ Executed(r)' = Executed(r)
         /\ task[r][s].stage = "calling" /\ \A x \in Step \ {s} : task'[r][x] = task[r][x]
PROOF
  <1> DEFINE next(o, effect) ==
               [stage |-> ToolStage(task[r][s], s, o),
                sent |-> IF effect THEN task[r][s].sent + 1 ELSE task[r][s].sent,
                tries |-> IF ToolStage(task[r][s], s, o) = "calling" /\ o = "transient"
                          THEN task[r][s].tries + 1 ELSE task[r][s].tries,
                refreshed |-> ToolStage(task[r][s], s, o) = "calling" /\ o = "auth"]
  <1>1. PICK o \in Outcomes(s) : \E effect \in Effects(o) :
          task' = [task EXCEPT ![r][s] = next(o, effect)]
    BY DEF CallTool
  <1>2. PICK effect \in Effects(o) : task' = [task EXCEPT ![r][s] = next(o, effect)]
    BY <1>1
  <1>3. next(o, effect).stage # "none"
    BY DEF ToolStage
  <1> HIDE DEF next
  <1>4. \A x \in Step : task'[r][x] = IF x = s THEN next(o, effect) ELSE task[r][x]
    BY <1>2 DEF TypeOK
  <1>5. task[r][s].stage = "calling" /\ run' = run
    BY DEF CallTool
  <1>6. Executed(r)' = Executed(r)
    BY <1>3, <1>4, <1>5 DEF Executed
  <1> QED BY <1>4, <1>5, <1>6

LEMMA FinishChange ==
  ASSUME TypeOK, NEW r \in Run, NEW s \in Step, FinishStep(r, s)
  PROVE  LET ok == task[r][s].stage = "succeeded" IN
         /\ Course(r)' = Course(r) /\ run'[r].batch = run[r].batch /\ run'[r].died = run[r].died
         /\ run'[r].awaiting <=> run[r].awaiting \/ (ok /\ s \notin AutoAdvance)
         /\ run'[r].stop <=> run[r].stop \/ ~ok \/ s \notin AutoAdvance
         /\ run'[r].failed <=> run[r].failed \/ ~ok
         /\ run'[r].done = IF ok THEN run[r].done \union {s} ELSE run[r].done
         /\ run'[r].touched = run[r].touched
         /\ task[r][s].stage \in {"succeeded", "erred"}
         /\ s \in Executed(r) /\ Executed(r)' = Executed(r) \ {s}
         /\ \A x \in Step \ {s} : task'[r][x] = task[r][x]
PROOF
  <1> DEFINE ok == task[r][s].stage = "succeeded"
  <1>1. run[r] \in RunRecord /\ task[r] \in [Step -> TaskRecord]
    BY DEF TypeOK
  <1>2. run'[r] = fold(run[r], s, ok) /\ task[r][s].stage \in {"succeeded", "erred"}
    BY DEF FinishStep, TypeOK
  <1>3. \A x \in Step : task'[r][x] = IF x = s THEN NoTask ELSE task[r][x]
    BY DEF FinishStep, TypeOK
  <1>4. Executed(r)' = Executed(r) \ {s} /\ s \in Executed(r)
    BY <1>2, <1>3 DEF Executed, NoTask
  <1> HIDE DEF ok
  <1>5. /\ Course(r)' = Course(r) /\ run'[r].batch = run[r].batch /\ run'[r].died = run[r].died
        /\ run'[r].awaiting <=> run[r].awaiting \/ (ok /\ s \notin AutoAdvance)
        /\ run'[r].stop <=> run[r].stop \/ ~ok \/ s \notin AutoAdvance
        /\ run'[r].failed <=> run[r].failed \/ ~ok
        /\ run'[r].done = IF ok THEN run[r].done \union {s} ELSE run[r].done
        /\ run'[r].touched = run[r].touched
    BY <1>1, <1>2 DEF fold, RunRecord, Course
  <1> QED BY <1>2, <1>3, <1>4, <1>5 DEF ok

(* A task of a wave that fails to join: nothing remembers it but the cell. *)
LEMMA DieChange ==
  ASSUME TypeOK, NEW r \in Run, NEW s \in Step, TaskDies(r, s), ~Sequential(r)
  PROVE  /\ Course(r)' = Course(r) /\ run'[r].batch = run[r].batch
         /\ run'[r].awaiting = run[r].awaiting /\ run'[r].stop = run[r].stop
         /\ run'[r].failed = run[r].failed /\ run'[r].done = run[r].done
         /\ run'[r].touched = run[r].touched /\ run'[r].died = run[r].died \union {s}
         /\ task[r][s].stage # "queued"
         /\ s \in Executed(r) /\ Executed(r)' = Executed(r) \ {s}
         /\ \A x \in Step \ {s} : task'[r][x] = task[r][x]
PROOF
  <1>1. run[r] \in RunRecord /\ task[r] \in [Step -> TaskRecord]
    BY DEF TypeOK
  <1>2. run'[r] = JoinFailed(r, s) /\ task[r][s].stage \in {"calling", "succeeded", "erred"}
    BY DEF TaskDies, TypeOK
  <1>3. run'[r] = [run[r] EXCEPT !.died = run[r].died \union {s}]
    BY <1>2 DEF JoinFailed
  <1>4. \A x \in Step : task'[r][x] = IF x = s THEN NoTask ELSE task[r][x]
    BY DEF TaskDies, TypeOK
  <1>5. Executed(r)' = Executed(r) \ {s} /\ s \in Executed(r)
    BY <1>2, <1>4 DEF Executed, NoTask
  <1> QED BY <1>1, <1>2, <1>3, <1>4, <1>5 DEF RunRecord, Course

(* One run moves at a time, or all of them stop. *)
RunStep(r) ==
  \/ StartRun(r) \/ NextBatch(r) \/ FinishRun(r)
  \/ \E s \in Step : \/ PassStep(r, s) \/ EnlistStep(r, s) \/ StartStep(r, s)
                     \/ CallTool(r, s) \/ FinishStep(r, s)

LEMMA OneRunMoves ==
  ASSUME TypeOK, [Next]_vars
  PROVE  \/ UNCHANGED <<run, task>>
         \/ Restart
         \/ \E r \in Run : /\ RunStep(r) \/ \E s \in Step : TaskDies(r, s)
                          /\ \A q \in Run \ {r} : run'[q] = run[q] /\ task'[q] = task[q]
PROOF
  <1>1. ASSUME NEW r \in Run, RunStep(r) \/ \E s \in Step : TaskDies(r, s)
        PROVE  \A q \in Run \ {r} : run'[q] = run[q] /\ task'[q] = task[q]
    BY <1>1 DEF RunStep, StartRun, NextBatch, FinishRun, PassStep, EnlistStep, StartStep,
      CallTool, FinishStep, TaskDies, TypeOK
  <1>2. CASE UserNext
    BY <1>2 DEF UserNext, WriteCall, reset_pipeline, approve_review_gate_steps,
      set_review_assignee, step_state_surgery,
      cyan_pipeline_approve, approve_step, cyan_pipeline_reject, reject_step
  <1>3. CASE Sending \/ UpdateNotebookCell \/ UNCHANGED vars \/ LensRunCoordinator
    BY <1>3 DEF Sending, SendCommand, UpdateNotebookCell, vars, LensRunCoordinator,
      dispatch_step, cyan_pipeline_run_step_local, settle_step
  <1>4. CASE \E r \in Run : cyan_run_pipeline(r) \/ RunNext(r)
    BY <1>1, <1>4 DEF cyan_run_pipeline, RunNext, RunStep
  <1>5. CASE \E r \in Run, s \in Step : TaskDies(r, s)
    BY <1>1, <1>5
  <1> QED BY <1>2, <1>3, <1>4, <1>5 DEF Next

(* Where a run is in its plan: it executes steps of its current batch only, and   *)
(* starts none before it has looked at the whole batch.                           *)
WalkInv(r) ==
  /\ run[r].phase # "running" => run[r].batch = {} /\ Executed(r) = {}
  /\ run[r].at <= Len(run[r].plan.batches) + 1
  /\ run[r].batch \union Executed(r) \subseteq Current(r)
  /\ \A s \in Executed(r) : task[r][s].stage # "queued" => run[r].batch = {}

(* The one step of the batch a sequential run is at. *)
LEMMA SequentialBatch ==
  ASSUME TypeOK, NEW r \in Run, WalkInv(r), run[r].phase = "running", Sequential(r),
         NEW s \in Step, s \in run[r].batch \union Executed(r)
  PROVE  /\ run[r].at - 1 \in 1 .. Len(Order) /\ s = Order[run[r].at - 1]
         /\ run[r].batch \subseteq {s}
         /\ \A d \in Deps[s] : \E j \in 1 .. run[r].at - 1 : j < run[r].at - 1 /\ Order[j] = d
PROOF
  <1> DEFINE k == run[r].at - 1
  <1>1. /\ run[r].at \in Nat \ {0} /\ Len(Order) \in Nat
        /\ Len(run[r].plan.batches) = Len(Order)
        /\ \A j \in 1 .. Len(Order) : run[r].plan.batches[j] = {Order[j]}
    BY PlanFacts
  <1>2. run[r].at > 1 /\ run[r].at <= Len(Order) + 1 /\ s \in run[r].plan.batches[k]
        /\ run[r].batch \subseteq run[r].plan.batches[k]
    BY <1>1 DEF WalkInv, Current
  <1>3. k \in 1 .. Len(Order) /\ k = run[r].at - 1
    BY <1>1, <1>2
  <1>4. s = Order[k] /\ run[r].batch \subseteq {s}
    BY <1>1, <1>2, <1>3
  <1>5. \A d \in Deps[s] : \E j \in 1 .. k - 1 : Order[j] = d
    <2>1. k \in DOMAIN Order
      BY <1>3, PipelineAssumption
    <2> QED BY <1>4, <2>1, OrderAssumption
  <1> HIDE DEF k
  <1>6. \A d \in Deps[s] : \E j \in 1 .. k : j < k /\ Order[j] = d
    BY <1>3, <1>5
  <1> QED BY <1>3, <1>4, <1>6

(* The moves seen from one run: it keeps what it has, or loses it, or moves. *)
LEMMA RunMoves ==
  ASSUME TypeOK, [Next]_vars, NEW r \in Run, WalkInv(r)
  PROVE  \/ run'[r] = run[r] /\ task'[r] = task[r]
         \/ /\ run'[r] = run[r] \/ run'[r] = Ended("lost")
            /\ run'[r].phase # "running" /\ Executed(r)' = {}
         \/ RunStep(r)
         \/ \E s \in Step : TaskDies(r, s) /\ ~Sequential(r)
PROOF
  <1>0. Ended("lost").phase = "lost"
    BY DEF Ended, Idle
  <1>1. CASE Restart
    <2>1. run'[r] = IF run[r].phase = "running" THEN Ended("lost") ELSE run[r]
      BY <1>1 DEF Restart
    <2>2. Executed(r)' = {}
      BY <1>1 DEF Restart, Executed, NoTask
    <2> QED BY <1>0, <2>1, <2>2
  <1>2. ASSUME NEW s \in Step, TaskDies(r, s), Sequential(r)
        PROVE  run'[r] = Ended("lost") /\ Executed(r)' = {}
    <2>1. run'[r] = Ended("lost")
      BY <1>2 DEF TaskDies, JoinFailed, TypeOK
    <2>2. s \in Executed(r) /\ Executed(r)' = Executed(r) \ {s}
      BY <1>2 DEF TaskDies, Executed, NoTask, TypeOK
    <2>3. run[r].phase = "running"
      BY <2>2 DEF WalkInv
    <2>4. s = Order[run[r].at - 1]
      BY <1>2, <2>2, <2>3, SequentialBatch
    <2>5. ASSUME NEW x \in Executed(r) PROVE x = s
      <3>1. x \in Step
        BY DEF Executed
      <3>2. x = Order[run[r].at - 1]
        BY <1>2, <2>3, <3>1, SequentialBatch
      <3> QED BY <2>4, <3>2
    <2> QED BY <2>1, <2>2, <2>5
  <1>3. ASSUME NEW q \in Run, RunStep(q) \/ \E s \in Step : TaskDies(q, s),
               \A x \in Run \ {q} : run'[x] = run[x] /\ task'[x] = task[x]
        PROVE  \/ RunStep(r) \/ \E s \in Step : TaskDies(r, s)
               \/ run'[r] = run[r] /\ task'[r] = task[r]
    BY <1>3
  <1>4. CASE UNCHANGED <<run, task>>
    BY <1>4
  <1>5. CASE \E s \in Step : TaskDies(r, s)
    BY <1>0, <1>2, <1>5
  <1> QED BY <1>1, <1>3, <1>4, <1>5, OneRunMoves

LEMMA NextWalk ==
  ASSUME TypeOK, [Next]_vars, NEW r \in Run, WalkInv(r)
  PROVE  WalkInv(r)'
PROOF
  <1> USE DEF WalkInv
  <1>0. /\ run[r].at \in Nat \ {0} /\ Len(run[r].plan.batches) \in Nat
        /\ \A p \in load_physical_plan : Len(p.batches) \in Nat
    BY PlanFacts, LoadedIsPlan DEF Plan
  <1>1. CASE run'[r] = run[r] /\ task'[r] = task[r]
    BY <1>1 DEF Executed, Current
  <1>2. ASSUME NEW phase \in {"done", "failed", "awaiting_approval", "lost"},
               run'[r] = Ended(phase), Executed(r)' = {}
        PROVE  WalkInv(r)'
    <2>1. SequentialPlan \in load_physical_plan /\ run'[r].plan = SequentialPlan
      BY <1>2 DEF Ended, Idle, load_physical_plan
    <2>2. Len(SequentialPlan.batches) \in Nat
      BY <1>0, <2>1
    <2> QED BY <1>2, <2>1, <2>2, EndedChange
  <1>3. CASE /\ run'[r] = run[r] \/ run'[r] = Ended("lost")
             /\ run'[r].phase # "running" /\ Executed(r)' = {}
    BY <1>2, <1>3 DEF Current
  <1>4. CASE StartRun(r)
    BY <1>0, <1>4, StartRunChange
  <1>5. CASE NextBatch(r)
    <2>1. /\ run[r].at <= Len(run[r].plan.batches) /\ run'[r].plan = run[r].plan
          /\ run'[r].at = run[r].at + 1 /\ run'[r].batch = run[r].plan.batches[run[r].at]
          /\ run'[r].phase = "running" /\ Executed(r)' = {}
      BY <1>5, NextBatchChange
    <2>2. run'[r].at > 1 /\ run'[r].at - 1 = run[r].at
          /\ run'[r].at <= Len(run'[r].plan.batches) + 1
      BY <1>0, <2>1
    <2>3. Current(r)' = run'[r].batch
      BY <2>1, <2>2 DEF Current
    <2> QED BY <2>1, <2>2, <2>3
  <1>6. CASE FinishRun(r)
    BY <1>2, <1>6, FinishRunChange
  <1>7. ASSUME NEW s \in Step, PassStep(r, s) PROVE WalkInv(r)'
    <2>1. Executed(r)' = Executed(r) /\ \A x \in Executed(r) : task'[r][x] = task[r][x]
      BY <1>7, PassChange DEF Executed
    <2>2. Course(r)' = Course(r) /\ run'[r].batch = run[r].batch \ {s} /\ s \in run[r].batch
      BY <1>7, PassChange
    <2>3. run[r].phase = "running"
      BY <2>2
    <2>4. /\ run'[r].phase = "running" /\ run'[r].plan = run[r].plan
          /\ run'[r].at = run[r].at /\ Current(r)' = Current(r)
      BY <2>2, <2>3, CourseStays
    <2> QED BY <2>1, <2>2, <2>4
  <1>8. ASSUME NEW s \in Step, EnlistStep(r, s) PROVE WalkInv(r)'
    <2>1. run[r].phase = "running"
      BY <1>8, EnlistChange
    <2>2. \A x \in Executed(r)' : x # s => x \in Executed(r) /\ task'[r][x] = task[r][x]
      BY <1>8, EnlistChange DEF Executed
    <2> QED BY <1>8, <2>1, <2>2, EnlistChange, CourseStays
  <1>9. ASSUME NEW s \in Step, StartStep(r, s) PROVE WalkInv(r)'
    BY <1>9, StartChange DEF Current, Course, Executed
  <1>10. ASSUME NEW s \in Step, CallTool(r, s) PROVE WalkInv(r)'
    BY <1>10, CallChange DEF Current, Executed
  <1>11. ASSUME NEW s \in Step, FinishStep(r, s) PROVE WalkInv(r)'
    <2>1. \A x \in Executed(r)' : x \in Executed(r) /\ task'[r][x] = task[r][x]
      BY <1>11, FinishChange DEF Executed
    <2>2. Course(r)' = Course(r) /\ run'[r].batch = run[r].batch
      BY <1>11, FinishChange
    <2> QED BY <2>1, <2>2, CourseStays
  <1>12. ASSUME NEW s \in Step, TaskDies(r, s), ~Sequential(r) PROVE WalkInv(r)'
    <2>1. \A x \in Executed(r)' : x \in Executed(r) /\ task'[r][x] = task[r][x]
      BY <1>12, DieChange DEF Executed
    <2>2. Course(r)' = Course(r) /\ run'[r].batch = run[r].batch
      BY <1>12, DieChange
    <2> QED BY <2>1, <2>2, CourseStays
  <1> QED BY <1>1, <1>3, <1>4, <1>5, <1>6, <1>7, <1>8, <1>9, <1>10, <1>11, <1>12, RunMoves DEF RunStep

-------------------------------------------------------------------------------
(* Dependencies.  A dependency is good when it was approved as the run loaded the *)
(* board, or when the run completed it.                                           *)
Good(r, d) == run[r].snap[d] = "human_approved" \/ d \in run[r].done

(* Along a plan, what nothing holds up: a dependency whose task died, too.        *)
Past(r, d) == Good(r, d) \/ d \in run[r].died

(* Without a plan: the loop goes on only past steps that are not waiting for an   *)
(* approval, so what deps_met finds complete was approved.                        *)
SequentialInv(r) ==
  run[r].phase = "running" /\ Sequential(r) =>
    /\ run[r].batch # {} => ~run[r].stop
    /\ ~run[r].stop =>
         \A j \in 1 .. run[r].at - 1 :
           run[r].batch = {} \/ j < run[r].at - 1 => run[r].snap[Order[j]] # "ai_complete"
    /\ \A s \in Executed(r) : \A d \in Deps[s] : Good(r, d)

LEMMA NextSequential ==
  ASSUME TypeOK, [Next]_vars, NEW r \in Run, WalkInv(r), SequentialInv(r)
  PROVE  SequentialInv(r)'
PROOF
  <1>0. /\ run[r].at \in Nat \ {0} /\ run[r].snap \in [Step -> Status]
        /\ run[r].phase # "running" => run[r].batch = {} /\ Executed(r) = {}
    BY DEF TypeOK, RunRecord, WalkInv
  <1>1. CASE run'[r] = run[r] /\ task'[r] = task[r]
    BY <1>1 DEF SequentialInv, Executed, Sequential, Good
  <1>2. CASE run'[r].phase # "running"
    BY <1>2 DEF SequentialInv
  <1>3. CASE StartRun(r)
    <2>1. run'[r].at - 1 = 0 /\ run'[r].batch = {} /\ Executed(r)' = {}
      BY <1>0, <1>3, StartRunChange
    <2> QED BY <2>1 DEF SequentialInv
  <1>4. CASE NextBatch(r) /\ Sequential(r)'
    <2>1. /\ run[r].phase = "running" /\ run'[r].plan = run[r].plan /\ run'[r].snap = run[r].snap
          /\ run'[r].at = run[r].at + 1 /\ run[r].batch = {} /\ Executed(r)' = {}
          /\ run'[r].stop = run[r].stop /\ ~Halted(r)
      BY <1>4, NextBatchChange
    <2>2. Sequential(r) /\ ~run[r].stop
      BY <1>4, <2>1 DEF Sequential, Halted
    <2>3. \A j \in 1 .. run[r].at - 1 : run[r].snap[Order[j]] # "ai_complete"
      BY <2>1, <2>2 DEF SequentialInv
    <2>4. \A j \in 1 .. run'[r].at - 1 : j < run'[r].at - 1 => j \in 1 .. run[r].at - 1
      BY <1>0, <2>1
    <2>5. run'[r].batch # {}
      <3>1. /\ Len(run[r].plan.batches) = Len(Order) /\ Len(Order) \in Nat
            /\ \A k \in 1 .. Len(Order) : run[r].plan.batches[k] = {Order[k]}
        BY <2>2, PlanFacts
      <3>2. run[r].at <= Len(run[r].plan.batches) /\ run'[r].batch = run[r].plan.batches[run[r].at]
        BY <1>4, NextBatchChange
      <3>3. run[r].at \in 1 .. Len(Order)
        BY <1>0, <3>1, <3>2
      <3> QED BY <3>1, <3>2, <3>3
    <2> QED BY <2>1, <2>2, <2>3, <2>4, <2>5 DEF SequentialInv
  <1>5. ASSUME NEW s \in Step, PassStep(r, s), Sequential(r)' PROVE SequentialInv(r)'
    <2>0. run'[r].stop <=> run[r].stop \/ Verdict(r, s) = "resurface"
      BY <1>5, PassChange
    <2>1. Course(r)' = Course(r) /\ s \in run[r].batch /\ run'[r].batch = run[r].batch \ {s}
          /\ run[r].done \subseteq run'[r].done /\ Executed(r)' = Executed(r)
      BY <1>5, PassChange DEF Executed
    <2>2. /\ run'[r].at = run[r].at /\ run'[r].snap = run[r].snap
          /\ run[r].phase = "running" /\ Sequential(r)
      BY <1>0, <1>5, <2>1, CourseStays
    <2>3. /\ s = Order[run[r].at - 1] /\ run'[r].batch = {} /\ run[r].at - 1 \in Nat
      BY <2>1, <2>2, SequentialBatch
    <2>4. Verdict(r, s) # "resurface" => run[r].snap[s] # "ai_complete"
      BY <2>2, VerdictFacts
    <2>5. /\ ~run[r].stop
          /\ \A j \in 1 .. run[r].at - 1 : j < run[r].at - 1 => run[r].snap[Order[j]] # "ai_complete"
      BY <2>1, <2>2 DEF SequentialInv
    <2>6. \A j \in 1 .. run[r].at - 1 : j < run[r].at - 1 \/ j = run[r].at - 1
      BY <1>0
    <2>7. ~run'[r].stop => \A j \in 1 .. run[r].at - 1 : run[r].snap[Order[j]] # "ai_complete"
      BY <2>0, <2>3, <2>4, <2>5, <2>6
    <2>8. \A x \in Executed(r) : \A d \in Deps[x] : Good(r, d)'
      BY <2>1, <2>2 DEF SequentialInv, Good
    <2> QED BY <2>1, <2>2, <2>3, <2>7, <2>8 DEF SequentialInv
  <1>6. ASSUME NEW s \in Step, EnlistStep(r, s), Sequential(r)' PROVE SequentialInv(r)'
    <2>1. /\ Course(r)' = Course(r) /\ s \in run[r].batch /\ run'[r].batch = run[r].batch \ {s}
          /\ run'[r].done = run[r].done /\ Executed(r)' = Executed(r) \union {s}
          /\ run'[r].stop = run[r].stop /\ Verdict(r, s) = "execute"
      BY <1>6, EnlistChange
    <2>2. /\ run'[r].at = run[r].at /\ run'[r].snap = run[r].snap
          /\ run[r].phase = "running" /\ Sequential(r)
      BY <1>0, <1>6, <2>1, CourseStays
    <2>3. /\ s = Order[run[r].at - 1] /\ run'[r].batch = {} /\ run[r].at - 1 \in Nat
          /\ \A d \in Deps[s] : \E j \in 1 .. run[r].at - 1 : j < run[r].at - 1 /\ Order[j] = d
      BY <2>1, <2>2, SequentialBatch
    <2>4. deps_met(r, s) /\ run[r].snap[s] # "ai_complete"
      BY <2>1, <2>2, VerdictFacts
    <2>5. /\ ~run[r].stop
          /\ \A j \in 1 .. run[r].at - 1 : j < run[r].at - 1 => run[r].snap[Order[j]] # "ai_complete"
      BY <2>1, <2>2 DEF SequentialInv
    <2>6. \A j \in 1 .. run[r].at - 1 : j < run[r].at - 1 \/ j = run[r].at - 1
      BY <1>0
    <2>7. \A j \in 1 .. run[r].at - 1 : run[r].snap[Order[j]] # "ai_complete"
      BY <2>3, <2>4, <2>5, <2>6
    <2>8. \A d \in Deps[s] : run[r].snap[d] = "human_approved"
      BY <2>3, <2>4, <2>5 DEF deps_met
    <2>9. \A x \in Executed(r) \union {s} : \A d \in Deps[x] : Good(r, d)'
      BY <2>1, <2>2, <2>8 DEF SequentialInv, Good
    <2> QED BY <2>1, <2>2, <2>3, <2>7, <2>9 DEF SequentialInv
  <1>7. ASSUME NEW s \in Step, StartStep(r, s), Sequential(r)' PROVE SequentialInv(r)'
    <2>1. /\ Course(r)' = Course(r) /\ run'[r].batch = run[r].batch
          /\ run'[r].done = run[r].done /\ Executed(r)' = Executed(r)
          /\ run'[r].stop = run[r].stop
      BY <1>7, StartChange
    <2>2. /\ run'[r].at = run[r].at /\ run'[r].snap = run[r].snap
          /\ run'[r].phase = run[r].phase /\ Sequential(r)
      BY <1>7, <2>1, CourseStays
    <2> QED BY <2>1, <2>2 DEF SequentialInv, Good
  <1>8. ASSUME NEW s \in Step, CallTool(r, s) PROVE SequentialInv(r)'
    BY <1>8, CallChange DEF SequentialInv, Sequential, Good
  <1>9. ASSUME NEW s \in Step, FinishStep(r, s), Sequential(r)' PROVE SequentialInv(r)'
    <2>1. /\ Course(r)' = Course(r) /\ run'[r].batch = run[r].batch
          /\ run[r].done \subseteq run'[r].done /\ Executed(r)' \subseteq Executed(r)
          /\ run[r].stop => run'[r].stop
          /\ s \in Executed(r) /\ task[r][s].stage # "queued"
      BY <1>9, FinishChange
    <2>2. /\ run'[r].at = run[r].at /\ run'[r].snap = run[r].snap
          /\ run'[r].phase = run[r].phase /\ Sequential(r) /\ run[r].batch = {}
      BY <1>9, <2>1, CourseStays DEF WalkInv
    <2> QED BY <2>1, <2>2 DEF SequentialInv, Good
  <1>10. ~Sequential(r)' => SequentialInv(r)'
    BY DEF SequentialInv
  <1>11. FinishRun(r) => run'[r].phase # "running"
    BY FinishRunChange, EndedChange
  <1>12. ASSUME NEW s \in Step, TaskDies(r, s), ~Sequential(r) PROVE ~Sequential(r)'
    BY <1>12, DieChange, CourseStays
  <1> QED BY <1>1, <1>2, <1>3, <1>4, <1>5, <1>6, <1>7, <1>8, <1>9, <1>10, <1>11, <1>12, RunMoves DEF RunStep

(* Along a plan: what lies in an earlier wave is good, for a wave is entered only *)
(* when the run neither failed nor waits; of the current wave, what is not good   *)
(* is still to be executed or has made the run fail or wait.  What is taken from  *)
(* the cache is done at once, and of the gates nothing else is ever done: the     *)
(* gate a step waits behind is approved when its wave is reached.                 *)
WaveInv(r) ==
  run[r].phase = "running" /\ ~Sequential(r) =>
    LET p == run[r].plan  k == run[r].at - 1  gates == Manual \union p.gates IN
    /\ Executed(r) \intersect gates = {}
    /\ run[r].died \intersect gates = {}
    /\ run[r].done \intersect gates \subseteq p.hits
    /\ \A j \in 1 .. k : \A d \in p.batches[j] :
         /\ p.wave[j] < p.wave[k] => Past(r, d)
         /\ \/ Past(r, d) \/ run[r].failed \/ run[r].awaiting
            \/ d \in run[r].batch \union Executed(r)

(* What a levelled plan gives for the step of a batch. *)
LEMMA EarlierIsGood ==
  ASSUME TypeOK, NEW r \in Run, WalkInv(r), WaveInv(r), run[r].phase = "running", ~Sequential(r),
         NEW s \in Step, s \in run[r].batch \union Executed(r),
         NEW d \in Step, Earlier(run[r].plan, run[r].at - 1, d)
  PROVE  Past(r, d)
PROOF
  <1> DEFINE p == run[r].plan  k == run[r].at - 1
  <1>1. /\ run[r].at \in Nat \ {0} /\ Len(p.batches) \in Nat
        /\ DOMAIN p.batches = 1 .. Len(p.batches) /\ Layered(p)
        /\ p.wave \in Seq(Nat)
    BY PlanFacts, LoadedIsPlan DEF TypeOK, RunRecord, Plan
  <1>2. k \in 1 .. Len(p.batches)
    BY <1>1 DEF WalkInv, Current
  <1>3. PICK j \in DOMAIN p.batches : d \in p.batches[j] /\ p.wave[j] < p.wave[k]
    BY DEF Earlier
  <1> HIDE DEF p, k
  <1>4. /\ DOMAIN p.wave = 1 .. Len(p.batches) /\ p.wave[j] \in Nat /\ p.wave[k] \in Nat
        /\ \A x, y \in DOMAIN p.wave : x <= y => p.wave[x] <= p.wave[y]
    <2>1. Len(p.wave) = Len(p.batches) /\ DOMAIN p.wave = 1 .. Len(p.wave)
      BY <1>1 DEF Layered
    <2>2. \A x \in 1 .. Len(p.wave) : p.wave[x] \in Nat
      BY <1>1, <2>1
    <2> QED BY <1>1, <1>2, <1>3, <2>1, <2>2 DEF Layered
  <1>5. ~(k <= j)
    <2>1. k <= j => p.wave[k] <= p.wave[j]
      BY <1>1, <1>2, <1>3, <1>4
    <2>2. ASSUME NEW x \in Nat, NEW y \in Nat, x < y PROVE ~(y <= x)
      BY <2>2
    <2> QED BY <1>3, <1>4, <2>1, <2>2
  <1>6. j \in 1 .. k
    BY <1>1, <1>2, <1>5
  <1> QED BY <1>3, <1>6 DEF WaveInv, p, k

(* So no step stalls, and what is executed has its dependencies. *)
LEMMA CurrentStep ==
  ASSUME TypeOK, NEW r \in Run, WalkInv(r), WaveInv(r), run[r].phase = "running", ~Sequential(r),
         \A p \in WavePlans : Levelled(p),
         NEW s \in Step, s \in run[r].batch \union Executed(r)
  PROVE  Verdict(r, s) # "stall" /\ \A d \in Deps[s] : Past(r, d)
PROOF
  <1> DEFINE p == run[r].plan  k == run[r].at - 1  g == p.barrier[s]
  <1>1. /\ run[r].at \in Nat \ {0} /\ Len(p.batches) \in Nat
        /\ DOMAIN p.batches = 1 .. Len(p.batches) /\ p \in WavePlans
        /\ p.barrier \in [Step -> Step \union {None}]
    BY PlanFacts, LoadedIsPlan DEF TypeOK, RunRecord, Plan
  <1>2. k \in DOMAIN p.batches /\ s \in p.batches[k]
    BY <1>1 DEF WalkInv, Current
  <1>3. /\ \A d \in Deps[s] : Earlier(p, k, d)
        /\ g # None => g \in (Manual \union p.gates) \ p.hits /\ Earlier(p, k, g)
    BY <1>1, <1>2 DEF Levelled
  <1>4. Deps[s] \subseteq Step
    BY PipelineAssumption
  <1>5. \A d \in Deps[s] : Past(r, d)
    BY <1>3, <1>4, EarlierIsGood
  <1>6. gate_satisfied(r, s)
    <2>1. CASE g # None
      <3>1. g \in Step /\ Past(r, g)
        BY <1>1, <1>3, <2>1, EarlierIsGood
      <3>2. g \notin run[r].done /\ g \notin run[r].died
        BY <1>3, <2>1 DEF WaveInv
      <3> QED BY <3>1, <3>2 DEF gate_satisfied, Past, Good
    <2> QED BY <2>1 DEF gate_satisfied
  <1> QED BY <1>5, <1>6, VerdictFacts

(* A move of the run within its batch, that puts aside at most the step s. *)
LEMMA WithinWave ==
  ASSUME NEW r \in Run, NEW s \in Step, WaveInv(r), run[r].phase = "running", ~Sequential(r),
         Course(r)' = Course(r), run[r].done \subseteq run'[r].done,
         run[r].died \subseteq run'[r].died,
         run[r].failed => run'[r].failed, run[r].awaiting => run'[r].awaiting,
         run[r].batch \union Executed(r) \subseteq run'[r].batch \union Executed(r)' \union {s},
         Past(r, s)' \/ run'[r].failed \/ run'[r].awaiting \/ s \in run'[r].batch \union Executed(r)',
         (Executed(r)' \union run'[r].died) \intersect (Manual \union run[r].plan.gates) = {},
         run'[r].done \intersect (Manual \union run[r].plan.gates) \subseteq run[r].plan.hits
  PROVE  WaveInv(r)'
PROOF
  <1>1. run'[r].plan = run[r].plan /\ run'[r].at = run[r].at /\ run'[r].snap = run[r].snap
    BY CourseStays
  <1>2. \A d : Past(r, d) => Past(r, d)'
    BY <1>1 DEF Past, Good
  <1> DEFINE p == run[r].plan  k == run[r].at - 1
  <1>3. ASSUME NEW j \in 1 .. k, NEW d \in p.batches[j]
        PROVE  /\ p.wave[j] < p.wave[k] => Past(r, d)'
               /\ \/ Past(r, d)' \/ run'[r].failed \/ run'[r].awaiting
                  \/ d \in run'[r].batch \union Executed(r)'
    <2>1. /\ p.wave[j] < p.wave[k] => Past(r, d)
          /\ \/ Past(r, d) \/ run[r].failed \/ run[r].awaiting
             \/ d \in run[r].batch \union Executed(r)
      BY <1>3 DEF WaveInv
    <2> QED BY <1>2, <2>1
  <1> QED BY <1>1, <1>3 DEF WaveInv

LEMMA WaveEntered ==
  ASSUME TypeOK, NEW r \in Run, WaveInv(r), NextBatch(r), ~Sequential(r)
  PROVE  WaveInv(r)'
PROOF
  <1> DEFINE p == run[r].plan  k == run[r].at
  <1>1. /\ run[r].phase = "running" /\ run'[r].plan = p /\ run'[r].snap = run[r].snap
        /\ run'[r].at = k + 1 /\ run[r].batch = {} /\ Executed(r) = {} /\ Executed(r)' = {}
        /\ run'[r].batch = p.batches[k] /\ run'[r].done = run[r].done /\ run'[r].died = run[r].died
        /\ k <= Len(p.batches) /\ ~Halted(r)
    BY NextBatchChange
  <1>2. /\ k \in Nat \ {0} /\ Len(p.batches) \in Nat /\ Len(p.wave) = Len(p.batches)
        /\ p.mode = "wave"
    BY PlanFacts, PipelineAssumption DEF Layered
  <1>3. \A d : Past(r, d)' = Past(r, d)
    BY <1>1 DEF Past, Good
  <1>4. ASSUME NEW j \in 1 .. k - 1, NEW d \in p.batches[j], p.wave[j] < p.wave[k]
        PROVE  Past(r, d)
    <2>1. CASE p.wave[k] = p.wave[k - 1]
      BY <1>1, <1>4, <2>1 DEF WaveInv
    <2>2. CASE p.wave[k] # p.wave[k - 1]
      <3>1. k \in 2 .. Len(p.wave)
        BY <1>1, <1>2, <1>4
      <3>2. ~run[r].failed /\ ~run[r].awaiting
        BY <1>1, <1>2, <2>2, <3>1 DEF Halted
      <3> QED BY <1>1, <1>4, <3>2 DEF WaveInv
    <2> QED BY <2>1, <2>2
  <1>5. ASSUME NEW d \in p.batches[k] PROVE ~(p.wave[k] < p.wave[k])
    <2>1. p.wave[k] \in Nat
      <3>1. p.wave \in Seq(Nat)
        BY LoadedIsPlan DEF TypeOK, RunRecord, Plan
      <3>2. k \in 1 .. Len(p.wave)
        BY <1>1, <1>2
      <3> QED BY <3>1, <3>2
    <2> QED BY <2>1
  <1>6. \A j \in 1 .. k - 1 : \A d \in p.batches[j] :
          Past(r, d) \/ run[r].failed \/ run[r].awaiting
    BY <1>1 DEF WaveInv
  <1>7. run'[r].failed = run[r].failed /\ run'[r].awaiting = run[r].awaiting
    BY NextBatchChange
  <1>8. /\ (k + 1) - 1 = k /\ \A j \in 1 .. k : j \in 1 .. k - 1 \/ j = k
    BY <1>2
  <1> DEFINE gates == Manual \union p.gates
  <1>9. run[r].done \intersect gates \subseteq p.hits /\ run[r].died \intersect gates = {}
    BY <1>1 DEF WaveInv
  <1> HIDE DEF p, k
  <1>10. \A j \in 1 .. k : \A d \in p.batches[j] :
           /\ p.wave[j] < p.wave[k] => Past(r, d)'
           /\ \/ Past(r, d)' \/ run'[r].failed \/ run'[r].awaiting
              \/ d \in run'[r].batch \union Executed(r)'
    BY <1>1, <1>3, <1>4, <1>5, <1>6, <1>7, <1>8
  <1> QED BY <1>1, <1>8, <1>9, <1>10 DEF WaveInv

LEMMA NextWave ==
  ASSUME TypeOK, [Next]_vars, NEW r \in Run, WalkInv(r), WaveInv(r),
         \A p \in WavePlans : Levelled(p)
  PROVE  WaveInv(r)'
PROOF
  <1>0. /\ run[r].at \in Nat \ {0} /\ run[r].snap \in [Step -> Status]
        /\ run[r].phase # "running" => run[r].batch = {} /\ Executed(r) = {}
    BY DEF TypeOK, RunRecord, WalkInv
  <1>1. CASE run'[r] = run[r] /\ task'[r] = task[r]
    BY <1>1 DEF WaveInv, Executed, Sequential, Past, Good
  <1>2. CASE run'[r].phase # "running" \/ Sequential(r)'
    BY <1>2 DEF WaveInv
  <1>3. CASE StartRun(r)
    <2>1. run'[r].at - 1 = 0 /\ run'[r].batch = {} /\ Executed(r)' = {}
          /\ run'[r].done = {} /\ run'[r].died = {}
      BY <1>0, <1>3, StartRunChange
    <2> QED BY <2>1 DEF WaveInv
  <1>4. CASE NextBatch(r) /\ ~Sequential(r)'
    BY <1>4, NextBatchChange, WaveEntered DEF Sequential
  <1>5. ASSUME NEW s \in Step, PassStep(r, s), ~Sequential(r)' PROVE WaveInv(r)'
    <2>1. /\ Course(r)' = Course(r) /\ s \in run[r].batch /\ run'[r].batch = run[r].batch \ {s}
          /\ Executed(r)' = Executed(r) /\ Verdict(r, s) # "execute" /\ run'[r].died = run[r].died
      BY <1>5, PassChange DEF Executed
    <2>2. run'[r].awaiting <=> run[r].awaiting \/ Verdict(r, s) \in {"resurface", "gate"}
      BY <1>5, PassChange
    <2>3. run'[r].failed <=> run[r].failed \/ Verdict(r, s) = "stay_failed"
      BY <1>5, PassChange
    <2>4. run'[r].done = IF Verdict(r, s) = "cache_hit" THEN run[r].done \union {s} ELSE run[r].done
      BY <1>5, PassChange
    <2>5. run[r].phase = "running" /\ ~Sequential(r) /\ run'[r].snap = run[r].snap
      BY <1>0, <1>5, <2>1, CourseStays
    <2>6. Past(r, s)' \/ run'[r].awaiting
      <3>1. Verdict(r, s) # "stall"
        BY <2>1, <2>5, CurrentStep
      <3>2. CASE Verdict(r, s) = "skip"
        <4>1. run[r].snap[s] \in Resolved \intersect Status
          BY <1>0, <2>5, <3>2, VerdictFacts
        <4> QED BY <2>5, <4>1 DEF Past, Good, Resolved, Status
      <3>3. CASE Verdict(r, s) = "cache_hit"
        BY <2>4, <3>3 DEF Past, Good
      <3> QED BY <2>1, <2>2, <2>5, <3>1, <3>2, <3>3, VerdictFacts
    <2>7. /\ Executed(r) \intersect (Manual \union run[r].plan.gates) = {}
          /\ run[r].died \intersect (Manual \union run[r].plan.gates) = {}
          /\ run[r].done \intersect (Manual \union run[r].plan.gates) \subseteq run[r].plan.hits
      BY <2>5 DEF WaveInv
    <2>8. run'[r].done \intersect (Manual \union run[r].plan.gates) \subseteq run[r].plan.hits
      BY <2>4, <2>5, <2>7, VerdictFacts
    <2> QED BY <2>1, <2>2, <2>3, <2>4, <2>5, <2>6, <2>7, <2>8, WithinWave
  <1>6. ASSUME NEW s \in Step, EnlistStep(r, s), ~Sequential(r)' PROVE WaveInv(r)'
    <2>1. /\ Course(r)' = Course(r) /\ s \in run[r].batch /\ run'[r].batch = run[r].batch \ {s}
          /\ run'[r].done = run[r].done /\ Executed(r)' = Executed(r) \union {s}
          /\ run'[r].failed = run[r].failed /\ run'[r].awaiting = run[r].awaiting
          /\ Verdict(r, s) = "execute" /\ run'[r].died = run[r].died
      BY <1>6, EnlistChange
    <2>2. run[r].phase = "running" /\ ~Sequential(r)
      BY <1>0, <1>6, <2>1, CourseStays
    <2>3. /\ Executed(r) \intersect (Manual \union run[r].plan.gates) = {}
          /\ run[r].died \intersect (Manual \union run[r].plan.gates) = {}
          /\ run[r].done \intersect (Manual \union run[r].plan.gates) \subseteq run[r].plan.hits
      BY <2>2 DEF WaveInv
    <2>4. s \notin Manual \union run[r].plan.gates
      BY <2>1, <2>2, VerdictFacts
    <2> QED BY <2>1, <2>2, <2>3, <2>4, WithinWave
  <1>7. ASSUME NEW s \in Step, StartStep(r, s), ~Sequential(r)' PROVE WaveInv(r)'
    <2>1. /\ Course(r)' = Course(r) /\ run'[r].batch = run[r].batch
          /\ run'[r].done = run[r].done /\ Executed(r)' = Executed(r) /\ s \in Executed(r)
          /\ run'[r].failed = run[r].failed /\ run'[r].awaiting = run[r].awaiting
          /\ run'[r].died = run[r].died
      BY <1>7, StartChange
    <2>2. run[r].phase = "running" /\ ~Sequential(r)
      BY <1>0, <1>7, <2>1, CourseStays
    <2>3. /\ Executed(r) \intersect (Manual \union run[r].plan.gates) = {}
          /\ run[r].died \intersect (Manual \union run[r].plan.gates) = {}
          /\ run[r].done \intersect (Manual \union run[r].plan.gates) \subseteq run[r].plan.hits
      BY <2>2 DEF WaveInv
    <2> QED BY <2>1, <2>2, <2>3, WithinWave
  <1>8. ASSUME NEW s \in Step, CallTool(r, s) PROVE WaveInv(r)'
    BY <1>8, CallChange DEF WaveInv, Sequential, Past, Good
  <1>9. ASSUME NEW s \in Step, FinishStep(r, s), ~Sequential(r)' PROVE WaveInv(r)'
    <2> DEFINE ok == task[r][s].stage = "succeeded"
    <2>1. /\ Course(r)' = Course(r) /\ run'[r].batch = run[r].batch
          /\ Executed(r)' = Executed(r) \ {s} /\ s \in Executed(r) /\ run'[r].died = run[r].died
      BY <1>9, FinishChange
    <2>2. run'[r].awaiting <=> run[r].awaiting \/ (ok /\ s \notin AutoAdvance)
      BY <1>9, FinishChange
    <2>3. run'[r].failed <=> run[r].failed \/ ~ok
      BY <1>9, FinishChange
    <2>4. run'[r].done = IF ok THEN run[r].done \union {s} ELSE run[r].done
      BY <1>9, FinishChange
    <2>5. run[r].phase = "running" /\ ~Sequential(r)
      BY <1>0, <1>9, <2>1, CourseStays
    <2>6. Past(r, s)' \/ run'[r].failed
      BY <2>3, <2>4 DEF Past, Good
    <2>7. /\ Executed(r) \intersect (Manual \union run[r].plan.gates) = {}
          /\ run[r].died \intersect (Manual \union run[r].plan.gates) = {}
          /\ run[r].done \intersect (Manual \union run[r].plan.gates) \subseteq run[r].plan.hits
      BY <2>5 DEF WaveInv
    <2>8. run'[r].done \intersect (Manual \union run[r].plan.gates) \subseteq run[r].plan.hits
      BY <2>1, <2>4, <2>7
    <2> QED BY <2>1, <2>2, <2>3, <2>4, <2>5, <2>6, <2>7, <2>8, WithinWave
  <1>10. FinishRun(r) => run'[r].phase # "running"
    BY FinishRunChange, EndedChange
  <1>11. ASSUME NEW s \in Step, TaskDies(r, s), ~Sequential(r) PROVE WaveInv(r)'
    <2>1. /\ Course(r)' = Course(r) /\ run'[r].batch = run[r].batch
          /\ Executed(r)' = Executed(r) \ {s} /\ s \in Executed(r)
          /\ run'[r].failed = run[r].failed /\ run'[r].awaiting = run[r].awaiting
          /\ run'[r].done = run[r].done /\ run'[r].died = run[r].died \union {s}
      BY <1>11, DieChange
    <2>2. run[r].phase = "running" /\ Past(r, s)'
      BY <1>0, <2>1 DEF Past
    <2>3. /\ Executed(r) \intersect (Manual \union run[r].plan.gates) = {}
          /\ run[r].died \intersect (Manual \union run[r].plan.gates) = {}
          /\ run[r].done \intersect (Manual \union run[r].plan.gates) \subseteq run[r].plan.hits
      BY <1>11, <2>2 DEF WaveInv
    <2> QED BY <1>11, <2>1, <2>2, <2>3, WithinWave
  <1> QED BY <1>1, <1>2, <1>3, <1>4, <1>5, <1>6, <1>7, <1>8, <1>9, <1>10, <1>11, RunMoves DEF RunStep

(* DependenciesDone: whatever a run executes, each of its dependencies was       *)
(* approved when the run began or completed by it; without a plan always, with   *)
(* one when the plan is levelled.                                                *)
THEOREM NothingRunsAhead ==
  ASSUME \A p \in WavePlans : Levelled(p)
  PROVE  Spec => []DependenciesDone
PROOF
  <1> DEFINE Inv == \A r \in Run : WalkInv(r) /\ SequentialInv(r) /\ WaveInv(r)
  <1>1. Init => Inv
    <2> SUFFICES ASSUME Init, NEW r \in Run PROVE WalkInv(r) /\ SequentialInv(r) /\ WaveInv(r)
      OBVIOUS
    <2>1. run[r] = Idle /\ Executed(r) = {}
      BY DEF Init, Executed, NoTask
    <2>2. Len(SequentialPlan.batches) \in Nat
      BY SequentialIsPlan DEF Plan
    <2> QED BY <2>1, <2>2 DEF Idle, WalkInv, SequentialInv, WaveInv, Current
  <1>2. TypeOK /\ Inv /\ [Next]_vars => Inv'
    BY NextWalk, NextSequential, NextWave
  <1>3. TypeOK /\ Inv => DependenciesDone
    <2> SUFFICES ASSUME TypeOK, Inv, NEW r \in Run, NEW s \in Step, task[r][s].stage # "none"
                 PROVE  \A d \in Deps[s] :
                          Good(r, d) \/ (~Sequential(r) /\ d \in run[r].died)
      BY DEF DependenciesDone, Good
    <2>1. s \in Executed(r) /\ run[r].phase = "running"
      BY DEF Executed, WalkInv
    <2>2. CASE Sequential(r)
      BY <2>1, <2>2 DEF SequentialInv
    <2>3. CASE ~Sequential(r)
      BY <2>1, <2>3, CurrentStep DEF Past
    <2> QED BY <2>2, <2>3
  <1> QED BY PipelineTypes, <1>1, <1>2, <1>3, PTL DEF Spec

-------------------------------------------------------------------------------
(* Coverage.  Every step of the batches a run has been through was resolved when *)
(* it began, or got a state from it, or is still to come, or the run will not    *)
(* say "done"; and no run stops early that will say so.                          *)
CoverInv(r) ==
  run[r].phase = "running" =>
    /\ Sequential(r) /\ run[r].stop => run[r].failed \/ run[r].awaiting
    /\ \A s \in Executed(r) : task[r][s].stage = "queued" \/ s \in run[r].touched
    /\ \A j \in 1 .. run[r].at - 1 : \A s \in run[r].plan.batches[j] :
         \/ run[r].snap[s] \in Resolved \/ s \in run[r].touched
         \/ run[r].failed \/ run[r].awaiting
         \/ s \in run[r].batch \union Executed(r)

(* A move of the run within its batch, that puts aside at most the step s. *)
LEMMA WithinCover ==
  ASSUME NEW r \in Run, NEW s \in Step, CoverInv(r), run[r].phase = "running",
         Course(r)' = Course(r), run[r].touched \subseteq run'[r].touched,
         run[r].failed => run'[r].failed, run[r].awaiting => run'[r].awaiting,
         run'[r].stop => run[r].stop \/ run'[r].failed \/ run'[r].awaiting
                           \/ ~Sequential(r),
         run[r].batch \union Executed(r) \subseteq run'[r].batch \union Executed(r)' \union {s},
         \A x \in Executed(r)' \ {s} : x \in Executed(r) /\ task'[r][x] = task[r][x],
         s \in Executed(r)' => task'[r][s].stage = "queued" \/ s \in run'[r].touched,
         \/ run[r].snap[s] \in Resolved \/ s \in run'[r].touched
         \/ run'[r].failed \/ run'[r].awaiting \/ s \in run'[r].batch \union Executed(r)'
  PROVE  CoverInv(r)'
PROOF
  <1>1. /\ run'[r].plan = run[r].plan /\ run'[r].at = run[r].at /\ run'[r].snap = run[r].snap
        /\ Sequential(r)' = Sequential(r)
    BY CourseStays
  <1>2. \A x \in Executed(r)' : task'[r][x].stage = "queued" \/ x \in run'[r].touched
    BY DEF CoverInv
  <1>3. ASSUME NEW j \in 1 .. run[r].at - 1, NEW x \in run[r].plan.batches[j]
        PROVE  \/ run[r].snap[x] \in Resolved \/ x \in run'[r].touched
               \/ run'[r].failed \/ run'[r].awaiting
               \/ x \in run'[r].batch \union Executed(r)'
    <2>1. \/ run[r].snap[x] \in Resolved \/ x \in run[r].touched
          \/ run[r].failed \/ run[r].awaiting \/ x \in run[r].batch \union Executed(r)
      BY <1>3 DEF CoverInv
    <2> QED BY <2>1
  <1>4. Sequential(r) /\ run'[r].stop => run'[r].failed \/ run'[r].awaiting
    BY DEF CoverInv
  <1> QED BY <1>1, <1>2, <1>3, <1>4 DEF CoverInv

LEMMA NextCover ==
  ASSUME TypeOK, [Next]_vars, NEW r \in Run, WalkInv(r), CoverInv(r)
  PROVE  CoverInv(r)'
PROOF
  <1>0. /\ run[r].at \in Nat \ {0}
        /\ run[r].phase # "running" => run[r].batch = {} /\ Executed(r) = {}
    BY DEF TypeOK, RunRecord, WalkInv
  <1>1. CASE run'[r] = run[r] /\ task'[r] = task[r]
    BY <1>1 DEF CoverInv, Executed, Sequential
  <1>2. CASE run'[r].phase # "running"
    BY <1>2 DEF CoverInv
  <1>3. CASE StartRun(r)
    <2>1. run'[r].at - 1 = 0 /\ Executed(r)' = {} /\ ~run'[r].stop
      BY <1>0, <1>3, StartRunChange
    <2> QED BY <2>1 DEF CoverInv
  <1>4. CASE NextBatch(r)
    <2>1. /\ run[r].phase = "running" /\ run'[r].plan = run[r].plan /\ run'[r].snap = run[r].snap
          /\ run'[r].at = run[r].at + 1 /\ run[r].batch = {} /\ Executed(r) = {} /\ Executed(r)' = {}
          /\ run'[r].batch = run[r].plan.batches[run[r].at] /\ run'[r].stop = run[r].stop
          /\ run'[r].failed = run[r].failed /\ run'[r].awaiting = run[r].awaiting
          /\ run'[r].touched = run[r].touched
      BY <1>4, NextBatchChange
    <2>2. \A j \in 1 .. run'[r].at - 1 : j \in 1 .. run[r].at - 1 \/ j = run[r].at
      BY <1>0, <2>1
    <2>3. Sequential(r)' = Sequential(r)
      BY <2>1 DEF Sequential
    <2> QED BY <2>1, <2>2, <2>3 DEF CoverInv
  <1>5. ASSUME NEW s \in Step, PassStep(r, s) PROVE CoverInv(r)'
    <2> DEFINE v == Verdict(r, s)
    <2>1. /\ Course(r)' = Course(r) /\ s \in run[r].batch /\ run'[r].batch = run[r].batch \ {s}
          /\ Executed(r)' = Executed(r) /\ task' = task /\ v # "execute"
      BY <1>5, PassChange DEF Executed
    <2>2. run'[r].awaiting <=> run[r].awaiting \/ v \in {"resurface", "gate"}
      BY <1>5, PassChange
    <2>3. run'[r].failed <=> run[r].failed \/ v = "stay_failed"
      BY <1>5, PassChange
    <2>4. run'[r].stop <=> run[r].stop \/ v = "resurface"
      BY <1>5, PassChange
    <2>5. run'[r].touched = IF v \in {"gate", "stall", "cache_hit"}
                            THEN run[r].touched \union {s} ELSE run[r].touched
      BY <1>5, PassChange
    <2>6. run[r].phase = "running"
      BY <1>0, <2>1
    <2>7. /\ v \in {"skip", "resurface", "stay_failed", "gate", "stall", "cache_hit", "execute"}
          /\ v = "skip" => run[r].snap[s] \in Resolved
      BY VerdictFacts
    <2>8. s \in Executed(r) => task[r][s].stage = "queued" \/ s \in run[r].touched
      BY <2>6 DEF CoverInv
    <2> HIDE DEF v
    <2>9. \/ run[r].snap[s] \in Resolved \/ s \in run'[r].touched
          \/ run'[r].failed \/ run'[r].awaiting
      BY <2>1, <2>2, <2>3, <2>5, <2>7
    <2> QED BY <2>1, <2>2, <2>3, <2>4, <2>5, <2>6, <2>8, <2>9, WithinCover
  <1>6. ASSUME NEW s \in Step, EnlistStep(r, s) PROVE CoverInv(r)'
    <2>1. /\ Course(r)' = Course(r) /\ s \in run[r].batch /\ run'[r].batch = run[r].batch \ {s}
          /\ Executed(r)' = Executed(r) \union {s} /\ task'[r][s].stage = "queued"
          /\ run'[r].failed = run[r].failed /\ run'[r].awaiting = run[r].awaiting
          /\ run'[r].stop = run[r].stop /\ run'[r].touched = run[r].touched
      BY <1>6, EnlistChange
    <2>2. \A x \in Executed(r)' \ {s} : x \in Executed(r) /\ task'[r][x] = task[r][x]
      BY <1>6, EnlistChange DEF Executed
    <2> QED BY <1>0, <2>1, <2>2, WithinCover
  <1>7. ASSUME NEW s \in Step, StartStep(r, s) PROVE CoverInv(r)'
    <2>1. /\ Course(r)' = Course(r) /\ run'[r].batch = run[r].batch /\ s \in Executed(r)
          /\ Executed(r)' = Executed(r) /\ run'[r].touched = run[r].touched \union {s}
          /\ run'[r].failed = run[r].failed /\ run'[r].awaiting = run[r].awaiting
          /\ run'[r].stop = run[r].stop
      BY <1>7, StartChange
    <2>2. \A x \in Executed(r)' \ {s} : x \in Executed(r) /\ task'[r][x] = task[r][x]
      BY <1>7, <2>1, StartChange DEF Executed
    <2> QED BY <1>0, <2>1, <2>2, WithinCover
  <1>8. ASSUME NEW s \in Step, CallTool(r, s) PROVE CoverInv(r)'
    <2>1. /\ run'[r] = run[r] /\ Executed(r)' = Executed(r) /\ task[r][s].stage = "calling"
          /\ Course(r)' = Course(r)
      BY <1>8, CallChange DEF Course
    <2>2. s \in Executed(r) /\ s \in run[r].touched
      <3>1. s \in Executed(r)
        BY <2>1 DEF Executed
      <3> QED BY <1>0, <2>1, <3>1 DEF CoverInv
    <2>3. \A x \in Executed(r)' \ {s} : x \in Executed(r) /\ task'[r][x] = task[r][x]
      BY <1>8, <2>1, CallChange DEF Executed
    <2> QED BY <1>0, <2>1, <2>2, <2>3, WithinCover
  <1>9. ASSUME NEW s \in Step, FinishStep(r, s) PROVE CoverInv(r)'
    <2> DEFINE ok == task[r][s].stage = "succeeded"
    <2>1. /\ Course(r)' = Course(r) /\ run'[r].batch = run[r].batch
          /\ Executed(r)' = Executed(r) \ {s} /\ s \in Executed(r)
          /\ task[r][s].stage # "queued" /\ run'[r].touched = run[r].touched
      BY <1>9, FinishChange
    <2>2. run'[r].awaiting <=> run[r].awaiting \/ (ok /\ s \notin AutoAdvance)
      BY <1>9, FinishChange
    <2>3. run'[r].failed <=> run[r].failed \/ ~ok
      BY <1>9, FinishChange
    <2>4. run'[r].stop <=> run[r].stop \/ ~ok \/ s \notin AutoAdvance
      BY <1>9, FinishChange
    <2>5. run[r].phase = "running" /\ s \in run[r].touched
      BY <1>0, <2>1 DEF CoverInv
    <2>6. \A x \in Executed(r)' \ {s} : x \in Executed(r) /\ task'[r][x] = task[r][x]
      <3>1. \A x \in Step \ {s} : task'[r][x] = task[r][x]
        BY <1>9, FinishChange
      <3>2. \A x \in Executed(r) : x \in Step
        BY DEF Executed
      <3> QED BY <2>1, <3>1, <3>2
    <2> QED BY <2>1, <2>2, <2>3, <2>4, <2>5, <2>6, WithinCover
  <1>10. FinishRun(r) => run'[r].phase # "running"
    BY FinishRunChange, EndedChange
  <1>11. ASSUME NEW s \in Step, TaskDies(r, s), ~Sequential(r) PROVE CoverInv(r)'
    <2>1. /\ Course(r)' = Course(r) /\ run'[r].batch = run[r].batch
          /\ Executed(r)' = Executed(r) \ {s} /\ s \in Executed(r)
          /\ task[r][s].stage # "queued" /\ run'[r].touched = run[r].touched
          /\ run'[r].failed = run[r].failed /\ run'[r].awaiting = run[r].awaiting
          /\ run'[r].stop = run[r].stop
      BY <1>11, DieChange
    <2>2. run[r].phase = "running" /\ s \in run[r].touched
      BY <1>0, <2>1 DEF CoverInv
    <2>3. \A x \in Executed(r)' \ {s} : x \in Executed(r) /\ task'[r][x] = task[r][x]
      BY <1>11, <2>1, DieChange DEF Executed
    <2> QED BY <2>1, <2>2, <2>3, WithinCover
  <1> QED BY <1>1, <1>2, <1>3, <1>4, <1>5, <1>6, <1>7, <1>8, <1>9, <1>10, <1>11, RunMoves DEF RunStep

(* The batches of a run's plan hold every step of the board. *)
LEMMA StepIsInPlan ==
  ASSUME TypeOK, NEW r \in Run, \A p \in WavePlans : CoversBoard(p), NEW s \in Step
  PROVE  \E j \in DOMAIN run[r].plan.batches : s \in run[r].plan.batches[j]
PROOF
  <1> DEFINE p == run[r].plan
  <1>1. DOMAIN p.batches = 1 .. Len(p.batches)
    BY PlanFacts
  <1>2. CASE Sequential(r)
    <2>1. PICK k \in DOMAIN Order : Order[k] = s
      BY PipelineAssumption DEF Range
    <2>2. DOMAIN Order = 1 .. Len(Order) /\ Len(p.batches) = Len(Order)
          /\ \A j \in 1 .. Len(Order) : p.batches[j] = {Order[j]}
      BY <1>2, PlanFacts, PipelineAssumption
    <2>3. k \in DOMAIN p.batches /\ s \in p.batches[k]
      BY <1>1, <2>1, <2>2
    <2> QED BY <2>3
  <1>3. CASE ~Sequential(r)
    <2>1. UNION Range(p.batches) = Step
      BY <1>3, PlanFacts DEF CoversBoard
    <2> QED BY <2>1 DEF Range
  <1> QED BY <1>2, <1>3

(* DoneCoversBoard: a run that reports "done" left no step of the board aside;   *)
(* without a plan always, with one when the plan covers the board.               *)
THEOREM DoneLeavesNothing ==
  ASSUME \A p \in WavePlans : CoversBoard(p)
  PROVE  Spec => DoneCoversBoard
PROOF
  <1> DEFINE Inv == \A r \in Run : WalkInv(r) /\ CoverInv(r)
             Covered == \A r \in Run : run[r].phase = "running" /\ run'[r].phase = "done" =>
                          \A s \in Step : run[r].snap[s] \in Resolved \/ s \in run[r].touched
  <1>1. Init => Inv
    <2> SUFFICES ASSUME Init, NEW r \in Run PROVE WalkInv(r) /\ CoverInv(r)
      OBVIOUS
    <2>1. run[r] = Idle /\ Executed(r) = {}
      BY DEF Init, Executed, NoTask
    <2>2. Len(SequentialPlan.batches) \in Nat
      BY SequentialIsPlan DEF Plan
    <2> QED BY <2>1, <2>2 DEF Idle, WalkInv, CoverInv, Current
  <1>2. TypeOK /\ Inv /\ [Next]_vars => Inv'
    BY NextWalk, NextCover
  <1>3. TypeOK /\ Inv /\ [Next]_vars => [Covered]_vars
    <2> SUFFICES ASSUME TypeOK, Inv, [Next]_vars, NEW r \in Run,
                        run[r].phase = "running", run'[r].phase = "done", NEW s \in Step
                 PROVE  run[r].snap[s] \in Resolved \/ s \in run[r].touched
      OBVIOUS
    <2>1. FinishRun(r)
      <3>1. Ended("lost").phase = "lost"
        BY DEF Ended, Idle
      <3>2. ASSUME NEW x \in Step, PassStep(r, x) \/ EnlistStep(r, x) \/ StartStep(r, x)
                                   \/ CallTool(r, x) \/ FinishStep(r, x)
            PROVE  run'[r].phase = run[r].phase
        <4>1. Course(r)' = Course(r) \/ run' = run
          BY <3>2, PassChange, EnlistChange, StartChange, CallChange, FinishChange
        <4> QED BY <4>1, CourseStays
      <3>3. StartRun(r) \/ NextBatch(r) => run'[r].phase = "running"
        BY StartRunChange, NextBatchChange
      <3>4. ASSUME NEW x \in Step, TaskDies(r, x), ~Sequential(r) PROVE run'[r].phase = run[r].phase
        BY <3>4, DieChange, CourseStays
      <3> QED BY <3>1, <3>2, <3>3, <3>4, RunMoves DEF RunStep
    <2>2. /\ run[r].batch = {} /\ Executed(r) = {} /\ ~run[r].failed /\ ~run[r].awaiting
          /\ run[r].at > Len(run[r].plan.batches) \/ Halted(r)
      BY <2>1, FinishRunChange
    <2>3. ~Halted(r)
      BY <2>2 DEF Halted, CoverInv, Sequential
    <2>4. PICK j \in DOMAIN run[r].plan.batches : s \in run[r].plan.batches[j]
      BY StepIsInPlan
    <2>5. j \in 1 .. run[r].at - 1
      BY <2>2, <2>3, <2>4, PlanFacts
    <2> QED BY <2>2, <2>4, <2>5 DEF CoverInv
  <1>4. Spec => []TypeOK /\ []Inv
    BY PipelineTypes, <1>1, <1>2, PTL DEF Spec
  <1>5. Spec => [][Covered]_vars
    BY <1>3, <1>4, PTL DEF Spec
  <1> QED BY <1>5 DEF DoneCoversBoard

================================================================================
