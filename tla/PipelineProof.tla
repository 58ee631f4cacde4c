----------------------------- MODULE PipelineProof -----------------------------
(* Theorems about Pipeline, for every board, plan, set of reviewers and number *)
(* of concurrent runs.                                                         *)
EXTENDS Pipeline, FiniteSetTheorems, TLAPS

-------------------------------------------------------------------------------
(* Plans and commands *)

LEMMA SequentialIsPlan == SequentialPlan \in Plan
BY PipelineAssumption DEF SequentialPlan, Plan

LEMMA LoadedIsPlan ==
  ASSUME NEW p \in load_physical_plan
  PROVE  p \in Plan
BY SequentialIsPlan, PipelineAssumption DEF load_physical_plan

LEMMA UpdateCellType ==
  ASSUME NEW s \in Step, NEW state \in State
  PROVE  UpdateCell(s, state) \in Command
BY DEF UpdateCell, Command

LEMMA PatchedType ==
  ASSUME TypeOK, NEW s \in Step, NEW status \in Status
  PROVE  Patched(s, status) \in State
BY DEF TypeOK, Patched, State

LEMMA PlainType ==
  ASSUME NEW status \in Status
  PROVE  Plain(status) \in State
BY DEF Plain, State

LEMMA StoreType ==
  ASSUME TypeOK, NEW s \in Step, NEW state \in State, Store(s, state)
  PROVE  cell' \in [Step -> State] /\ faults' \in Nat
BY DEF TypeOK, Store, Fault

(* What a write does to the cells and the outbox keeps their types. *)
LEMMA WriteType ==
  ASSUME TypeOK, NEW r \in Run, NEW s \in Step, NEW status \in Status,
         update_step_state(r, s, status)
  PROVE  /\ cell' \in [Step -> State]
         /\ outbox' \subseteq [by : {App} \union Run, cmd : Command]
         /\ faults' \in Nat
PROOF
  <1>1. CASE SetState(r, s, status)
    <2>1. Patched(s, status) \in State
      BY PatchedType
    <2>2. cell' \in [Step -> State] /\ faults' \in Nat
      BY <1>1, <2>1, StoreType DEF SetState
    <2>3. [by |-> r, cmd |-> UpdateCell(s, Patched(s, status))] \in [by : {App} \union Run, cmd : Command]
      BY <2>1, UpdateCellType
    <2> QED BY <1>1, <2>2, <2>3 DEF TypeOK, SetState
  <1>2. CASE WriteFails
    BY <1>2 DEF TypeOK, WriteFails, Fault
  <1> QED BY <1>1, <1>2 DEF update_step_state

(* The commands of a step by step walk over the board. *)
LEMMA ResetCommandsType ==
  ASSUME TypeOK
  PROVE  [k \in DOMAIN Order |-> UpdateCell(Order[k], Patched(Order[k], "pending"))] \in Seq(Command)
PROOF
  <1>1. Order \in Seq(Step)
    BY PipelineAssumption
  <1>2. "pending" \in Status
    BY DEF Status
  <1>3. \A k \in 1 .. Len(Order) : UpdateCell(Order[k], Patched(Order[k], "pending")) \in Command
    BY <1>1, <1>2, PatchedType, UpdateCellType
  <1>4. DOMAIN Order = 1 .. Len(Order) /\ Len(Order) \in Nat
    BY <1>1
  <1> QED BY <1>3, <1>4

-------------------------------------------------------------------------------
(* Type correctness *)

LEMMA RecordTypes ==
  /\ Idle \in RunRecord
  /\ NoTask \in TaskRecord
  /\ \A ph \in {"done", "failed", "awaiting_approval", "lost"} : Ended(ph) \in RunRecord
PROOF
  <1>1. SequentialPlan \in load_physical_plan /\ [s \in Step |-> "pending"] \in [Step -> Status]
    BY DEF load_physical_plan, Status, Resolved
  <1>2. Idle \in RunRecord
    BY <1>1 DEF Idle, RunRecord
  <1>3. \A ph \in {"done", "failed", "awaiting_approval", "lost"} : Ended(ph) \in RunRecord
    BY <1>2 DEF Ended, RunRecord
  <1> QED BY <1>2, <1>3 DEF NoTask, TaskRecord

LEMMA InitType == Init => TypeOK
BY RecordTypes, PipelineAssumption DEF Init, TypeOK

(* What a run remembers of a step it passed over, or executed. *)
LEMMA FoldType ==
  ASSUME NEW me \in RunRecord, NEW s \in Step, NEW v, NEW ok \in BOOLEAN
  PROVE  Passed(me, s, v) \in RunRecord /\ fold(me, s, ok) \in RunRecord
PROOF
  <1>1. Passed(me, s, v) \in RunRecord
    BY DEF Passed, RunRecord
  <1>2. fold(me, s, ok) \in RunRecord
    BY DEF fold, RunRecord
  <1> QED BY <1>1, <1>2

LEMMA AdvanceType ==
  ASSUME NEW me \in RunRecord, NEW b \in SUBSET Step
  PROVE  [me EXCEPT !.batch = b, !.at = me.at + 1] \in RunRecord
PROOF
  <1>1. me.at + 1 \in Nat \ {0}
    BY DEF RunRecord
  <1> DEFINE n == me.at + 1
  <1> HIDE DEF n
  <1>2. [me EXCEPT !.batch = b, !.at = n] \in RunRecord
    BY <1>1 DEF RunRecord, n
  <1> QED BY <1>2 DEF n

LEMMA RunStepType ==
  ASSUME TypeOK, NEW r \in Run,
         StartRun(r) \/ NextBatch(r) \/ FinishRun(r)
  PROVE  TypeOK'
PROOF
  <1>1. SUFFICES run' \in [Run -> RunRecord]
    BY DEF TypeOK, StartRun, NextBatch, FinishRun
  <1>2. CASE StartRun(r)
    <2>1. PICK p \in load_physical_plan :
            run' = [run EXCEPT ![r] = [Idle EXCEPT !.phase = "running", !.plan = p, !.snap = load_pipeline_cells]]
      BY <1>2 DEF StartRun
    <2>2. [Idle EXCEPT !.phase = "running", !.plan = p, !.snap = load_pipeline_cells] \in RunRecord
      BY RecordTypes DEF TypeOK, RunRecord, load_pipeline_cells, State
    <2> QED BY <2>1, <2>2 DEF TypeOK
  <1>3. CASE NextBatch(r)
    <2>1. run[r] \in RunRecord /\ run[r].plan \in Plan
      BY LoadedIsPlan DEF TypeOK, RunRecord
    <2>2. run[r].plan.batches \in Seq(SUBSET Step) /\ run[r].at \in Nat \ {0}
      BY <2>1 DEF Plan, RunRecord
    <2>3. run[r].plan.batches[run[r].at] \in SUBSET Step
      BY <1>3, <2>2 DEF NextBatch
    <2> DEFINE next == [run[r] EXCEPT !.batch = run[r].plan.batches[run[r].at], !.at = run[r].at + 1]
    <2>4. next \in RunRecord
      BY <2>1, <2>3, AdvanceType
    <2>5. run' = [run EXCEPT ![r] = next]
      BY <1>3 DEF NextBatch, TypeOK
    <2> HIDE DEF next
    <2> QED BY <2>4, <2>5 DEF TypeOK
  <1>4. CASE FinishRun(r)
    BY <1>4, RecordTypes DEF FinishRun, TypeOK
  <1> QED BY <1>2, <1>3, <1>4

LEMMA TaskStepType ==
  ASSUME TypeOK, NEW r \in Run, NEW s \in Step,
         \/ PassStep(r, s) \/ EnlistStep(r, s) \/ StartStep(r, s)
         \/ CallTool(r, s) \/ FinishStep(r, s) \/ TaskDies(r, s)
  PROVE  TypeOK'
PROOF
  <1> /\ run[r] \in RunRecord /\ task[r][s] \in TaskRecord /\ task[r] \in [Step -> TaskRecord]
      /\ "scheduled" \in Status /\ "ai_complete" \in Status /\ "running" \in Status
      /\ "failed" \in Status /\ "human_approved" \in Status
    BY DEF TypeOK, Status, Resolved
  <1>1. CASE PassStep(r, s)
    <2>1. run' \in [Run -> RunRecord]
      BY <1>1, FoldType DEF PassStep, TypeOK
    <2>2. /\ cell' \in [Step -> State] /\ outbox' \subseteq [by : {App} \union Run, cmd : Command]
          /\ faults' \in Nat
      <3>1. CASE Verdict(r, s) \in {"gate", "stall", "cache_hit"}
        BY <1>1, <3>1, WriteType DEF PassStep
      <3>2. CASE Verdict(r, s) \notin {"gate", "stall", "cache_hit"}
        BY <1>1, <3>2 DEF PassStep, TypeOK
      <3> QED BY <3>1, <3>2
    <2> QED BY <1>1, <2>1, <2>2 DEF PassStep, TypeOK
  <1>2. CASE EnlistStep(r, s)
    <2>1. run' \in [Run -> RunRecord]
      BY <1>2 DEF EnlistStep, TypeOK, RunRecord
    <2>2. task' \in [Run -> [Step -> TaskRecord]]
      BY <1>2, RecordTypes DEF EnlistStep, TypeOK, TaskRecord
    <2> QED BY <1>2, <2>1, <2>2 DEF EnlistStep, TypeOK
  <1>3. CASE StartStep(r, s)
    <2>1. run' \in [Run -> RunRecord]
      BY <1>3 DEF StartStep, TypeOK, RunRecord
    <2>2. task' \in [Run -> [Step -> TaskRecord]]
      BY <1>3 DEF StartStep, TypeOK, TaskRecord
    <2>3. /\ cell' \in [Step -> State] /\ outbox' \subseteq [by : {App} \union Run, cmd : Command]
          /\ faults' \in Nat
      BY <1>3, WriteType DEF StartStep
    <2> QED BY <1>3, <2>1, <2>2, <2>3 DEF StartStep, TypeOK
  <1>4. CASE CallTool(r, s)
    <2>1. PICK o \in Outcomes(s) : \E effect \in Effects(o) :
            /\ task' = [task EXCEPT ![r][s] =
                 [stage |-> ToolStage(task[r][s], s, o),
                  sent |-> IF effect THEN task[r][s].sent + 1 ELSE task[r][s].sent,
                  tries |-> IF ToolStage(task[r][s], s, o) = "calling" /\ o = "transient"
                            THEN task[r][s].tries + 1 ELSE task[r][s].tries,
                  refreshed |-> ToolStage(task[r][s], s, o) = "calling" /\ o = "auth"]]
            /\ sent' = IF effect THEN sent \union {s} ELSE sent
      BY <1>4 DEF CallTool
    <2>2. ToolStage(task[r][s], s, o) \in {"succeeded", "calling", "erred"}
      BY DEF ToolStage
    <2>3. task' \in [Run -> [Step -> TaskRecord]] /\ sent' \subseteq Step
      BY <2>1, <2>2 DEF TypeOK, TaskRecord
    <2> QED BY <1>4, <2>1, <2>3 DEF CallTool, TypeOK
  <1>5. CASE FinishStep(r, s)
    <2>1. run' \in [Run -> RunRecord]
      BY <1>5, FoldType DEF FinishStep, TypeOK
    <2>2. task' \in [Run -> [Step -> TaskRecord]]
      BY <1>5, RecordTypes DEF FinishStep, TypeOK
    <2>3. /\ cell' \in [Step -> State] /\ outbox' \subseteq [by : {App} \union Run, cmd : Command]
          /\ faults' \in Nat
      BY <1>5, WriteType DEF FinishStep, update_step_state
    <2> QED BY <1>5, <2>1, <2>2, <2>3 DEF FinishStep, TypeOK
  <1>6. CASE TaskDies(r, s)
    <2>1. run' \in [Run -> RunRecord]
      <3>1. JoinFailed(r, s) \in RunRecord
        BY RecordTypes DEF JoinFailed, RunRecord
      <3> QED BY <1>6, <3>1 DEF TaskDies, TypeOK
    <2>2. task' \in [Run -> [Step -> TaskRecord]]
      BY <1>6, RecordTypes DEF TaskDies, TypeOK
    <2> QED BY <1>6, <2>1, <2>2 DEF TaskDies, Fault, TypeOK
  <1> QED BY <1>1, <1>2, <1>3, <1>4, <1>5, <1>6

(* The confirm's steps, as far as it came. *)
LEMMA ConfirmSteps ==
  ASSUME TypeOK, approve_review_gate_steps
  PROVE  \E reached \in SUBSET ReviewGate : \E stored \in SUBSET reached :
           \E gates \in Injection(1 .. Cardinality(reached), reached) :
             LET cmds == [k \in DOMAIN gates |-> UpdateCell(gates[k], Patched(gates[k], "human_approved"))] IN
             /\ cell' = [s \in Step |-> IF s \in stored THEN Patched(s, "human_approved") ELSE cell[s]]
             /\ queue' = queue \o cmds
             /\ approved' = approved \union reached
             /\ cmds \in Seq(Command)
             /\ \A k \in 1 .. Len(cmds) :
                  cmds[k].step \in reached /\ cmds[k].state = Patched(cmds[k].step, "human_approved")
PROOF
  <1> DEFINE parked == {s \in ReviewGate : cell[s].status \notin Resolved \union {"failed"}}
  <1>1. PICK reached \in SUBSET parked : \E stored \in SUBSET reached :
          \E gates \in Injection(1 .. Cardinality(reached), reached) :
            /\ cell' = [s \in Step |-> IF s \in stored THEN Patched(s, "human_approved") ELSE cell[s]]
            /\ queue' = queue \o [k \in DOMAIN gates |->
                                   UpdateCell(gates[k], Patched(gates[k], "human_approved"))]
            /\ approved' = approved \union reached
    BY DEF approve_review_gate_steps
  <1>2. PICK stored \in SUBSET reached, gates \in Injection(1 .. Cardinality(reached), reached) :
            /\ cell' = [s \in Step |-> IF s \in stored THEN Patched(s, "human_approved") ELSE cell[s]]
            /\ queue' = queue \o [k \in DOMAIN gates |->
                                   UpdateCell(gates[k], Patched(gates[k], "human_approved"))]
            /\ approved' = approved \union reached
    BY <1>1
  <1> DEFINE cmds == [k \in DOMAIN gates |-> UpdateCell(gates[k], Patched(gates[k], "human_approved"))]
  <1>3. reached \subseteq ReviewGate /\ reached \subseteq Step /\ IsFiniteSet(Step)
    BY PipelineAssumption
  <1>4. Cardinality(reached) \in Nat
    BY <1>3, FS_Subset, FS_CardinalityType
  <1>5. gates \in [1 .. Cardinality(reached) -> reached]
    BY DEF Injection
  <1>6. \A k \in 1 .. Cardinality(reached) :
          UpdateCell(gates[k], Patched(gates[k], "human_approved")) \in Command
    <2>1. "human_approved" \in Status
      BY DEF Status
    <2> QED BY <1>3, <1>5, <2>1, PatchedType, UpdateCellType
  <1>7. cmds \in Seq(Command) /\ Len(cmds) = Cardinality(reached)
    BY <1>4, <1>5, <1>6
  <1>8. \A k \in 1 .. Len(cmds) :
          cmds[k].step \in reached /\ cmds[k].state = Patched(cmds[k].step, "human_approved")
    BY <1>5, <1>7 DEF UpdateCell
  <1> HIDE DEF parked
  <1> QED BY <1>2, <1>3, <1>7, <1>8

LEMMA ConfirmType ==
  ASSUME TypeOK, approve_review_gate_steps
  PROVE  TypeOK'
PROOF
  <1>1. ReviewGate \subseteq Step
    BY PipelineAssumption
  <1>2. queue' \in Seq(Command) /\ approved' \subseteq Step
    <2>1. PICK reached \in SUBSET ReviewGate, cmds \in Seq(Command) :
            queue' = queue \o cmds /\ approved' = approved \union reached
      BY ConfirmSteps, Zenon
    <2> QED BY <1>1, <2>1 DEF TypeOK
  <1>3. "human_approved" \in Status
    BY DEF Status
  <1>4. cell' \in [Step -> State]
    <2>1. PICK stored : cell' = [s \in Step |-> IF s \in stored THEN Patched(s, "human_approved") ELSE cell[s]]
      BY ConfirmSteps
    <2>2. \A s \in Step : Patched(s, "human_approved") \in State
      BY <1>3, PatchedType
    <2> QED BY <2>1, <2>2 DEF TypeOK
  <1>5. faults' \in Nat
    BY DEF approve_review_gate_steps, Fault, TypeOK
  <1> QED BY <1>2, <1>4, <1>5 DEF approve_review_gate_steps, TypeOK

LEMMA UserStepType ==
  ASSUME TypeOK, UserNext
  PROVE  TypeOK'
PROOF
  <1> {"pending", "failed", "human_approved"} \subseteq Status
    BY DEF Status, Resolved
  <1>1. CASE WriteCall
    <2>1. call \in Command
      BY <1>1 DEF WriteCall, TypeOK
    <2>2. cell' \in [Step -> State] /\ faults' \in Nat
      BY <1>1, <2>1, StoreType DEF WriteCall, Command
    <2> QED BY <1>1, <2>1, <2>2 DEF WriteCall, TypeOK
  <1>2. CASE reset_pipeline
    BY <1>2, ResetCommandsType DEF reset_pipeline, TypeOK
  <1>3. CASE approve_review_gate_steps
    BY <1>3, ConfirmType
  <1>4. CASE \E who \in User : set_review_assignee(who)
    BY <1>4 DEF set_review_assignee, TypeOK
  <1>5. CASE \E s \in Step : step_state_surgery(s)
    BY <1>5, PatchedType, UpdateCellType DEF step_state_surgery, TypeOK
  <1>6. CASE \E s \in Step : cyan_pipeline_approve(s)
    BY <1>6, PatchedType, UpdateCellType DEF cyan_pipeline_approve, approve_step, TypeOK
  <1>7. CASE \E s \in Step : cyan_pipeline_reject(s)
    <2>1. PICK s \in Step :
            outbox' = outbox \union {[by |-> App, cmd |-> UpdateCell(s, Patched(s, "failed"))]}
      BY <1>7 DEF cyan_pipeline_reject, reject_step
    <2>2. [by |-> App, cmd |-> UpdateCell(s, Patched(s, "failed"))] \in [by : {App} \union Run, cmd : Command]
      BY PatchedType, UpdateCellType
    <2> QED BY <1>7, <2>1, <2>2 DEF cyan_pipeline_reject, reject_step, TypeOK
  <1> QED BY <1>1, <1>2, <1>3, <1>4, <1>5, <1>6, <1>7 DEF UserNext

LEMMA CoordinatorType ==
  ASSUME TypeOK, LensRunCoordinator
  PROVE  TypeOK'
PROOF
  <1> {"running", "failed", "ai_complete"} \subseteq Status
    BY DEF Status
  <1>1. PICK s \in Step : dispatch_step(s) \/ cyan_pipeline_run_step_local(s) \/ settle_step(s)
    BY DEF LensRunCoordinator
  <1>2. CASE dispatch_step(s)
    <2>1. PICK carried \in {FALSE, step_is_approved(s)} :
            AppWrites(s, [Plain("running") EXCEPT !.approved = carried])
      BY <1>2 DEF dispatch_step
    <2>2. step_is_approved(s) \in BOOLEAN
      BY DEF step_is_approved, TypeOK, State
    <2>3. [Plain("running") EXCEPT !.approved = carried] \in State
      BY <2>2 DEF Plain, State
    <2>4. queue' \in Seq(Command)
      BY <2>1, <2>3, UpdateCellType DEF AppWrites, TypeOK
    <2> QED BY <1>2, <2>4 DEF dispatch_step, TypeOK
  <1>3. CASE cyan_pipeline_run_step_local(s)
    BY <1>3 DEF cyan_pipeline_run_step_local, TypeOK
  <1>4. CASE settle_step(s)
    <2> DEFINE state == IF hand[s] = "error" THEN Plain("failed")
                        ELSE [Plain("ai_complete") EXCEPT !.local_gate = hand[s] = "gated"]
    <2>1. state \in State
      BY DEF Plain, State
    <2>2. queue' = Append(queue, UpdateCell(s, state))
      BY <1>4 DEF settle_step, AppWrites
    <2> HIDE DEF state
    <2>3. queue' \in Seq(Command)
      BY <2>1, <2>2, UpdateCellType DEF TypeOK
    <2> QED BY <1>4, <2>3 DEF settle_step, TypeOK
  <1> QED BY <1>1, <1>2, <1>3, <1>4

(* Whatever the app, the runs and the command actor do, and over restarts, the *)
(* variables keep their types.                                                 *)
LEMMA NextType ==
  ASSUME TypeOK, [Next]_vars
  PROVE  TypeOK'
PROOF
  <1>1. CASE UNCHANGED vars
    BY <1>1 DEF vars, TypeOK
  <1>2. CASE \E r \in Run : cyan_run_pipeline(r) \/ RunNext(r)
    BY <1>2, RunStepType, TaskStepType DEF cyan_run_pipeline, RunNext
  <1>7. CASE \E r \in Run, s \in Step : TaskDies(r, s)
    BY <1>7, TaskStepType
  <1>8. CASE LensRunCoordinator
    BY <1>8, CoordinatorType
  <1>3. CASE UserNext
    BY <1>3, UserStepType
  <1>4. CASE Sending
    BY <1>4 DEF Sending, SendCommand, TypeOK
  <1>5. CASE UpdateNotebookCell
    <2>1. Head(queue) \in Command /\ Tail(queue) \in Seq(Command)
      BY <1>5 DEF UpdateNotebookCell, TypeOK
    <2> QED BY <1>5, <2>1 DEF UpdateNotebookCell, TypeOK, Command
  <1>6. CASE Restart
    BY <1>6, RecordTypes DEF Restart, TypeOK
  <1> QED BY <1>1, <1>2, <1>3, <1>4, <1>5, <1>6, <1>7, <1>8 DEF Next

(* TypeOK: the variables of a pipeline keep their types. *)
THEOREM PipelineTypes == Spec => []TypeOK
PROOF
  <1>1. TypeOK /\ [Next]_vars => TypeOK'
    BY NextType
  <1> QED BY InitType, <1>1, PTL DEF Spec

-------------------------------------------------------------------------------
(* Approvals: nobody but a person approves a step that does not advance by     *)
(* itself, and nobody but its reviewer one that is held.                       *)

(* This state written to this step would be nobody's invention. *)
Allowed(c) ==
  /\ c.state.status = "human_approved" =>
       /\ c.step \notin AutoAdvance => c.step \in approved
       /\ c.step \in Hold \ (AutoAdvance \union ReviewGate) /\ WaitingOn[c.step] # None =>
            c.step \in cleared \union released
  /\ c.state.approved => c.step \in approved \union AutoAdvance

(* Every copy of an approval, written or on its way, goes back to a decision;  *)
(* a late command is why the copies on their way must be part of it.           *)
ApprovalInv ==
  /\ \A s \in Step : Allowed(UpdateCell(s, cell[s]))
  /\ \A m \in outbox : Allowed(m.cmd)
  /\ \A k \in 1 .. Len(queue) : Allowed(queue[k])
  /\ Allowed(call)
  /\ sent \intersect Sends \subseteq approved \union AutoAdvance

Kept == approved \subseteq approved' /\ cleared \subseteq cleared' /\ released \subseteq released'

LEMMA InitApproval == Init => ApprovalInv
PROOF
  <1> SUFFICES ASSUME Init PROVE ApprovalInv
    OBVIOUS
  <1>1. \A s \in Step : Allowed(UpdateCell(s, cell[s]))
    BY DEF Init, Allowed, UpdateCell
  <1>2. Allowed(call)
    BY DEF Init, Allowed, NoCall, Plain
  <1> QED BY <1>1, <1>2 DEF Init, ApprovalInv

(* Decisions are never forgotten. *)
LEMMA AllowedStays ==
  ASSUME Kept, NEW c, Allowed(c)
  PROVE  Allowed(c)'
BY DEF Allowed, Kept

LEMMA NoCallIsAllowed == Allowed(NoCall)
BY DEF Allowed, NoCall, Plain

(* A patch keeps the flags, so it needs leave for the status alone. *)
LEMMA PatchIsAllowed ==
  ASSUME TypeOK, ApprovalInv, NEW s \in Step, NEW status \in Status,
         status = "human_approved" => s \in AutoAdvance
  PROVE  Allowed(UpdateCell(s, Patched(s, status)))
BY DEF Allowed, UpdateCell, Patched, ApprovalInv, TypeOK, State

(* A write that is allowed, and the command that repeats it. *)
LEMMA StoreApproval ==
  ASSUME TypeOK, ApprovalInv, NEW s \in Step, NEW state, Store(s, state),
         Allowed(UpdateCell(s, state))
  PROVE  \A x \in Step : Allowed(UpdateCell(x, cell'[x]))
BY DEF Store, TypeOK, ApprovalInv

LEMMA WriteApproval ==
  ASSUME TypeOK, ApprovalInv, NEW r \in Run, NEW s \in Step, NEW status \in Status,
         update_step_state(r, s, status), status = "human_approved" => s \in AutoAdvance,
         UNCHANGED <<queue, call, approved, cleared, released, sent>>
  PROVE  ApprovalInv'
PROOF
  <1>1. Allowed(UpdateCell(s, Patched(s, status)))
    BY PatchIsAllowed
  <1>2. CASE SetState(r, s, status)
    <2>1. \A x \in Step : Allowed(UpdateCell(x, cell'[x]))
      BY <1>1, <1>2, StoreApproval DEF SetState
    <2>2. \A m \in outbox' : Allowed(m.cmd)
      BY <1>1, <1>2 DEF SetState, ApprovalInv
    <2> QED BY <2>1, <2>2 DEF ApprovalInv, Allowed
  <1>3. CASE WriteFails
    BY <1>3 DEF WriteFails, ApprovalInv, Allowed
  <1> QED BY <1>2, <1>3 DEF update_step_state

(* Where the gate is open, somebody approved the step or it needs nobody. *)
LEMMA OpenGate ==
  ASSUME TypeOK, ApprovalInv, NEW s \in Step, step_is_approved(s)
  PROVE  s \in approved \union AutoAdvance
BY DEF step_is_approved, ApprovalInv, Allowed, UpdateCell

LEMMA EffectsApproval ==
  ASSUME TypeOK, ApprovalInv, NEW s \in Step, NEW o \in Outcomes(s), NEW effect \in Effects(o)
  PROVE  (IF effect THEN sent \union {s} ELSE sent) \intersect Sends \subseteq approved \union AutoAdvance
PROOF
  <1>1. effect /\ s \in Sends => step_is_approved(s)
    BY DEF Outcomes, Effects
  <1> QED BY <1>1, OpenGate DEF ApprovalInv

(* The runs: only a step that advances by itself is approved by one, and only  *)
(* an approved step's tool has effects.                                        *)
LEMMA TaskStepApproval ==
  ASSUME TypeOK, ApprovalInv, NEW r \in Run, NEW s \in Step,
         \/ PassStep(r, s) \/ EnlistStep(r, s) \/ StartStep(r, s)
         \/ CallTool(r, s) \/ FinishStep(r, s) \/ TaskDies(r, s)
  PROVE  ApprovalInv'
PROOF
  <1>0. {"scheduled", "ai_complete", "running", "failed", "human_approved"} \subseteq Status
    BY DEF Status
  <1>1. CASE PassStep(r, s)
    <2>1. CASE Verdict(r, s) \in {"gate", "stall", "cache_hit"}
      <3>1. update_step_state(r, s, "ai_complete") \/ update_step_state(r, s, "scheduled")
        BY <1>1, <2>1 DEF PassStep
      <3> QED BY <1>0, <1>1, <3>1, WriteApproval DEF PassStep
    <2>2. CASE Verdict(r, s) \notin {"gate", "stall", "cache_hit"}
      BY <1>1, <2>2 DEF PassStep, ApprovalInv, Allowed
    <2> QED BY <2>1, <2>2
  <1>2. CASE EnlistStep(r, s)
    BY <1>2 DEF EnlistStep, ApprovalInv, Allowed
  <1>3. CASE StartStep(r, s)
    BY <1>0, <1>3, WriteApproval DEF StartStep
  <1>4. CASE CallTool(r, s)
    <2>1. sent' \intersect Sends \subseteq approved \union AutoAdvance
      BY <1>4, EffectsApproval DEF CallTool
    <2> QED BY <1>4, <2>1 DEF CallTool, ApprovalInv, Allowed
  <1>5. CASE FinishStep(r, s)
    <2>1. PICK status \in {"failed", "human_approved", "ai_complete"} :
            /\ update_step_state(r, s, status)
            /\ status = "human_approved" => s \in AutoAdvance
      BY <1>5 DEF FinishStep, update_step_state
    <2> QED BY <1>0, <1>5, <2>1, WriteApproval DEF FinishStep
  <1>6. CASE TaskDies(r, s)
    BY <1>6 DEF TaskDies, ApprovalInv, Allowed
  <1> QED BY <1>1, <1>2, <1>3, <1>4, <1>5, <1>6

(* The review gates a confirm reaches count as approved from then on. *)
LEMMA ConfirmApproval ==
  ASSUME TypeOK, ApprovalInv, approve_review_gate_steps
  PROVE  ApprovalInv'
PROOF
  <1>1. PICK reached \in SUBSET ReviewGate : \E stored \in SUBSET reached, cmds \in Seq(Command) :
             /\ cell' = [s \in Step |-> IF s \in stored THEN Patched(s, "human_approved") ELSE cell[s]]
             /\ queue' = queue \o cmds
             /\ approved' = approved \union reached
             /\ \A k \in 1 .. Len(cmds) :
                  cmds[k].step \in reached /\ cmds[k].state = Patched(cmds[k].step, "human_approved")
    BY ConfirmSteps, Zenon
  <1>2. PICK stored \in SUBSET reached, cmds \in Seq(Command) :
             /\ cell' = [s \in Step |-> IF s \in stored THEN Patched(s, "human_approved") ELSE cell[s]]
             /\ queue' = queue \o cmds
             /\ approved' = approved \union reached
             /\ \A k \in 1 .. Len(cmds) :
                  cmds[k].step \in reached /\ cmds[k].state = Patched(cmds[k].step, "human_approved")
    BY <1>1
  <1>3. reached \subseteq ReviewGate /\ reached \subseteq Step
    BY PipelineAssumption
  <1>4. Kept /\ UNCHANGED <<outbox, call, sent>>
    BY <1>2 DEF approve_review_gate_steps, Kept
  <1>5. \A c : c.step \in reached /\ c.state = Patched(c.step, "human_approved") => Allowed(c)'
    <2> SUFFICES ASSUME NEW c, c.step \in reached, c.state = Patched(c.step, "human_approved")
                 PROVE  Allowed(c)'
      OBVIOUS
    <2> QED BY <1>2, <1>3 DEF Allowed
  <1>6. \A x \in Step : Allowed(UpdateCell(x, cell[x]))'
    <2> SUFFICES ASSUME NEW x \in Step PROVE Allowed(UpdateCell(x, cell[x]))'
      OBVIOUS
    <2>1. CASE x \in stored
      <3>1. cell'[x] = Patched(x, "human_approved")
        BY <1>2, <2>1
      <3>2. UpdateCell(x, cell'[x]).step \in reached
        BY <2>1 DEF UpdateCell
      <3>3. UpdateCell(x, cell'[x]).state = Patched(UpdateCell(x, cell'[x]).step, "human_approved")
        BY <3>1 DEF UpdateCell
      <3> QED BY <1>2, <1>3, <3>2 DEF Allowed, UpdateCell
    <2>2. CASE x \notin stored
      <3>1. cell'[x] = cell[x] /\ Allowed(UpdateCell(x, cell[x]))
        BY <1>2, <2>2 DEF ApprovalInv
      <3> QED BY <1>4, <3>1 DEF Allowed, UpdateCell, Kept
    <2> QED BY <2>1, <2>2
  <1>7. \A k \in 1 .. Len(queue') : Allowed(queue[k])'
    <2> SUFFICES ASSUME NEW k \in 1 .. Len(queue') PROVE Allowed(queue[k])'
      OBVIOUS
    <2>0. queue \in Seq(Command)
      BY DEF TypeOK
    <2>1. CASE k \in 1 .. Len(queue)
      <3>1. queue'[k] = queue[k] /\ Allowed(queue[k])
        BY <1>2, <2>0, <2>1 DEF ApprovalInv
      <3> QED BY <1>4, <3>1 DEF Allowed, Kept
    <2>2. CASE k \notin 1 .. Len(queue)
      <3> DEFINE j == k - Len(queue)
      <3>1. j \in 1 .. Len(cmds) /\ queue'[k] = cmds[j]
        BY <1>2, <2>0, <2>2
      <3>2. queue'[k].step \in reached
        BY <1>2, <3>1
      <3> QED BY <1>2, <1>3, <3>2 DEF Allowed
    <2> QED BY <2>1, <2>2
  <1>8. \A m \in outbox' : Allowed(m.cmd)'
    BY <1>4, AllowedStays DEF ApprovalInv
  <1>9. Allowed(call)'
    BY <1>4 DEF ApprovalInv, Allowed, Kept
  <1>10. (sent \intersect Sends \subseteq approved \union AutoAdvance)'
    BY <1>4 DEF ApprovalInv, Kept
  <1> QED BY <1>6, <1>7, <1>8, <1>9, <1>10 DEF ApprovalInv

LEMMA UserStepApproval ==
  ASSUME TypeOK, ApprovalInv, UserNext
  PROVE  ApprovalInv'
PROOF
  <1>0. \A s \in Step : /\ Allowed(UpdateCell(s, Patched(s, "pending")))
                        /\ Allowed(UpdateCell(s, Patched(s, "failed")))
    BY PatchIsAllowed DEF Status
  <1>1. CASE WriteCall
    <2>1. call \in Command /\ Allowed(call) /\ call = UpdateCell(call.step, call.state)
      BY <1>1 DEF WriteCall, TypeOK, ApprovalInv, Command, UpdateCell
    <2>2. \A x \in Step : Allowed(UpdateCell(x, cell'[x]))
      BY <1>1, <2>1, StoreApproval DEF WriteCall, Command
    <2>3. \A m \in outbox' : Allowed(m.cmd)
      BY <1>1, <2>1 DEF WriteCall, ApprovalInv
    <2> QED BY <1>1, <2>2, <2>3, NoCallIsAllowed DEF WriteCall, ApprovalInv, Allowed
  <1>2. CASE reset_pipeline
    <2> DEFINE cmds == [k \in DOMAIN Order |-> UpdateCell(Order[k], Patched(Order[k], "pending"))]
    <2>1. cmds \in Seq(Command) /\ queue \in Seq(Command) /\ queue' = queue \o cmds
      BY <1>2, ResetCommandsType DEF reset_pipeline, TypeOK
    <2>2. \A k \in 1 .. Len(cmds) : Allowed(cmds[k])
      <3>1. Order \in Seq(Step) /\ DOMAIN cmds = DOMAIN Order
        BY PipelineAssumption
      <3>2. \A k \in DOMAIN Order : Order[k] \in Step
        BY <3>1
      <3> QED BY <1>0, <2>1, <3>1, <3>2
    <2> HIDE DEF cmds
    <2>3. \A k \in 1 .. Len(queue') : Allowed(queue'[k])
      BY <2>1, <2>2 DEF ApprovalInv
    <2> QED BY <1>2, <2>3 DEF reset_pipeline, ApprovalInv, Allowed
  <1>3. CASE approve_review_gate_steps
    BY <1>3, ConfirmApproval
  <1>4. CASE \E who \in User : set_review_assignee(who)
    BY <1>4 DEF set_review_assignee, ApprovalInv, Allowed
  <1>5. CASE \E s \in Step : step_state_surgery(s)
    BY <1>0, <1>5 DEF step_state_surgery, ApprovalInv, Allowed
  <1>6. CASE \E s \in Step : cyan_pipeline_approve(s)
    <2>1. PICK s \in Step, who \in User \union {None} : approve_step(s, who)
      BY <1>6 DEF cyan_pipeline_approve
    <2>2. Kept
      BY <2>1 DEF approve_step, Kept
    <2>3. s \in Hold /\ WaitingOn[s] # None => who = WaitingOn[s] \/ step_state_is_local_gate(s)
      BY <2>1 DEF approve_step, MayDecide, enforce_review_gate
    <2>4. s \in Hold /\ WaitingOn[s] # None => s \in (cleared \union released)'
      BY <2>1, <2>3 DEF approve_step
    <2>5. Allowed(call)'
      BY <2>1, <2>4 DEF approve_step, Allowed, UpdateCell
    <2>6. \A x \in Step : Allowed(UpdateCell(x, cell[x]))'
      BY <2>1, <2>2 DEF approve_step, ApprovalInv, Allowed, UpdateCell, Kept
    <2>7. /\ \A m \in outbox' : Allowed(m.cmd)'
          /\ \A k \in 1 .. Len(queue') : Allowed(queue[k])'
      BY <2>1, <2>2 DEF approve_step, ApprovalInv, Allowed, Kept
    <2> QED BY <2>1, <2>2, <2>5, <2>6, <2>7 DEF approve_step, ApprovalInv, Kept
  <1>7. CASE \E s \in Step : cyan_pipeline_reject(s)
    BY <1>0, <1>7 DEF cyan_pipeline_reject, reject_step, ApprovalInv, Allowed
  <1> QED BY <1>1, <1>2, <1>3, <1>4, <1>5, <1>6, <1>7 DEF UserNext

(* The coordinator asserts an approval only where it finds one. *)
LEMMA CoordinatorApproval ==
  ASSUME TypeOK, ApprovalInv, LensRunCoordinator
  PROVE  ApprovalInv'
PROOF
  <1>1. PICK s \in Step : dispatch_step(s) \/ cyan_pipeline_run_step_local(s) \/ settle_step(s)
    BY DEF LensRunCoordinator
  <1>2. ASSUME NEW state, AppWrites(s, state), Allowed(UpdateCell(s, state)),
               UNCHANGED <<cell, outbox, call, approved, cleared, released, sent>>
        PROVE  ApprovalInv'
    <2>1. queue' = Append(queue, UpdateCell(s, state)) /\ queue \in Seq(Command)
      BY <1>2 DEF AppWrites, TypeOK
    <2>2. \A k \in 1 .. Len(queue') : Allowed(queue'[k])
      BY <1>2, <2>1 DEF ApprovalInv
    <2> QED BY <1>2, <2>2 DEF ApprovalInv, Allowed
  <1>3. CASE dispatch_step(s)
    <2>1. PICK carried \in {FALSE, step_is_approved(s)} :
            AppWrites(s, [Plain("running") EXCEPT !.approved = carried])
      BY <1>3 DEF dispatch_step
    <2>2. carried => s \in approved \union AutoAdvance
      BY OpenGate
    <2>3. Allowed(UpdateCell(s, [Plain("running") EXCEPT !.approved = carried]))
      BY <2>2 DEF Allowed, UpdateCell, Plain
    <2> QED BY <1>2, <1>3, <2>1, <2>3 DEF dispatch_step
  <1>4. CASE cyan_pipeline_run_step_local(s)
    <2>1. sent' \intersect Sends \subseteq approved \union AutoAdvance
      BY <1>4, EffectsApproval DEF cyan_pipeline_run_step_local
    <2> QED BY <1>4, <2>1 DEF cyan_pipeline_run_step_local, ApprovalInv, Allowed
  <1>5. CASE settle_step(s)
    <2> DEFINE state == IF hand[s] = "error" THEN Plain("failed")
                        ELSE [Plain("ai_complete") EXCEPT !.local_gate = hand[s] = "gated"]
    <2>1. Allowed(UpdateCell(s, state))
      BY DEF Allowed, UpdateCell, Plain
    <2>2. AppWrites(s, state)
      BY <1>5 DEF settle_step
    <2> QED BY <1>2, <1>5, <2>1, <2>2 DEF settle_step
  <1> QED BY <1>1, <1>3, <1>4, <1>5

LEMMA NextApproval ==
  ASSUME TypeOK, ApprovalInv, [Next]_vars
  PROVE  ApprovalInv'
PROOF
  <1>1. CASE UNCHANGED vars
    BY <1>1 DEF vars, ApprovalInv, Allowed
  <1>2. CASE \E r \in Run : cyan_run_pipeline(r) \/ NextBatch(r) \/ FinishRun(r)
    BY <1>2 DEF cyan_run_pipeline, StartRun, NextBatch, FinishRun, ApprovalInv, Allowed
  <1>3. CASE \E r \in Run, s \in Step :
               \/ PassStep(r, s) \/ EnlistStep(r, s) \/ StartStep(r, s)
               \/ CallTool(r, s) \/ FinishStep(r, s) \/ TaskDies(r, s)
    BY <1>3, TaskStepApproval
  <1>4. CASE UserNext
    BY <1>4, UserStepApproval
  <1>5. CASE LensRunCoordinator
    BY <1>5, CoordinatorApproval
  <1>6. CASE Sending
    <2>1. PICK m \in outbox : outbox' = outbox \ {m} /\ queue' = Append(queue, m.cmd)
      BY <1>6 DEF Sending, SendCommand
    <2>2. queue \in Seq(Command) /\ m.cmd \in Command /\ Allowed(m.cmd)
      BY DEF TypeOK, ApprovalInv
    <2>3. \A k \in 1 .. Len(queue') : Allowed(queue'[k])
      BY <2>1, <2>2 DEF ApprovalInv
    <2> QED BY <1>6, <2>1, <2>3 DEF Sending, SendCommand, ApprovalInv, Allowed
  <1>7. CASE UpdateNotebookCell
    <2>1. /\ queue \in Seq(Command) /\ Len(queue) \in Nat \ {0}
          /\ Head(queue) = queue[1] /\ Head(queue) \in Command
      BY <1>7 DEF UpdateNotebookCell, TypeOK
    <2>2. Allowed(Head(queue)) /\ Head(queue) = UpdateCell(Head(queue).step, Head(queue).state)
      BY <2>1 DEF ApprovalInv, Command, UpdateCell
    <2>3. \A x \in Step : Allowed(UpdateCell(x, cell'[x]))
      BY <1>7, <2>2 DEF UpdateNotebookCell, TypeOK, ApprovalInv
    <2>4. \A k \in 1 .. Len(queue') : Allowed(queue'[k])
      BY <1>7, <2>1 DEF UpdateNotebookCell, ApprovalInv
    <2> QED BY <1>7, <2>3, <2>4 DEF UpdateNotebookCell, ApprovalInv, Allowed
  <1>8. CASE Restart
    BY <1>8, NoCallIsAllowed DEF Restart, ApprovalInv, Allowed
  <1> QED BY <1>1, <1>2, <1>3, <1>4, <1>5, <1>6, <1>7, <1>8 DEF Next, RunNext

LEMMA ApprovalAlways == Spec => [](TypeOK /\ ApprovalInv)
PROOF
  <1>1. Init => TypeOK /\ ApprovalInv
    BY InitType, InitApproval
  <1>2. (TypeOK /\ ApprovalInv) /\ [Next]_vars => (TypeOK /\ ApprovalInv)'
    BY NextType, NextApproval
  <1> QED BY <1>1, <1>2, PTL DEF Spec

(* SendsApproved: a tool with external effects has none before somebody        *)
(* approved its step, unless the step advances by itself; whatever opened the  *)
(* gate, the status or the flag the app carries along.                         *)
THEOREM SideEffectsAreApproved == Spec => []SendsApproved
PROOF
  <1>1. ApprovalInv => SendsApproved
    BY DEF ApprovalInv, SendsApproved
  <1> QED BY ApprovalAlways, <1>1, PTL

(* HoldByReviewer: a hold with a compiled reviewer is approved by that         *)
(* reviewer, or by whoever released it while it was parked before its upload,  *)
(* and by nothing else; but for the holds that advance by themselves and those *)
(* a confirm approves.                                                         *)
THEOREM HoldsAreTheReviewers == Spec => []HoldByReviewer
PROOF
  <1>1. ApprovalInv => HoldByReviewer
    BY PipelineAssumption DEF ApprovalInv, HoldByReviewer, Allowed, UpdateCell
  <1> QED BY ApprovalAlways, <1>1, PTL

-------------------------------------------------------------------------------
(* Tool calls: each repetition is paid for from the budget, and a tool that    *)
(* must not be repeated has none.                                              *)

PaidFor(t, s) ==
  /\ t.tries <= AutoRetryBudget
  /\ t.sent <= t.tries + 1
  /\ t.stage \in {"none", "queued", "calling"} => t.sent <= t.tries
  /\ s \in NonIdempotent => t.tries = 0

Paid == \A r \in Run, s \in Step : PaidFor(task[r][s], s)

(* One call, whatever comes of it. *)
LEMMA CallIsPaidFor ==
  ASSUME TypeOK, Paid, NEW r \in Run, NEW s \in Step, CallTool(r, s)
  PROVE  Paid'
PROOF
  <1> DEFINE t == task[r][s]
             stage(o) == ToolStage(t, s, o)
             next(o, effect) ==
               [stage |-> stage(o), sent |-> IF effect THEN t.sent + 1 ELSE t.sent,
                tries |-> IF stage(o) = "calling" /\ o = "transient" THEN t.tries + 1 ELSE t.tries,
                refreshed |-> stage(o) = "calling" /\ o = "auth"]
  <1>1. PICK o \in Outcomes(s) : \E effect \in Effects(o) :
          task' = [task EXCEPT ![r][s] = next(o, effect)]
    BY DEF CallTool
  <1>2. PICK effect \in Effects(o) : task' = [task EXCEPT ![r][s] = next(o, effect)]
    BY <1>1
  <1>3. t \in TaskRecord /\ PaidFor(t, s) /\ t.stage = "calling" /\ AutoRetryBudget \in Nat
    BY PipelineAssumption DEF TypeOK, Paid, CallTool
  <1>4. /\ stage(o) \in {"succeeded", "calling", "erred"}
        /\ stage(o) = "calling" /\ o # "transient" => o = "auth" /\ ~effect
        /\ stage(o) = "calling" /\ o = "transient" => t.tries < AutoRetryBudget /\ s \notin NonIdempotent
    BY DEF ToolStage, should_auto_retry, Effects
  <1>5. PaidFor(next(o, effect), s)
    <2>1. t.tries \in Nat /\ t.sent \in Nat /\ t.sent <= t.tries
      BY <1>3 DEF TaskRecord, PaidFor
    <2> HIDE DEF stage
    <2>2. CASE stage(o) # "calling"
      BY <1>3, <1>4, <2>1, <2>2 DEF PaidFor
    <2>3. CASE stage(o) = "calling" /\ o = "transient"
      BY <1>3, <1>4, <2>1, <2>3 DEF PaidFor
    <2>4. CASE stage(o) = "calling" /\ o # "transient"
      BY <1>3, <1>4, <2>1, <2>4 DEF PaidFor
    <2> QED BY <2>2, <2>3, <2>4
  <1> HIDE DEF next
  <1>6. \A q \in Run, x \in Step :
          task'[q][x] = IF q = r /\ x = s THEN next(o, effect) ELSE task[q][x]
    BY <1>2 DEF TypeOK
  <1>7. \A q \in Run, x \in Step : PaidFor(task'[q][x], x)
    BY <1>5, <1>6 DEF Paid
  <1> QED BY <1>7 DEF Paid, PaidFor

(* Before the first call nothing was spent. *)
LEMMA FreshIsPaidFor ==
  ASSUME NEW s \in Step, NEW t \in TaskRecord, PaidFor(t, s)
  PROVE  /\ PaidFor(NoTask, s) /\ PaidFor([NoTask EXCEPT !.stage = "queued"], s)
         /\ \A stage \in {"queued", "calling"} :
              t.stage \in {"none", "queued"} => PaidFor([t EXCEPT !.stage = stage], s)
BY PipelineAssumption DEF PaidFor, NoTask, TaskRecord

LEMMA NextPaid ==
  ASSUME TypeOK, Paid, [Next]_vars
  PROVE  Paid'
PROOF
  <1>1. CASE \E r \in Run, s \in Step : CallTool(r, s)
    BY <1>1, CallIsPaidFor
  <1>2. CASE \E r \in Run, s \in Step :
           \/ EnlistStep(r, s) \/ StartStep(r, s) \/ FinishStep(r, s) \/ TaskDies(r, s)
    <2>1. PICK r \in Run, s \in Step :
            \/ EnlistStep(r, s) \/ StartStep(r, s) \/ FinishStep(r, s) \/ TaskDies(r, s)
      BY <1>2
    <2>2. \A q \in Run, x \in Step : task[q][x] \in TaskRecord /\ PaidFor(task[q][x], x)
      BY DEF TypeOK, Paid
    <2>3. PaidFor(task'[r][s], s)
      <3>1. CASE EnlistStep(r, s)
        BY <2>2, <3>1, FreshIsPaidFor DEF EnlistStep, TypeOK
      <3>2. CASE StartStep(r, s)
        BY <2>2, <3>2, FreshIsPaidFor DEF StartStep, TypeOK
      <3>3. CASE FinishStep(r, s)
        BY <2>2, <3>3, FreshIsPaidFor DEF FinishStep, TypeOK
      <3>4. CASE TaskDies(r, s)
        BY <2>2, <3>4, FreshIsPaidFor DEF TaskDies, TypeOK
      <3> QED BY <2>1, <3>1, <3>2, <3>3, <3>4
    <2>4. \A q \in Run, x \in Step : <<q, x>> # <<r, s>> => task'[q][x] = task[q][x]
      BY <2>1 DEF EnlistStep, StartStep, FinishStep, TaskDies, TypeOK
    <2>5. \A q \in Run, x \in Step : PaidFor(task'[q][x], x)
      BY <2>2, <2>3, <2>4
    <2> QED BY <2>5 DEF Paid, PaidFor
  <1>3. CASE Restart
    <2>1. \A x \in Step : PaidFor(NoTask, x)
      BY PipelineAssumption DEF PaidFor, NoTask
    <2> QED BY <1>3, <2>1 DEF Restart, Paid, PaidFor
  <1>4. CASE UNCHANGED task
    BY <1>4 DEF Paid, PaidFor
  <1>5. ASSUME Next PROVE \/ UNCHANGED task \/ Restart
                          \/ \E r \in Run, s \in Step :
                               \/ CallTool(r, s) \/ EnlistStep(r, s)
                               \/ StartStep(r, s) \/ FinishStep(r, s) \/ TaskDies(r, s)
    BY <1>5 DEF Next, cyan_run_pipeline, RunNext, StartRun, NextBatch, FinishRun, PassStep,
         UserNext, WriteCall, reset_pipeline, approve_review_gate_steps, set_review_assignee,
         step_state_surgery, LensRunCoordinator, dispatch_step, settle_step,
         cyan_pipeline_run_step_local, cyan_pipeline_approve, approve_step,
         cyan_pipeline_reject, reject_step, Sending, SendCommand, UpdateNotebookCell
  <1> QED BY <1>1, <1>2, <1>3, <1>4, <1>5 DEF vars

(* SentOnce: one execution of a step repeats a tool within its budget, and a   *)
(* non-idempotent one never.                                                   *)
THEOREM EffectsAreBounded == Spec => []SentOnce
PROOF
  <1>1. Init => Paid
    BY PipelineAssumption DEF Init, Paid, PaidFor, NoTask
  <1>2. TypeOK /\ Paid /\ [Next]_vars => Paid'
    BY NextPaid
  <1>3. TypeOK /\ Paid => SentOnce
    <2> SUFFICES ASSUME TypeOK, Paid, NEW r \in Run, NEW s \in Step
                 PROVE  task[r][s].sent <= IF s \in NonIdempotent THEN 1 ELSE 1 + AutoRetryBudget
      BY DEF SentOnce
    <2>1. task[r][s] \in TaskRecord /\ PaidFor(task[r][s], s) /\ AutoRetryBudget \in Nat
      BY PipelineAssumption DEF TypeOK, Paid
    <2> QED BY <2>1 DEF TaskRecord, PaidFor
  <1> QED BY PipelineTypes, <1>1, <1>2, <1>3, PTL DEF Spec
===============================================================================
