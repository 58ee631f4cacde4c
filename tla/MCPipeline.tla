------------------------------ MODULE MCPipeline ------------------------------
(* Instances of Pipeline for TLC: fetch, confirm and render, then upload. *)
EXTENDS Pipeline

CONSTANTS fetch, confirm, render, upload, ann

OrderDef == SelectSeq(<<fetch, confirm, render, upload>>, LAMBDA s : s \in Step)

DepsDef ==
  [s \in Step |-> Step \intersect (CASE s = render -> {fetch}
                                     [] s = upload -> {confirm, render}
                                     [] OTHER -> {})]

WaitingOnDef == [s \in Step |-> IF s = upload THEN ann ELSE None]

Parked == [Plain("ai_complete") EXCEPT !.local_gate = TRUE]
(* A retry of a step whose approval the app had carried on. *)
Retried == [Plain("pending") EXCEPT !.approved = TRUE]

RacesBoards ==
  {[s \in Step |-> IF s = upload THEN Parked ELSE Plain("human_approved")],
   [s \in Step |-> IF s = upload THEN Retried ELSE Plain("pending")]}

WavesBoards ==
  [Step -> {Plain(status) : status \in {"pending", "ai_complete", "human_approved", "failed"}}]

(* A wave plan: the first wave in two batches, upload behind the nearest gate. *)
Waves(hits, gates) ==
  LET gate == IF render \in gates THEN render ELSE confirm IN
  [mode |-> "wave", batches |-> <<{fetch} \intersect Step, {confirm}, {render} \intersect Step, {upload}>>,
   wave |-> <<1, 1, 2, 3>>, hits |-> hits, gates |-> gates,
   barrier |-> [s \in Step |-> IF s = upload THEN gate ELSE None]]

OnePlan == {Waves({}, {})}
AllPlans == {Waves({}, {}), Waves({fetch}, {}), Waves({render}, {}), Waves({}, {render})}

(* The plans keep the optimizer's promises. *)
ASSUME PlansAreSound == \A p \in WavePlans : Levelled(p) /\ CoversBoard(p)
===============================================================================
