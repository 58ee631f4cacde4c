----------------------------- MODULE MCReviewLedger -----------------------------
(* Instances of ReviewLedger for TLC: two devices, one of them a second fast,  *)
(* one note, the edit an agent proposes for it and what a human makes of it.   *)
EXTENDS ReviewLedger

CONSTANTS a, b, n1, o1, o2

MCEdit == [o \in {o1, o2} |-> o2]
(* A proposal, and an entry that the app sends as approved.                    *)
MCSent == {Fresh, [Fresh EXCEPT !.state = "approved"]}

MCSkew == [p \in {a, b} |-> IF p = a THEN 0 ELSE 1]
===============================================================================
