------------------------------ MODULE MCGroupJoin ------------------------------
(* Instances of GroupJoin for TLC: a founder that enforces grants and two      *)
(* devices that scan the same invite.                                          *)
EXTENDS GroupJoin

CONSTANTS f, j, k, g1

MCNode == {f, j, k}
MCGrant == {g1}
MCInvites == [n \in MCNode |-> CASE n = f -> {} [] n = j -> {g1} [] n = k -> {g1}]
MCTrusted == [n \in MCNode |-> {g1}]
===============================================================================
