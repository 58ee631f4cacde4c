----------------------------- MODULE MCAntiEntropy -----------------------------
(* Instances of AntiEntropy for TLC. *)
EXTENDS AntiEntropy

CONSTANTS n1, n2, board, chat, file, element, cell, note, pin, meta

KindDef ==
  [i \in Id |-> CASE i = board -> "board" [] i = chat -> "chat"
                  [] i = file -> "file" [] i = element -> "element"
                  [] i = cell -> "cell" [] i = note -> "note"
                  [] i = pin -> "pin" [] OTHER -> "meta"]

HomeDef == [i \in Id |-> board]

OwnerDef == [i \in Id |-> n1]

JoinedTogether == [n \in Node |-> 1]

JoinedApart == [n \in Node |-> IF n = n1 THEN 1 ELSE 2]
===============================================================================
