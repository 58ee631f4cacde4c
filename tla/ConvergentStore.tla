---------------------------- MODULE ConvergentStore ----------------------------
(* What replication promises its users, without saying how: every peer's rows  *)
(* are the merge of user writes, in whatever order they reached it, less what  *)
(* users delete.  A row deleted on one peer may be learnt again from another;  *)
(* a tombstone stays.  It covers the tables with a convergent merge, first or  *)
(* last writer wins.  AntiEntropy.tla is the detailed specification.           *)
EXTENDS GroupStore

CONSTANTS Node, Seeded, SeedStamp, Deletes

VARIABLES
  rows,     \* what each peer shows
  written   \* every user write so far

view == <<rows, written>>

RowOf(w) == [ts |-> w.ts, body |-> w.body, gone |-> FALSE]

ConvergentMerge(i, old, new) ==
  IF Kind[i] \in Lww THEN LwwMerge(old, new) ELSE IF old = None THEN new ELSE old

(* Store s after the writes W, at most one to a row. *)
Joined(s, W) ==
  [i \in Id |-> IF \E w \in W : w.id = i
                  THEN ConvergentMerge(i, s[i], RowOf(CHOOSE w \in W : w.id = i))
                  ELSE s[i]]

SeedWrites == {[id |-> i, ts |-> SeedStamp, body |-> 0] : i \in Seeded}

Empty == [i \in Id |-> None]

Init == /\ rows = [n \in Node |-> Joined(Empty, SeedWrites)]
        /\ written = SeedWrites

(* A user of peer n writes row i; n merges it first. *)
WriteRow(n, i) ==
  \E w \in written' \ written :
    /\ w.id = i
    /\ written' = written \cup {w}
    /\ rows' = [rows EXCEPT ![n] = Joined(@, {w})]

(* Peer n learns of some writes, by a delta or by a pull. *)
Learn(n) ==
  \E W \in SUBSET written :
    /\ \A v, w \in W : v.id = w.id => v = w
    /\ rows' = [rows EXCEPT ![n] = Joined(@, W)]
    /\ UNCHANGED written

(* A delete of row i by a user reaches peer n. *)
Remove(n, i) ==
  /\ i \in Deletes
  /\ rows' = [rows EXCEPT ![n] = Erase(@, i)]
  /\ UNCHANGED written

Next == \E n \in Node : (\E i \in Id : WriteRow(n, i) \/ Remove(n, i)) \/ Learn(n)

Spec == Init /\ [][Next]_view
===============================================================================
