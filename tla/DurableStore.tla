---------------------------- MODULE DurableStore ----------------------------
(***************************************************************************)
(* What the apply runtime promises about durability, without deltas,       *)
(* snapshots, flushes or restarts: the durable store moves by whole        *)
(* commits and by nothing else.  "Every commit is durable before it        *)
(* returns ... and the row/membership pair can never tear"                 *)
(* (core/apply/transaction.ts).                                            *)
(***************************************************************************)
EXTENDS Integers

CONSTANTS Cells, MaxCommits

VARIABLE durable   \* per cell, the commit whose write a boot would show

Init == durable = [c \in Cells |-> 0]

\* A commit newer than all before it takes effect on all its cells at once.
Commit(t, cells) ==
    /\ cells # {}
    /\ \A c \in Cells : durable[c] < t
    /\ durable' = [c \in Cells |-> IF c \in cells THEN t ELSE durable[c]]

Next == \E t \in 1..MaxCommits, cells \in SUBSET Cells : Commit(t, cells)

Spec == Init /\ [][Next]_durable

=============================================================================
