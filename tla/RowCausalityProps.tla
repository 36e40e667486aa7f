------------------------- MODULE RowCausalityProps -------------------------
(* What the writers of one row owe each other. *)
EXTENDS RowCausality

(* Every component in range, and no revision ahead of the last commit. *)
TypeOK ==
    /\ row \in Rows /\ server \in Rows
    /\ tombstoned \in BOOLEAN /\ (tombstoned => row = NoRow)
    /\ epoch \in Nat
    /\ revisions \in [row : 0 .. epoch, existence : 0 .. epoch, field : [Fields -> 0 .. epoch]]
    /\ clock \in 0 .. Cardinality(Ops) + MaxTroubles
    /\ \A o \in Ops :
        /\ ops[o].status \in Statuses
        /\ ops[o].born \in 0 .. clock /\ ops[o].began \in ops[o].born .. clock
        /\ ops[o].rollbackRow \in Rows
        /\ ops[o].status = "pending" <=> o \in InFlight
    /\ \A r \in Requests : reqs[r].base \in 0 .. epoch
    /\ events \in Seq(Rows) /\ Len(events) <= MaxEvents
    /\ troubles \in Versions

(* The patches of f that began after o did. *)
Later(o, f, statuses) ==
    {p \in Patches : f \in PatchedBy[p] /\ ops[p].began > ops[o].began /\ ops[p].status \in statuses}

(* "The optimistic value holds until that operation commits or rolls back, *)
(* so there is no visible flip-then-flip-back" (CHANGELOG.md:843): a field  *)
(* of a pending patch shows its value, or that of a pending patch that     *)
(* began later, or what a settled later patch left, whatever answers,      *)
(* events and rollbacks arrive.                                            *)
PendingHolds ==
    row # NoRow => \A o \in Pending \cap Patches : "row" \notin touched[o] =>
        \A f \in PatchedBy[o] :
            \/ row[f] = ValueOf[o]
            \/ \E p \in Later(o, f, {"pending"}) : row[f] = ValueOf[p]
            \/ Later(o, f, {"committed", "delivery_unknown", "removed"}) # {}

(* "A committing patch's OWN authoritative server value still wins once it *)
(* commits" (CHANGELOG.md:843), unless a later patch of the field or the   *)
(* removal of the row came in between.                                     *)
OwnValueWins ==
    [][\A o \in Patches : AnswerOk(o) =>
        row = NoRow \/ "row" \in touched[o]
        \/ \A f \in PatchedBy[o] :
            \/ Later(o, f, Statuses) # {}
            \/ row'[f] = reqs[o].data[f]]_vars

(* A failed patch the server never stored leaves no trace in a field that  *)
(* no other patch writes, after any retry, event and boot                  *)
(* (requestRollback.ts:6-13), unless a destroy captured the row in between *)
(* and put it back.                                                        *)
NoResidue ==
    row # NoRow => \A o \in Patches \ taken : ops[o].status = "failed" =>
        \A f \in PatchedBy[o] :
            \/ \E p \in Patches \ {o} : f \in PatchedBy[p]
            \/ \E d \in Destroys : ops[d].rollbackRow # NoRow /\ ops[d].rollbackRow[f] = ValueOf[o]
            \/ row[f] # ValueOf[o]

(* Once the client has been told that the server deleted the row, no       *)
(* answer still under way and no boot brings it back.  Two things do: the  *)
(* rollback of an optimistic destroy, and, when the row had been destroyed *)
(* optimistically, pruning the tombstone, since a destroy event that finds *)
(* no row notes nothing (modelApplyTarget.ts:147-156).                     *)
GoneStaysGone ==
    buried /\ row # NoRow =>
        \E d \in Destroys : ops[d].born > 0 /\ (pruned \/ ops[d].status \in {"failed", "removed"})
=============================================================================
